---------------------------- MODULE MCHttpRedeemer ----------------------------
EXTENDS HttpRedeemer

\* Settings that are accepted, and for every check of __init__ some that it refuses.
Good == [base |-> "https", allow_insecure_http |-> FALSE, endpoint |-> "plain",
         timeout |-> 5, verify |-> "usable"]

MCSettings ==
  { Good,
    [Good EXCEPT !.base = "http", !.allow_insecure_http = TRUE,
                 !.endpoint = "unformattable", !.verify = "unusable"],
    [Good EXCEPT !.verify = "unusable"],
    [Good EXCEPT !.base = "missing"], [Good EXCEPT !.base = "http"],
    [Good EXCEPT !.endpoint = "relative"],
    [Good EXCEPT !.timeout = 0], [Good EXCEPT !.timeout = Inf],
    [Good EXCEPT !.timeout = NaN] }

=============================================================================

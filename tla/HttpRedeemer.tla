----------------------------- MODULE HttpRedeemer -----------------------------
(***************************************************************************)
(* AsyncHTTPCapabilityGrantRedeemer from its construction to its end       *)
(* (src/sharedai/servicekit/capability_grants.py:611-703): a program       *)
(* builds redeemers, each with an HTTP client of its own or with one it    *)
(* injects and may share, routes redeem through them, and the program      *)
(* stops, while redemptions are on their way.                              *)
(*                                                                         *)
(* How the answer of the authority reads is module GrantVerifier           *)
(* (HttpRedeemResult); here an answer is what it reads as.  httpx, the     *)
(* authority and the program are outside the repository.                   *)
(***************************************************************************)
EXTENDS Integers

CONSTANTS
  Redeemers,
  Calls,         \* redemptions
  Injected,      \* HTTP clients of the program
  Settings,      \* arguments of a construction
  ClientTimeout, \* the timeout an injected client has of itself
  Inf, NaN,      \* floats that are no finite number
  MaxReads,      \* pieces in which a response may come
  None

\* An owned client is named after its redeemer.
Clients == Injected \cup Redeemers

BaseUrls == {"missing", "invalid", "http", "https"}

ASSUME RedeemerAssumption ==
  /\ Redeemers \cap Injected = {} /\ None \notin Clients
  /\ Inf # NaN /\ {Inf, NaN} \cap Int = {} /\ MaxReads \in Nat
  /\ ClientTimeout \in Int \cup {Inf}
  /\ Settings \subseteq [base : BaseUrls, allow_insecure_http : BOOLEAN,
                         endpoint : {"relative", "plain", "unformattable"},
                         timeout : Int \cup {Inf, NaN}, verify : {"usable", "unusable"}]

VARIABLES
  stage,     \* of each redeemer: "unbuilt", "refused", "built", "closed" (aclose was called)
  settings,  \* what it was built from
  client,    \* its HTTP client
  open,      \* the clients that are open
  given_up,  \* the injected clients that the program has closed
  call,      \* each redemption: [stage, redeemer, reads, quiet, result]
  stopping   \* the program shuts down

vars == <<stage, settings, client, open, given_up, call, stopping>>

\* A redemption in which nothing has arrived.
Fresh(at, d, result) ==
  [stage |-> at, redeemer |-> d, reads |-> 0, quiet |-> FALSE, result |-> result]

Idle == Fresh("idle", None, "none")

-----------------------------------------------------------------------------
Init ==
  /\ stage = [d \in Redeemers |-> "unbuilt"]
  /\ settings = [d \in Redeemers |-> None]
  /\ client = [d \in Redeemers |-> None]
  /\ open = Injected /\ given_up = {}
  /\ call = [c \in Calls |-> Idle]
  /\ stopping = FALSE

\* A positive and finite number: no comparison with a NaN is true, and an infinite timeout
\* is none.
AcceptsTimeout(timeout) == timeout \notin {Inf, NaN} /\ timeout > 0

\* What __init__ accepts before it opens a client.
Accepts(s) ==
  /\ s.base = "https" \/ (s.base = "http" /\ s.allow_insecure_http)
  /\ s.endpoint # "relative"
  /\ AcceptsTimeout(s.timeout)

\* Mutated forms of Construct: the client is opened before the arguments are looked at, or
\* there is none unless one is injected.
ClientFirst(d, s, injected) ==
  /\ stage[d] = "unbuilt" /\ ~ stopping
  /\ stage' = [stage EXCEPT ![d] = IF Accepts(s) THEN "built" ELSE "refused"]
  /\ settings' = [settings EXCEPT ![d] = s]
  /\ client' = [client EXCEPT ![d] = IF injected = None THEN d ELSE injected]
  /\ open' = IF injected = None THEN open \cup {d} ELSE open
  /\ UNCHANGED <<given_up, call, stopping>>

InjectedOnly(d, s, injected) ==
  /\ stage[d] = "unbuilt" /\ ~ stopping
  /\ stage' = [stage EXCEPT ![d] = IF Accepts(s) THEN "built" ELSE "refused"]
  /\ settings' = [settings EXCEPT ![d] = s]
  /\ client' = [client EXCEPT ![d] = injected]
  /\ UNCHANGED <<open, given_up, call, stopping>>

\* __init__: all arguments are checked before the client is opened, and opening it is the
\* last that may raise, on a CA file that cannot be used.
Construct(d, s, injected) ==
  /\ stage[d] = "unbuilt" /\ ~ stopping
  /\ IF Accepts(s) /\ (injected # None \/ s.verify = "usable")
     THEN /\ stage' = [stage EXCEPT ![d] = "built"]
          /\ settings' = [settings EXCEPT ![d] = s]
          /\ client' = [client EXCEPT ![d] = IF injected = None THEN d ELSE injected]
          /\ open' = IF injected = None THEN open \cup {d} ELSE open
     ELSE /\ stage' = [stage EXCEPT ![d] = "refused"]
          /\ UNCHANGED <<settings, client, open>>
  /\ UNCHANGED <<given_up, call, stopping>>

Owns(d) == client[d] = d

\* __call__ up to its await: the endpoint is formatted, and a client that is closed
\* raises; both are an authority that is not available.
Begin(c, d) ==
  /\ call[c] = Idle /\ stage[d] \in {"built", "closed"}
  /\ call' = [call EXCEPT ![c] =
       IF settings[d].endpoint = "plain" /\ client[d] \in open
       THEN Fresh("posted", d, "none") ELSE Fresh("ended", d, "Raised")]
  /\ UNCHANGED <<stage, settings, client, open, given_up, stopping>>

End(c, result) ==
  /\ call[c].stage = "posted"
  /\ call' = [call EXCEPT ![c] = [@ EXCEPT !.stage = "ended", !.result = result]]
  /\ UNCHANGED <<stage, settings, client, open, given_up, stopping>>

\* Part of a response arrives.
Read(c) ==
  /\ call[c].stage = "posted" /\ call[c].reads < MaxReads
  /\ call' = [call EXCEPT ![c] =
       [call[c] EXCEPT !.reads = call[c].reads + 1, !.quiet = FALSE]]
  /\ UNCHANGED <<stage, settings, client, open, given_up, stopping>>

\* The whole of it has arrived, or the connection fails.
Respond(c) == \E result \in {"True", "False", "Raised"} : End(c, result)

\* Mutated form of CallTimeout: post() is left to the client's own timeout.
TimeoutOfClient(d) == IF Owns(d) THEN settings[d].timeout ELSE ClientTimeout

\* The timeout of a redemption is the redeemer's, also over an injected client.
CallTimeout(d) == settings[d].timeout

\* httpx counts the timeout anew with every piece that arrives.
Elapse(c) ==
  /\ call[c].stage = "posted"
  /\ CallTimeout(call[c].redeemer) \notin {Inf, NaN}
  /\ IF call[c].quiet THEN End(c, "Raised")
     ELSE /\ call' = [call EXCEPT ![c].quiet = TRUE]
          /\ UNCHANGED <<stage, settings, client, open, given_up, stopping>>

-----------------------------------------------------------------------------
\* Mutated forms of Aclose: any client is closed, or none while a redemption uses it.
CloseAny(d) ==
  /\ stage[d] = "built"
  /\ stage' = [stage EXCEPT ![d] = "closed"]
  /\ open' = open \ {client[d]}
  /\ UNCHANGED <<settings, client, given_up, call, stopping>>

CloseUnused(d) ==
  /\ stage[d] = "built"
  /\ stage' = [stage EXCEPT ![d] = "closed"]
  /\ open' = IF Owns(d) /\ \A c \in Calls : ~ (call[c].stage = "posted" /\ call[c].redeemer = d)
             THEN open \ {client[d]} ELSE open
  /\ UNCHANGED <<settings, client, given_up, call, stopping>>

\* aclose: only the client that the redeemer opened itself.
Aclose(d) ==
  /\ stage[d] = "built"
  /\ stage' = [stage EXCEPT ![d] = "closed"]
  /\ open' = IF Owns(d) THEN open \ {client[d]} ELSE open
  /\ UNCHANGED <<settings, client, given_up, call, stopping>>

\* The program closes a client it injected.
GiveUp(k) ==
  /\ k \in open
  /\ open' = open \ {k} /\ given_up' = given_up \cup {k}
  /\ UNCHANGED <<stage, settings, client, call, stopping>>

\* It shuts down, after which it closes what it has: every redeemer that could be built,
\* and its own clients.
Stop ==
  /\ ~ stopping /\ stopping' = TRUE
  /\ UNCHANGED <<stage, settings, client, open, given_up, call>>

Next ==
  \/ \E d \in Redeemers :
       \/ \E s \in Settings, injected \in Injected \cup {None} : Construct(d, s, injected)
       \/ Aclose(d)
       \/ \E c \in Calls : Begin(c, d)
  \/ \E c \in Calls : Read(c) \/ Respond(c) \/ Elapse(c)
  \/ \E k \in Injected : GiveUp(k)
  \/ Stop

Spec == Init /\ [][Next]_vars

(***************************************************************************)
(* Time passes.  A program that shuts down calls aclose, as the docstring  *)
(* asks of it, and closes its own clients.                                 *)
(***************************************************************************)
Fairness ==
  /\ \A c \in Calls : WF_vars(Elapse(c))
  /\ \A d \in Redeemers : WF_vars(stopping /\ Aclose(d))
  /\ \A k \in Injected : WF_vars(stopping /\ GiveUp(k))

FairSpec == Spec /\ Fairness

-----------------------------------------------------------------------------
Redemptions ==
  [stage : {"idle", "posted", "ended"}, redeemer : Redeemers \cup {None},
   reads : 0..MaxReads, quiet : BOOLEAN, result : {"none", "True", "False", "Raised"}]

TypeOK ==
  /\ stage \in [Redeemers -> {"unbuilt", "refused", "built", "closed"}]
  /\ settings \in [Redeemers -> Settings \cup {None}]
  /\ client \in [Redeemers -> Clients \cup {None}]
  /\ \A d \in Redeemers :
       stage[d] \in {"built", "closed"} => client[d] \in Clients /\ settings[d] \in Settings
  /\ open \subseteq Clients /\ given_up \subseteq Injected /\ stopping \in BOOLEAN
  /\ call \in [Calls -> Redemptions]

\* "Injected clients remain caller-owned" (line 700): whatever redeemers are built on one
\* client and closed, in any order, it is open until the program closes it itself, so
\* that no redeemer ends the redemptions of another.
InjectedStaysOpen == Injected \ open = given_up

\* Every client that is open can still be closed: the program has it, or a redeemer whose
\* aclose has not been called yet.  A construction that raises leaves none behind (lines
\* 629-654).
EveryOpenClientHasACloser ==
  \A k \in open : k \in Injected \/ \E d \in Redeemers : stage[d] = "built" /\ client[d] = k

\* The await of a redemption ends: the timeout is finite, and it is the redeemer's own
\* also over a client that would wait for ever (lines 648-653, 675).
CallsEnd == \A c \in Calls : call[c].stage = "posted" ~> call[c].stage = "ended"

\* A program that calls aclose on what it built leaves no connection open (lines 614-616),
\* also with redemptions on their way.
ShutdownClosesAll == stopping ~> [](open = {})

-----------------------------------------------------------------------------
\* Inductive: beside the above, a redeemer has a client of its own or one of the program's.
OwnsOrBorrows == \A d \in Redeemers : client[d] \in Injected \cup {d, None}

IInv == TypeOK /\ InjectedStaysOpen /\ EveryOpenClientHasACloser /\ OwnsOrBorrows

=============================================================================

----------------------------- MODULE MCLlmBackend -----------------------------
EXTENDS LlmBackend

MCHosts == {"localhost", "ollama", "vllm"}

Paths == { <<>>, <<"">>, <<"v1">>, <<"v1", "">>, <<"llm">>, <<"llm", "", "">>,
           <<"llm", "v1">>, <<"v1", "llm">>, <<"v1", "v1">> }

\* Every path at every kind of backend, and URLs that validated_base_url refuses.
Accepted == {[DefaultUrl EXCEPT !.host = host, !.port = port, !.path = path] :
               host \in {"ollama", "vllm"}, port \in {NoPort, 8000, 11434}, path \in Paths}

MCUrls == Accepted \cup
  { EmptyUrl, [DefaultUrl EXCEPT !.scheme = "http"], [DefaultUrl EXCEPT !.host = "elsewhere"],
    [DefaultUrl EXCEPT !.host = ""], [DefaultUrl EXCEPT !.port = BadPort],
    [DefaultUrl EXCEPT !.user = "u"], [DefaultUrl EXCEPT !.password = "p"],
    [DefaultUrl EXCEPT !.user = "u", !.password = "p"],
    [DefaultUrl EXCEPT !.user = "u", !.password = "p", !.port = BadPort],
    [DefaultUrl EXCEPT !.extra = TRUE] }

MCTexts == SeqOf({Open, Close, "a", "b"}, 4) \cup SeqOf(Tags \cup {"a"}, 3)

=============================================================================

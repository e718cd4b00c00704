----------------------------- MODULE MCSaltCli -----------------------------
(* Instances of SaltCli for TLC.                                           *)
EXTENDS SaltCliRefinement

\* Every class of key input, once.
MCKeyDocs ==
    {[form |-> "blank", id |-> "none", decodes |-> FALSE],
     [form |-> "malformed", id |-> "none", decodes |-> FALSE],
     [form |-> "key", id |-> "none", decodes |-> FALSE],
     [form |-> "key", id |-> "none", decodes |-> TRUE],
     [form |-> "key", id |-> "badUtf8", decodes |-> TRUE],
     [form |-> "key", id |-> "utf8", decodes |-> TRUE]}

GoodKey == [form |-> "key", id |-> "utf8", decodes |-> TRUE]
PlainKey == [GoodKey EXCEPT !.id = "none"]

\* A call that seals a positional argument in text mode.
BaseRequest ==
    [args |-> "ok", manage |-> TRUE, keySrc |-> "argv", keyLen |-> 1, key |-> GoodKey,
     textSrc |-> "argv", textLen |-> 1, keyIdOpt |-> "none", mode |-> "text",
     sigpipe |-> "default"]

\* The installed program: every source, mode, length and key class.
ProcessRequests ==
    {[BaseRequest EXCEPT !.args = a] : a \in {"help", "rejected", "badShape"}}
    \cup {[BaseRequest EXCEPT !.keySrc = "stdin", !.mode = m, !.keyIdOpt = i] :
              m \in {"text", "json"}, i \in {"none", "utf8"}}
    \cup {[BaseRequest EXCEPT !.textSrc = "stdin", !.mode = "json", !.key = k,
                              !.sigpipe = "ignore"] : k \in MCKeyDocs}
    \cup {[BaseRequest EXCEPT !.keyLen = n, !.textLen = m] : n \in 1 .. 2, m \in 0 .. 2}
    \cup {[BaseRequest EXCEPT !.mode = "json", !.keyIdOpt = i, !.key = PlainKey] :
              i \in KeyIds}

\* An embedding program: calls with and without signal management, reading the
\* same stdin and writing to the same stdout one after the other.
EmbeddedRequests ==
    {[BaseRequest EXCEPT !.manage = m, !.textSrc = "stdin"] : m \in BOOLEAN}
    \cup {[BaseRequest EXCEPT !.args = "help", !.manage = FALSE]}
    \cup {[BaseRequest EXCEPT !.manage = TRUE, !.keySrc = "stdin"]}

\* The two ways to read stdin, one of them with SIGPIPE ignored.
LiveRequests ==
    {[BaseRequest EXCEPT !.textSrc = "stdin"],
     [BaseRequest EXCEPT !.keySrc = "stdin", !.mode = "json", !.sigpipe = "ignore"]}
=============================================================================

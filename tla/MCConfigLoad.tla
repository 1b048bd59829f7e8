---------------------------- MODULE MCConfigLoad ----------------------------
(* Instance of ConfigLoad for TLC: every state map with an otherwise plain *)
(* file, and files that depart from the plain one in one or two sections.  *)
EXTENDS ConfigLoad

\* One severity with a default, one without; names of either vocabulary, of
\* none, or left out.
MCSeverities == {"critical", "page"}
MCNames == {"", "typo"} \cup UNION {DOMAIN States[t] : t \in CheckTypes}
MCSecrets == {"", "secret", "other"}
MCRuleNames == {"", "a", "b", "c"}

NoTLS  == [given |-> FALSE, cert |-> "", key |-> "", ca |-> ""]
TLS    == {NoTLS} \cup {t \in TLSSpecs : t.given}
NoAuth == [given |-> FALSE, Type |-> "", Username |-> "", Password |-> "",
           Token |-> ""]
Silent == [Enabled |-> FALSE, Interval |-> 0, CheckType |-> "", Host |-> "",
           Service |-> "", State |-> ""]
Rule   == [Name |-> "a", valid |-> TRUE, compiles |-> TRUE]

Plain == [text |-> "ok", MaxBodyBytes |-> 0, ServerTLS |-> NoTLS, Auth |-> NoAuth,
          URL |-> "http", Token |-> "secret", Timeout |-> 0, Retries |-> 0,
          NRDPTLS |-> NoTLS, Heartbeat |-> Silent, Aggregation |-> {},
          MaxListed |-> {}, Output |-> "", Rules |-> <<Rule>>]

Limits == {[Plain EXCEPT !.text = x, !.MaxBodyBytes = b, !.Timeout = t,
                         !.Retries = r, !.MaxListed = l, !.URL = u] :
              x \in {"unset", "unparsable", "ok"}, b \in {-1, 0, 1},
              t \in {-1, 0, 1}, r \in {-1, 0, 1}, l \in {{}, {-1}, {0}},
              u \in {"", "unparsable", "noscheme", "nohost", "http", "https"}}

Logins == {[Plain EXCEPT !.Auth = a] : a \in {a \in Auths : a.given}}

Beats == {[Plain EXCEPT !.Heartbeat = [Enabled |-> e, Interval |-> i, CheckType |-> t,
                                       Host |-> h, Service |-> v, State |-> n]] :
             e \in BOOLEAN, i \in {-1, 0, 1}, t \in CheckTypes \cup {"", "typo"},
             h \in {"", "host"}, v \in {"", "service"}, n \in MCNames}

Targets == {[Plain EXCEPT !.URL = u, !.Token = t] :
               u \in {"", "unparsable", "noscheme", "nohost", "http", "https"},
               t \in MCSecrets}

Built == {[Plain EXCEPT !.ServerTLS = s, !.NRDPTLS = n, !.Output = o] :
             s \in TLS, n \in TLS, o \in {"", "bad", "good"}}

Ruled == {[Plain EXCEPT !.Rules = rs] :
             rs \in UNION {[1 .. k -> RuleConfigs] : k \in 0 .. 3}}

\* What test does with a sample.
Merged == {[Plain EXCEPT !.Rules[1].compiles = c, !.Aggregation = e, !.Output = o,
                         !.NRDPTLS = n] :
              c \in BOOLEAN, e \in {{}, {FALSE}, {TRUE}}, o \in Outputs,
              n \in {NoTLS, [NoTLS EXCEPT !.given = TRUE, !.ca = "bad"]}}

MCFiles == Limits \cup Logins \cup Beats \cup Targets \cup Built \cup Ruled
              \cup Merged

Omitted == [given |-> FALSE, Values |-> <<>>, Unmatched |-> "", Resolved |-> ""]

\* Bounds: the state map and the rest of the file do not both depart, and the
\* sample only where it makes a difference.
MCInit == /\ checkType \in CheckTypes
          /\ \/ file = Plain /\ m \in Written
             \/ file \in MCFiles /\ m = Omitted
          /\ \/ sample = "apart"
             \/ file \in Merged /\ m = Omitted /\ sample \in Samples
          /\ cfg = file
          /\ verdict = [c \in Commands |-> "pending"]
          /\ pc = "written"
          /\ codes = <<>>

MCSpec == MCInit /\ [][LoadNext]_loadVars
=============================================================================

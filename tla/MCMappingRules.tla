--------------------------- MODULE MCMappingRules ---------------------------
(***************************************************************************)
(* Instance of MappingRules for TLC: two labels; values that are empty,    *)
(* plain, nothing but a semicolon, or have blanks and control characters   *)
(* at either end; rules for every operator, of both check types, with and  *)
(* without defaults, some that fail on an empty label, and two that        *)
(* validation must not let through.                                        *)
(***************************************************************************)
EXTENDS MappingRules

MCLabels == {"job", "node"}
MCValues == {<<>>, <<"x">>, <<";">>, <<"ctl", "x", ";", " ">>, <<"x", " ", "x">>}
MCRegexes == {{<<"x">>, <<"x", " ", "x">>}}

prints(l, d) == [given |-> TRUE, t |-> [label |-> l, dflt |-> d, strict |-> FALSE]]
strict(l) == [given |-> TRUE, t |-> [label |-> l, dflt |-> <<>>, strict |-> TRUE]]

match(l, o, v) == [label |-> l, op |-> o, value |-> v]

rule(M, host, service, output) ==
    [Match |-> M, CheckType |-> IF service.given THEN "service" ELSE "host",
     Host |-> host, Service |-> service, Output |-> output]

plain == prints("node", <<>>)

MCRules ==
    {rule({m}, plain, prints("job", <<"x">>), Absent) :
        m \in {match("job", "exists", <<>>), match("job", "absent", <<>>),
               match("job", "eq", <<"x">>), match("job", "ne", <<"x">>)}}
    \cup
    {rule({match("node", o, v)}, prints("node", <<"x">>), Absent, Absent) :
        o \in {"regex", "notregex"}, v \in MCRegexes}
    \cup
    {rule({match("job", "eq", <<>>), match("node", "exists", <<>>)},
          strict("node"), plain, Absent),
     rule({}, strict("node"), strict("job"), Absent),
     rule({}, plain, plain, strict("job")),
     rule({}, plain, Absent, Absent),
     \* rejected: an unknown operator, and a host rule with a service
     rule({match("job", "contains", <<"x">>)}, plain, Absent, Absent),
     [rule({}, plain, plain, Absent) EXCEPT !.CheckType = "host"]}

\* A severity the defaults know and one they do not.  Of the state sections one
\* is left to the defaults, one is complete and unlike them, and one has a host
\* map that names a service state, which validation must not let through.
MCSeverities == {"critical", "page"}
MCNames == {"", "ok", "warning", "critical", "unknown", "up", "down", "unreachable"}

omitted == [given |-> FALSE, Values |-> <<>>, Unmatched |-> "", Resolved |-> ""]

sections(service, host) == [t \in CheckTypes |-> IF t = "host" THEN host ELSE service]

MCStateConfigs ==
    {sections(omitted, omitted),
     sections([given |-> TRUE, Values |-> [s \in {"page"} |-> "critical"],
               Unmatched |-> "warning", Resolved |-> "unknown"],
              [given |-> TRUE, Values |-> [s \in {"page"} |-> "unreachable"],
               Unmatched |-> "up", Resolved |-> "up"]),
     sections(omitted, [omitted EXCEPT !.Unmatched = "critical"])}
=============================================================================

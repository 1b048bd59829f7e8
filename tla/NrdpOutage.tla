----------------------------- MODULE NrdpOutage -----------------------------
(***************************************************************************)
(* The client of NrdpClient against two kinds of NRDP server: one of which *)
(* nothing is known, and one that is down until time back and well from    *)
(* then on.  The second says what the retries are for: which outages       *)
(* Alertmanager never gets to see.                                         *)
(***************************************************************************)
EXTENDS NrdpClient

CONSTANT Outages        \* bounds: when a server that is down comes back

ASSUME OutagesAssumption == Outages \subseteq Nat

VARIABLE back           \* when the server is back, the same all along

outageVars == <<vars, back>>

NoPromise == -1         \* nothing is known of the server

OutageInit == Init /\ back \in Outages \cup {NoPromise}

promised == back # NoPromise
up == promised /\ now >= back

\* Before back a POST is refused, or swallowed without an answer; from then on
\* it is applied and acknowledged.
OutageNrdp == \E k \in wire :
                 \/ ~ promised /\ (Apply(k) \/ Refuse(k))
                 \/ promised /\ ~ up /\ Refuse(k)
                 \/ /\ up
                    /\ applied' = applied \cup {k}
                    /\ answer(k, [http |-> "200", body |-> "status0"])

\* A server that is well answers before the attempt times out, and the client
\* reads an answer that is there.
OutageTick == /\ promised => (pc = "attempt" => reply = NoReply)
              /\ up /\ pc = "attempt" /\ attempt \in wire => now + 1 < due
              /\ Tick

OutageNext == /\ OutageTick \/ Client \/ OutageNrdp
              /\ UNCHANGED back

\* The runtime's clock advances and a goroutine that can run does.  Only the
\* server that is promised to be well does anything in the end.
OutageFairness == /\ WF_outageVars(OutageTick /\ UNCHANGED back)
                  /\ WF_outageVars(Client /\ UNCHANGED back)
                  /\ WF_outageVars(promised /\ OutageNrdp /\ UNCHANGED back)

OutageSpec == OutageInit /\ [][OutageNext]_outageVars /\ OutageFairness

\* An outage no longer than all the pauses between attempts is invisible to
\* Alertmanager: even if every attempt made during it fails at once, one more
\* comes after it, is given time for its answer, and Submit returns nil.
OutageBridged ==
    (SlackSuffices /\ promised /\ back <= Retries * RetryBackoff) ~> pc = "ok"
=============================================================================

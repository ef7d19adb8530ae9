---------------------------- MODULE RequestGuardsProps ----------------------------
(* The correctness properties of RequestGuards.                                     *)
EXTENDS RequestGuards

\* rate_limit.check, whatever the order in which threads get the lock: never more
\* than MaxReq requests are admitted within a window less the longest wait, and a
\* client is refused only when MaxReq were admitted within the window and one
\* wait, so that refusals do not prolong themselves.
LimitIsExact ==
  /\ \A i \in DOMAIN admitted : i + MaxReq <= Len(admitted) =>
        admitted[i + MaxReq] - admitted[i] > Window - MaxWait
  /\ refused.at # -1 =>
        /\ refused.after >= MaxReq
        /\ refused.at - admitted[refused.after - MaxReq + 1] <= Window + MaxWait

\* api_run_agent_stream, "single-use and expires after 60 seconds": a token opens
\* at most one stream, within its lifetime, also when it was stored late.
TokensOpenOneStream ==
  \A t \in Tokens : /\ Len(streams[t]) <= 1
                    /\ \A i \in DOMAIN streams[t] : streams[t][i] - issued[t] < TTL
==================================================================================

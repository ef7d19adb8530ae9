------------------------------ MODULE RequestGuards ------------------------------
(***************************************************************************)
(* The guards in the memory of the server: the sliding window of           *)
(* rate_limit.check, for one endpoint and client, and the tokens that open *)
(* the event stream of an agent run (app._issue_sse_token,                 *)
(* app._consume_sse_token).  Threads read the clock before they have the   *)
(* lock, up to MaxWait ticks before.                                       *)
(***************************************************************************)
EXTENDS Integers, Sequences, FiniteSets

CONSTANTS Threads,
          MaxReq, Window,    \* the entry of rate_limit._LIMITS
          Tokens, TTL,       \* app._SSE_TOKEN_TTL
          MaxWait, MaxClock  \* bounds: ticks between clock and lock, ticks

ASSUME GuardsAssumption ==
  /\ MaxReq \in Nat \ {0} /\ Window \in Nat /\ TTL \in Nat
  /\ MaxWait \in Nat /\ MaxClock \in Nat

VARIABLES clock,
          window,    \* rate_limit._counters of the key: timestamps in lock order
          expires,   \* app._SSE_TOKENS; -1: not in it
          threads,   \* what a thread does and the time it has read
          admitted,  \* history: when each admitted request had the lock
          refused,   \* history: the admissions before the last refusal and its
                     \* time, -1 before the first
          issued, streams  \* history: when a token was issued, used for a stream

guardVars == <<clock, window, expires, threads, admitted, refused, issued, streams>>

IdleThread == [pc |-> "idle", now |-> 0, token |-> "none"]

GInit ==
  /\ clock = 0 /\ window = << >>
  /\ expires = [t \in Tokens |-> -1]
  /\ threads = [h \in Threads |-> IdleThread]
  /\ admitted = << >> /\ refused = [after |-> 0, at |-> -1]
  /\ issued = [t \in Tokens |-> -1]
  /\ streams = [t \in Tokens |-> << >>]

Turn(h, rec) == threads' = [threads EXCEPT ![h] = rec]

Tick ==
  /\ clock < MaxClock
  /\ \A h \in Threads : threads[h] # IdleThread => clock - threads[h].now < MaxWait
  /\ clock' = clock + 1
  /\ UNCHANGED <<window, expires, threads, admitted, refused, issued, streams>>
-----------------------------------------------------------------------------
(* rate_limit.check. *)
Arrive(h) ==
  /\ threads[h] = IdleThread
  /\ Turn(h, [IdleThread EXCEPT !.pc = "check", !.now = clock])
  /\ UNCHANGED <<clock, window, expires, admitted, refused, issued, streams>>

\* The queue without the timestamps before the window, up to the first that is
\* in it: with times read before the lock it need not be sorted.
Evicted(q, now) ==
  LET inside == {i \in DOMAIN q : q[i] >= now - Window}
  IN  IF inside = {} THEN << >>
      ELSE SubSeq(q, CHOOSE i \in inside : \A j \in inside : i <= j, Len(q))

\* Mutant: one request too many.
CheckOneMore(h) ==
  LET q == Evicted(window, threads[h].now) IN
  /\ threads[h].pc = "check"
  /\ \/ /\ Len(q) <= MaxReq
        /\ window' = Append(q, threads[h].now)
        /\ admitted' = Append(admitted, clock)
        /\ UNCHANGED refused
     \/ /\ Len(q) > MaxReq
        /\ window' = q
        /\ refused' = [after |-> Len(admitted), at |-> clock]
        /\ UNCHANGED admitted
  /\ Turn(h, IdleThread)
  /\ UNCHANGED <<clock, expires, issued, streams>>

Check(h) ==
  LET q == Evicted(window, threads[h].now) IN
  /\ threads[h].pc = "check"
  /\ \/ /\ Len(q) < MaxReq
        /\ window' = Append(q, threads[h].now)
        /\ admitted' = Append(admitted, clock)
        /\ UNCHANGED refused
     \/ /\ Len(q) >= MaxReq
        /\ window' = q
        /\ refused' = [after |-> Len(admitted), at |-> clock]
        /\ UNCHANGED admitted
  /\ Turn(h, IdleThread)
  /\ UNCHANGED <<clock, expires, issued, streams>>
-----------------------------------------------------------------------------
(* POST /api/run-agent-stream-token and GET /api/run-agent-stream. *)
IssueRead(h, t) ==
  /\ threads[h] = IdleThread /\ issued[t] = -1
  /\ \A g \in Threads : threads[g].token # t
  /\ Turn(h, [pc |-> "issue", now |-> clock, token |-> t])
  /\ UNCHANGED <<clock, window, expires, admitted, refused, issued, streams>>

\* The lifetime counts from the first reading of the clock, expired tokens
\* are pruned by a second one, under the lock.
IssueStore(h) ==
  LET t == threads[h].token IN
  /\ threads[h].pc = "issue"
  /\ expires' = [u \in Tokens |-> CASE u = t -> threads[h].now + TTL
                                    [] u # t /\ expires[u] < clock -> -1
                                    [] OTHER -> expires[u]]
  /\ issued' = [issued EXCEPT ![t] = threads[h].now]
  /\ Turn(h, IdleThread)
  /\ UNCHANGED <<clock, window, admitted, refused, streams>>

\* Mutant: a token stays in the store until it expires.
StreamAgain(t) ==
  /\ expires[t] # -1 /\ Len(streams[t]) < 3
  /\ expires' = IF clock < expires[t] THEN expires ELSE [expires EXCEPT ![t] = -1]
  /\ streams' = IF clock < expires[t] THEN [streams EXCEPT ![t] = Append(@, clock)]
                ELSE streams
  /\ UNCHANGED <<clock, window, threads, admitted, refused, issued>>

\* A token is used up whether it is still valid or not.
Stream(t) ==
  /\ expires[t] # -1
  /\ expires' = [expires EXCEPT ![t] = -1]
  /\ streams' = IF clock < expires[t] THEN [streams EXCEPT ![t] = Append(@, clock)]
                ELSE streams
  /\ UNCHANGED <<clock, window, threads, admitted, refused, issued>>
-----------------------------------------------------------------------------
GNext ==
  \/ Tick
  \/ \E h \in Threads : Arrive(h) \/ Check(h) \/ IssueStore(h)
  \/ \E h \in Threads, t \in Tokens : IssueRead(h, t)
  \/ \E t \in Tokens : Stream(t)

GSpec == GInit /\ [][GNext]_guardVars
=============================================================================

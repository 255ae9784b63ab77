------------------------------- MODULE Events ------------------------------
(***************************************************************************)
(* The kernel's event log (kernel/obj/event.c), read through SOV_EVENT_READ*)
(* by bin/core (user/core/core.c): event.subscribe, event.poll and the     *)
(* check event_seen that a task was created or ended.  The kernel records  *)
(* events between any two reads.                                           *)
(***************************************************************************)
EXTENDS Integers, Sequences, FiniteSets

CONSTANTS Size,       \* NX_EVLOG_SIZE
          ReadMax,    \* events per read
          Rooms,      \* how many items an answer has room for: it depends on the id
          SubsMax,    \* SUBS_MAX
          Kinds,      \* what an event says (task and type)
          MaxEvents, MaxPolls

VARIABLES evlog,   \* struct nx_evlog: next, ev, disabled
          evall,   \* history: every event, by sequence number
          evsubs,  \* subs[]: next; and history: where it started, what it was given, how
                   \* many it was told are lost, what answers that failed passed over
          evseen   \* event_seen in progress

eventVars == <<evlog, evall, evsubs, evseen>>

Init == /\ evlog \in {[next |-> 1, ev |-> [i \in 0 .. Size - 1 |-> [seq |-> 0, k |-> "none"]], disabled |-> d] : d \in BOOLEAN}
        /\ evall = <<>> /\ evsubs = <<>>
        /\ evseen = [pc |-> "idle", since |-> 0, from |-> 0, k |-> "none", had |-> {}, res |-> "none", polls |-> 0]

\* nx_evlog_push (task_event)
nx_evlog_push(k) ==
  /\ Len(evall) < MaxEvents /\ ~evlog.disabled
  /\ evlog' = [evlog EXCEPT !.ev[evlog.next % Size] = [seq |-> evlog.next, k |-> k], !.next = @ + 1]
  /\ evall' = Append(evall, k)
  /\ UNCHANGED <<evsubs, evseen>>

nx_evlog_oldest ==
  IF evlog.next > Size + 1 THEN evlog.next - Size ELSE 1

\* nx_evlog_read (sys_sov_event_read)
nx_evlog_read(since) ==
  LET from == IF since < nx_evlog_oldest THEN nx_evlog_oldest ELSE since
      n == IF evlog.next - from < ReadMax THEN evlog.next - from ELSE ReadMax
  IN [i \in 1 .. (IF n > 0 THEN n ELSE 0) |-> evlog.ev[(from + i - 1) % Size]]

op_subscribe ==
  /\ Len(evsubs) < SubsMax
  /\ evsubs' = Append(evsubs, [next |-> evlog.next, start |-> evlog.next, got |-> <<>>, lost |-> 0, over |-> {}])
  /\ UNCHANGED <<evlog, evall, evseen>>

\* op_poll: what is read, how many were lost before it, where the next poll
\* starts.  The cursor moves before the answer is written: one that is longer
\* than ENG_RESULT_MAX fails with RESPONSE_TOO_LARGE, and neither the events
\* nor the number lost are told.
op_poll(s, room) ==
  LET r == nx_evlog_read(evsubs[s].next)
      gap == {i \in 2..Len(r) : r[i].seq # r[i - 1].seq + 1}
      next == r[Len(r)].seq + 1
  IN /\ r # <<>> /\ gap = {}
     /\ evsubs' = [evsubs EXCEPT ![s] =
          IF Len(r) <= room
          THEN [@ EXCEPT !.next = next, !.got = @ \o r, !.lost = @ + (r[1].seq - evsubs[s].next)]
          ELSE [@ EXCEPT !.next = next, !.over = @ \cup (evsubs[s].next .. next - 1)]]
     /\ UNCHANGED <<evlog, evall, evseen>>

\* e0 = events_next() before the kernel is asked to act; event_seen(e0, k) later,
\* one read per turn until nothing is left to read.
events_next(k) ==
  /\ evseen.pc = "idle" /\ evseen.polls < MaxPolls
  /\ evseen' = [pc |-> "acts", since |-> evlog.next, from |-> evlog.next, k |-> k, res |-> "none",
                polls |-> evseen.polls + 1, had |-> {}]
  /\ UNCHANGED <<evlog, evall, evsubs>>
SeenBegins ==
  /\ evseen.pc = "acts"
  /\ evseen' = [evseen EXCEPT !.pc = "read", !.had = {i \in evseen.since..Len(evall) : evall[i] = evseen.k}]
  /\ UNCHANGED <<evlog, evall, evsubs>>

\* BROKEN: one read of the log instead of all there is.
event_seenOnce ==
  /\ evseen.pc = "read"
  /\ LET r == nx_evlog_read(evseen.from)
     IN evseen' = [evseen EXCEPT !.pc = "idle", !.res = IF \E i \in 1..Len(r) : r[i].k = evseen.k THEN "yes" ELSE "no"]
  /\ UNCHANGED <<evlog, evall, evsubs>>

event_seen ==
  /\ evseen.pc = "read"
  /\ LET r == nx_evlog_read(evseen.from)
     IN evseen' = IF r = <<>> THEN [evseen EXCEPT !.pc = "idle", !.res = "no"]
                  ELSE IF \E i \in 1..Len(r) : r[i].k = evseen.k THEN [evseen EXCEPT !.pc = "idle", !.res = "yes"]
                  ELSE [evseen EXCEPT !.from = r[Len(r)].seq + 1]
  /\ UNCHANGED <<evlog, evall, evsubs>>

Next == \/ \E k \in Kinds : nx_evlog_push(k) \/ events_next(k)
        \/ op_subscribe \/ SeenBegins \/ event_seen
        \/ \E s \in 1..Len(evsubs), room \in Rooms : op_poll(s, room)
Spec == Init /\ [][Next]_eventVars

----------------------------------------------------------------------------
\* The ring holds the last events, and only those, each in its place.
TypeOK == /\ evlog.next = Len(evall) + 1
          /\ \A i \in 1..Len(evall) : i > Len(evall) - Size => evlog.ev[i % Size] = [seq |-> i, k |-> evall[i]]

\* A subscriber gets every event since its subscription in order, once, as it
\* was recorded, except those it is told were lost and those an answer passed
\* over that failed with RESPONSE_TOO_LARGE and effects=unknown: the three add
\* up, however far the log ran ahead (op_poll, core_handle).
PollsAddUp ==
  \A s \in 1..Len(evsubs) :
    LET u == evsubs[s]
    IN /\ Len(u.got) + u.lost + Cardinality(u.over) = u.next - u.start
       /\ \A i \in 1..Len(u.got) : /\ u.got[i].seq \in (u.start .. u.next - 1) \ u.over
                                   /\ evall[u.got[i].seq] = u.got[i].k
                                   /\ i > 1 => u.got[i - 1].seq < u.got[i].seq

\* The check that an event happened does not err: yes means that it did, no
\* that it had not when the check began or has been overwritten (event_seen).
SeenRight ==
  evseen.pc = "idle" => /\ evseen.res = "yes" => \E i \in evseen.since..Len(evall) : evall[i] = evseen.k
                        /\ evseen.res = "no" => \A i \in evseen.had : i <= Len(evall) - Size
=============================================================================

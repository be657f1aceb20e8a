----------------------------- MODULE EventQueue -----------------------------
(***************************************************************************)
(* The event loop under every daemon and library of Spines                 *)
(* (libspread-util/src/events.c): timed events, file descriptors with a    *)
(* priority, and the loop that calls their handlers.  A handler may queue  *)
(* and dequeue events and attach and detach descriptors, its own too.  An  *)
(* event is a function with its code and data; a descriptor stands for the *)
(* pair of a descriptor and its type.  E_deactivate_fd and the activity    *)
(* threshold, which Spines never uses, are left out: all that is attached  *)
(* is active and Active_priority stays LOW_PRIORITY.  A select that fails  *)
(* is one that finds nothing ready: no handler is called after either.     *)
(***************************************************************************)
EXTENDS Integers, Sequences, FiniteSets, SequencesExt

CONSTANTS Event, Fd,
          Delays,            \* the delays events are queued with
          MAX_FD_EVENTS,
          USEC,              \* microseconds in a second
          MaxNow, MaxCalls   \* bounds: the clock, calls in all handlers together

LOW_PRIORITY == 0
MEDIUM_PRIORITY == 1
HIGH_PRIORITY == 2
Priorities == {LOW_PRIORITY, MEDIUM_PRIORITY, HIGH_PRIORITY}

VARIABLE eq

-----------------------------------------------------------------------------
(* Times: seconds and microseconds, which have one sign.                     *)
E_neg_time(t) == [sec |-> -t.sec, usec |-> -t.usec]

E_add_time(t, d) ==
  LET sec == t.sec + d.sec
      usec == t.usec + d.usec
      carry == IF usec >= USEC THEN 1 ELSE IF usec <= -USEC THEN -1 ELSE 0
      s == sec + carry
      u == usec - carry * USEC
  IN  IF s > 0 /\ u < 0 THEN [sec |-> s - 1, usec |-> u + USEC]
      ELSE IF s < 0 /\ u > 0 THEN [sec |-> s + 1, usec |-> u - USEC]
      ELSE [sec |-> s, usec |-> u]

E_sub_time(t, d) == E_add_time(t, E_neg_time(d))

E_compare_time(t1, t2) ==
  IF t1.sec # t2.sec THEN (IF t1.sec > t2.sec THEN 1 ELSE -1)
  ELSE IF t1.usec # t2.usec THEN (IF t1.usec > t2.usec THEN 1 ELSE -1)
  ELSE 0

Clock(n) == [sec |-> n \div USEC, usec |-> n % USEC]

-----------------------------------------------------------------------------
(* The variables of one round of the loop over what select found. *)
NoWalk == [current_mask |-> {}, num_set |-> 0, treated |-> FALSE, i |-> HIGH_PRIORITY, j |-> 1]

Init ==
  eq = [Time_queue |-> <<>>, Now |-> 0, first |-> TRUE,
        Fd_queue |-> [p \in Priorities |-> <<>>], Fd_mask |-> {},
        pc |-> "outside", walk |-> NoWalk, Round_robin |-> 0, Exit_events |-> FALSE, calls |-> 0,
        due |-> [e \in {} |-> 0], wanted |-> [p \in Priorities |-> {}]]

(* E_queue: one pass over the queue removes the entry of the same event and  *)
(* puts the new one behind all entries that are not later.                   *)
Same(x, e) == x.ev = e
E_queue(q, e, t) ==
  LET rest == SelectSeq(q, LAMBDA x : ~Same(x, e))
      k == Cardinality({i \in DOMAIN rest : E_compare_time(t, rest[i].t) >= 0})
  IN  SubSeq(rest, 1, k) \o <<[ev |-> e, t |-> t]>> \o SubSeq(rest, k + 1, Len(rest))

(* E_dequeue: the first entry of the event goes.                             *)
E_dequeue(q, e) ==
  LET at == {i \in DOMAIN q : Same(q[i], e) /\ \A k \in 1 .. i - 1 : ~Same(q[k], e)}
  IN  IF at = {} THEN q ELSE RemoveAt(q, CHOOSE i \in at : TRUE)

E_in_queue(q, e) == \E i \in DOMAIN q : Same(q[i], e)

(* E_attach_fd: an attached descriptor is only given its new handler; when   *)
(* the table is full the call fails.                                         *)
Full(s, fd, p) == ~Contains(s.Fd_queue[p], fd) /\ Len(s.Fd_queue[p]) = MAX_FD_EVENTS
E_attach_fd(s, fd, p) ==
  IF Contains(s.Fd_queue[p], fd) \/ Full(s, fd, p) THEN s
  ELSE [s EXCEPT !.Fd_queue[p] = Append(@, fd), !.Fd_mask = @ \cup {fd}]

(* E_detach_fd: in each priority the last descriptor takes its place.        *)
Detached(q, fd) ==
  IF \E i \in DOMAIN q : q[i] = fd
  THEN LET at == CHOOSE i \in DOMAIN q : q[i] = fd
       IN  SubSeq([q EXCEPT ![at] = q[Len(q)]], 1, Len(q) - 1)
  ELSE q
E_detach_fd(s, fd) ==
  [s EXCEPT !.Fd_queue = [p \in Priorities |-> Detached(@[p], fd)],
            !.Fd_mask = IF \E p \in Priorities : Contains(s.Fd_queue[p], fd)
                        THEN @ \ {fd} ELSE @]

(* A call of the program, from its initialisation or from a handler.         *)
InProgram == eq.pc \in {"outside", "timed", "urgent", "low"}
Call(s) == InProgram /\ eq.calls < MaxCalls /\ eq' = [s EXCEPT !.calls = @ + 1]

CallQueue ==
  \E e \in Event, d \in Delays :
    Call([eq EXCEPT !.Time_queue = E_queue(@, e, E_add_time(Clock(eq.Now), d)),
                    !.due = [x \in DOMAIN @ \cup {e} |->
                               IF x = e THEN eq.Now + d.sec * USEC + d.usec ELSE @[x]]])
CallDequeue ==
  \E e \in Event :
    /\ E_in_queue(eq.Time_queue, e)
    /\ Call([eq EXCEPT !.Time_queue = E_dequeue(@, e),
                       !.due = [x \in DOMAIN @ \ {e} |-> @[x]]])
CallDequeueAll ==
  eq.Time_queue # <<>> /\ Call([eq EXCEPT !.Time_queue = <<>>, !.due = [x \in {} |-> 0]])
CallAttach ==
  \E fd \in Fd, p \in Priorities :
    Call([E_attach_fd(eq, fd, p) EXCEPT !.wanted[p] = IF Full(eq, fd, p) THEN @ ELSE @ \cup {fd}])
CallDetach ==
  \E fd \in Fd :
    /\ \E p \in Priorities : fd \in eq.wanted[p]
    /\ Call([E_detach_fd(eq, fd) EXCEPT !.wanted = [p \in Priorities |-> @[p] \ {fd}]])

-----------------------------------------------------------------------------
(* E_handle_events.  A handler runs while pc is "timed", "urgent" or "low"   *)
(* and may make any calls before it returns.                                 *)
E_handle_events ==
  eq.pc = "outside" /\ eq' = [eq EXCEPT !.pc = "timers", !.first = TRUE, !.Exit_events = FALSE]

(* A handler or a signal asks the loop to end: it does after that handler,   *)
(* or when it is through with what select found.                             *)
E_exit_events ==
  eq.pc # "outside" /\ ~eq.Exit_events /\ eq' = [eq EXCEPT !.Exit_events = TRUE]
Unless_exit(s) == IF eq.Exit_events THEN [s EXCEPT !.pc = "outside", !.walk = NoWalk] ELSE s
NextRound(s) == Unless_exit([s EXCEPT !.pc = "timers", !.walk = NoWalk])

Due == eq.Time_queue # <<>> /\ E_compare_time(Clock(eq.Now), Head(eq.Time_queue).t) >= 0
FireTimer ==
  /\ eq.pc = "timers" /\ ~eq.first /\ Due
  /\ eq' = [eq EXCEPT !.pc = "timed", !.Time_queue = Tail(@),
                      !.due = [x \in DOMAIN @ \ {Head(eq.Time_queue).ev} |-> @[x]]]
TimerReturns == eq.pc = "timed" /\ eq' = NextRound(eq)

(* The two selects: some of the descriptors in the mask are ready.           *)
Select ==
  /\ eq.pc = "timers" /\ (eq.first \/ ~Due)
  /\ \E ready \in SUBSET eq.Fd_mask :
       eq' = [eq EXCEPT !.pc = "pick", !.walk = [NoWalk EXCEPT !.current_mask = ready,
                                                               !.num_set = Cardinality(ready)]]

(* The handlers of all ready descriptors of the highest priority that has    *)
(* any are called, if that is not LOW_PRIORITY ...                           *)
Ready ==
  LET q == eq.Fd_queue[eq.walk.i]
  IN  {k \in eq.walk.j .. Len(q) : eq.walk.num_set > 0 /\ q[k] \in eq.walk.current_mask}
PickUrgent ==
  /\ eq.pc = "pick" /\ eq.walk.i # LOW_PRIORITY /\ Ready # {}
  /\ eq' = [eq EXCEPT !.pc = "urgent", !.walk.j = CHOOSE k \in Ready : \A l \in Ready : k <= l]
UrgentReturns ==
  /\ eq.pc = "urgent"
  /\ eq' = Unless_exit([eq EXCEPT !.pc = "pick", !.walk.j = @ + 1, !.walk.num_set = @ - 1,
                                  !.walk.treated = TRUE])
NextPriority ==
  /\ eq.pc = "pick" /\ eq.walk.i # LOW_PRIORITY /\ Ready = {}
  /\ eq' = [eq EXCEPT !.walk.j = 1, !.walk.i = IF eq.walk.treated THEN LOW_PRIORITY ELSE @ - 1]

(* ... and then that of one with LOW_PRIORITY, in turns.                     *)
LowReady ==
  LET q == eq.Fd_queue[LOW_PRIORITY]
  IN  {i \in 0 .. Len(q) - 1 : /\ eq.walk.num_set > 0
                               /\ q[((i + eq.Round_robin) % Len(q)) + 1] \in eq.walk.current_mask}
PickLow ==
  /\ eq.pc = "pick" /\ eq.walk.i = LOW_PRIORITY
  /\ LET s == [eq EXCEPT !.first = @ /\ eq.walk.treated]
         n == Len(eq.Fd_queue[LOW_PRIORITY])
         i == CHOOSE i \in LowReady : \A k \in LowReady : i <= k
     IN  eq' = IF LowReady = {} THEN NextRound(s)
               ELSE [s EXCEPT !.pc = "low", !.walk = NoWalk, !.Round_robin = (i + @ + 1) % n]
LowReturns == eq.pc = "low" /\ eq' = NextRound(eq)

Tick == eq.Now < MaxNow /\ eq' = [eq EXCEPT !.Now = @ + 1]

Next == \/ CallQueue \/ CallDequeue \/ CallDequeueAll \/ CallAttach \/ CallDetach
        \/ E_handle_events \/ E_exit_events \/ FireTimer \/ TimerReturns \/ Select
        \/ PickUrgent \/ UrgentReturns \/ NextPriority \/ PickLow \/ LowReturns \/ Tick

Spec == Init /\ [][Next]_eq

-----------------------------------------------------------------------------
Value(t) == t.sec * USEC + t.usec
Normal(t) == /\ -USEC < t.usec /\ t.usec < USEC
             /\ t.sec > 0 => t.usec >= 0
             /\ t.sec < 0 => t.usec <= 0
Times == {t \in [sec : -2 .. 2, usec : -USEC .. USEC] : Normal(t)}

(* Whatever calls handlers make, the queue holds each event that was queued  *)
(* and neither dequeued nor fired once, for the time it was last queued for, *)
(* in the order of these times; a descriptor is watched exactly while it is  *)
(* attached, and is listed once.                                             *)
ScheduleKept ==
  /\ {x.ev : x \in Range(eq.Time_queue)} = DOMAIN eq.due
  /\ Len(eq.Time_queue) = Cardinality(DOMAIN eq.due)
  /\ \A i \in DOMAIN eq.Time_queue :
       /\ Value(eq.Time_queue[i].t) = eq.due[eq.Time_queue[i].ev]
       /\ \A k \in 1 .. i : eq.due[eq.Time_queue[k].ev] <= eq.due[eq.Time_queue[i].ev]
  /\ eq.Fd_mask = UNION {eq.wanted[p] : p \in Priorities}
  /\ \A p \in Priorities : /\ Range(eq.Fd_queue[p]) = eq.wanted[p]
                           /\ Len(eq.Fd_queue[p]) = Cardinality(eq.wanted[p])

(* The arithmetic of times is that of the numbers they stand for (a fact     *)
(* about operators, which is looked at in the initial state).                *)
TimesAddUp ==
  eq.pc = "outside" /\ eq.calls = 0 /\ eq.Now = 0 =>
  \A t, d \in Times : /\ Value(E_add_time(t, d)) = Value(t) + Value(d)
                      /\ Value(E_sub_time(t, d)) = Value(t) - Value(d)
                      /\ Normal(E_add_time(t, d)) /\ Normal(E_sub_time(t, d))
                      /\ (E_compare_time(t, d) > 0) = (Value(t) > Value(d))
=============================================================================

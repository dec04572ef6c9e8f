----------------------------- MODULE OpenClawProofs -----------------------------
(***************************************************************************)
(* The handlers and the queue of the OpenClaw plugin: proofs that the      *)
(* reports of security.js are true and its maps lose nothing without a     *)
(* cause, and that the events of telemetry-outbox.js are accounted for,    *)
(* whatever the calls, the ids, the replies, the caps and the number of    *)
(* failures.  The queue implements DurableSpool, under a cap as wide as    *)
(* deaths of the process can make it.                                      *)
(*                                                                         *)
(* The first part is about module OpenClawGuard, the second, Q, about      *)
(* module OpenClawOutbox.                                                  *)
(***************************************************************************)
EXTENDS OpenClawGuard, SubsequenceTheorems

CONSTANTS Events, Batch, MaxEvents, Perishable, MaxRetries, MaxTroubles, Refused, Left

VARIABLES alive, lock, enqueue, seen, spool, aged, expired, flushing, todo, delivered,
          retries, immediate, timer, up, received, troubles, derelict

Q == INSTANCE OpenClawOutbox

(* ------------------------- The handlers: types ------------------------- *)


ReportType == [call : Calls, status : {"blocked", "ran"}, trace : Calls \cup {NoCall}]

LEMMA InitTyped == ASSUME GuardAssumption, Init PROVE TypeOK
<1>1. decision \in [Calls -> Decisions \cup {"none"}] /\ phase \in [Calls -> Phases]
  BY DEF Init, Phases
<1>2. /\ actions \in [Sessions -> Seq(Calls)] /\ runs \in Seq(Sessions)
      /\ traceByCall \in Seq(Calls)
  BY DEF Init
<1> QED
  BY <1>1, <1>2 DEF Init, TypeOK

(* What is in a sequence, and what a sequence loses with its head.         *)
LEMMA RangeType ==
    ASSUME NEW T, NEW seq \in Seq(T)
    PROVE  /\ Range(seq) \subseteq T /\ Len(seq) \in Nat
           /\ \A x : x \in Range(seq) <=> \E i \in 1..Len(seq) : seq[i] = x
  BY DEF Range

LEMMA TailTakes ==
    ASSUME NEW T, NEW seq \in Seq(T), seq # <<>>
    PROVE  /\ Tail(seq) \in Seq(T) /\ Len(Tail(seq)) = Len(seq) - 1
           /\ Range(seq) = Range(Tail(seq)) \cup {Head(seq)}
<1>1. /\ Tail(seq) \in Seq(T) /\ Len(Tail(seq)) = Len(seq) - 1 /\ Len(seq) \in Nat \ {0}
      /\ Head(seq) = seq[1]
  OBVIOUS
<1>2. \A i \in 1..Len(seq) - 1 : Tail(seq)[i] = seq[i + 1]
  BY <1>1
<1>a. \A x : x \in Range(Tail(seq)) <=> \E i \in 1..Len(seq) - 1 : Tail(seq)[i] = x
  <2>1. DOMAIN Tail(seq) = 1..Len(seq) - 1
    BY <1>1
  <2> QED
    BY <2>1 DEF Range
<1>3. ASSUME NEW x \in Range(seq) PROVE x \in Range(Tail(seq)) \cup {Head(seq)}
  <2>1. PICK i \in 1..Len(seq) : seq[i] = x
    BY <1>3, RangeType
  <2>2. CASE i = 1
    BY <1>1, <2>1, <2>2
  <2>3. CASE i # 1
    <3>1. i - 1 \in 1..Len(seq) - 1 /\ Tail(seq)[i - 1] = x
      BY <1>1, <1>2, <2>1, <2>3
    <3> QED
      BY <1>a, <3>1
  <2> QED
    BY <2>2, <2>3
<1>4. ASSUME NEW x \in Range(Tail(seq)) PROVE x \in Range(seq)
  <2>1. PICK i \in 1..Len(seq) - 1 : Tail(seq)[i] = x
    BY <1>a, <1>4
  <2>2. i + 1 \in 1..Len(seq) /\ seq[i + 1] = x
    BY <1>1, <1>2, <2>1
  <2> QED
    BY <2>2, RangeType
<1>5. Head(seq) \in Range(seq)
  <2>1. 1 \in 1..Len(seq) /\ seq[1] = Head(seq)
    BY <1>1
  <2> QED
    BY <2>1, RangeType
<1> QED
  BY <1>1, <1>3, <1>4, <1>5

LEMMA AppendAdds ==
    ASSUME NEW T, NEW seq \in Seq(T), NEW x \in T
    PROVE  /\ Append(seq, x) \in Seq(T) /\ Len(Append(seq, x)) = Len(seq) + 1
           /\ Range(Append(seq, x)) = Range(seq) \cup {x}
<1>1. /\ Append(seq, x) \in Seq(T) /\ Len(Append(seq, x)) = Len(seq) + 1 /\ Len(seq) \in Nat
      /\ \A i \in 1..Len(seq) : Append(seq, x)[i] = seq[i]
      /\ Append(seq, x)[Len(seq) + 1] = x
  OBVIOUS
<1>a. \A y : y \in Range(Append(seq, x)) <=> \E i \in 1..Len(seq) + 1 : Append(seq, x)[i] = y
  <2>1. DOMAIN Append(seq, x) = 1..Len(seq) + 1
    BY <1>1
  <2> QED
    BY <2>1 DEF Range
<1>2. ASSUME NEW y \in Range(Append(seq, x)) PROVE y \in Range(seq) \cup {x}
  <2>1. PICK i \in 1..Len(seq) + 1 : Append(seq, x)[i] = y
    BY <1>a, <1>2
  <2>2. i \in 1..Len(seq) \/ i = Len(seq) + 1
    BY <1>1
  <2> QED
    BY <1>1, <2>1, <2>2, RangeType
<1>3. ASSUME NEW y \in Range(seq) PROVE y \in Range(Append(seq, x))
  <2>1. PICK i \in 1..Len(seq) : seq[i] = y
    BY <1>3, RangeType
  <2>2. i \in 1..Len(seq) + 1 /\ Append(seq, x)[i] = y
    BY <1>1, <2>1
  <2> QED
    BY <1>1, <2>2, RangeType
<1>4. x \in Range(Append(seq, x))
  <2>1. Len(seq) + 1 \in 1..Len(seq) + 1
    BY <1>1
  <2> QED
    BY <1>a, <1>1, <2>1
<1> QED
  BY <1>1, <1>2, <1>3, <1>4

(* ------------------------- What an entry becomes ----------------------- *)

LEMMA TraceIs ==
    ASSUME NEW c
    PROVE  IF Held \cap Same(c) = {} THEN Trace(c) = NoCall
           ELSE Trace(c) \in Held \cap Same(c)
  BY DEF Trace

LEMMA ForgetTakes ==
    ASSUME traceByCall \in Seq(Calls), NEW c, Forget(c)
    PROVE  /\ traceByCall' \in Seq(Calls) /\ Held' = Held \ Same(c)
           /\ Len(traceByCall') <= Len(traceByCall)
<1>1. Held \subseteq Calls
  BY RangeType DEF Held
<1> QED
  BY <1>1, KeepTaken DEF Forget, Held

(* The entry of c takes the place of that of its id, or the last one.      *)
LEMMA RememberTakes ==
    ASSUME GuardAssumption, traceByCall \in Seq(Calls), Len(traceByCall) <= MaxPending,
           NEW c \in Calls, Remember(c)
    PROVE  /\ traceByCall' \in Seq(Calls) /\ Len(traceByCall') <= MaxPending
           /\ c \in Held' /\ Held' \subseteq (Held \ {Trace(c)}) \cup {c}
           /\ \A d \in Held \ Held' :
                 \/ d = Trace(c) /\ d \in Same(c)
                 \/ Len(traceByCall) = MaxPending /\ d = Head(traceByCall)
<1> USE DEF Held
<1>0. /\ Len(traceByCall) \in Nat /\ MaxPending \in Nat \ {0}
      /\ Range(traceByCall) \subseteq Calls /\ NoCall \notin Calls
  BY RangeType DEF GuardAssumption
<1>1. CASE Range(traceByCall) \cap Same(c) # {}
  <2> DEFINE new == [i \in 1..Len(traceByCall) |->
                       IF traceByCall[i] = Trace(c) THEN c ELSE traceByCall[i]]
  <2>1. traceByCall' = new
    BY <1>1 DEF Remember, ReplaceAll
  <2>2. new \in Seq(Calls) /\ Len(new) = Len(traceByCall)
    BY <1>0
  <2>3. Trace(c) \in Range(traceByCall) \cap Same(c)
    BY <1>1, TraceIs
  <2>4. \A i \in 1..Len(traceByCall) :
          new[i] = IF traceByCall[i] = Trace(c) THEN c ELSE traceByCall[i]
    OBVIOUS
  <2> HIDE DEF new
  <2>5. PICK i \in 1..Len(traceByCall) : traceByCall[i] = Trace(c)
    BY <2>3, RangeType
  <2>6. c \in Range(new)
    BY <2>2, <2>4, <2>5, RangeType
  <2>7. ASSUME NEW d \in Range(new) PROVE d \in (Range(traceByCall) \ {Trace(c)}) \cup {c}
    <3>1. PICK j \in 1..Len(traceByCall) : new[j] = d
      BY <2>2, RangeType
    <3> QED
      BY <2>4, <3>1, RangeType
  <2>8. ASSUME NEW d \in Range(traceByCall), d # Trace(c) PROVE d \in Range(new)
    <3>1. PICK j \in 1..Len(traceByCall) : traceByCall[j] = d
      BY RangeType
    <3> QED
      BY <2>2, <2>4, <2>8, <3>1, RangeType
  <2> QED
    BY <2>1, <2>2, <2>3, <2>6, <2>7, <2>8
<1>2. CASE Range(traceByCall) \cap Same(c) = {} /\ Len(traceByCall) >= MaxPending
  <2> DEFINE rest == Tail(traceByCall)
  <2>1. traceByCall' = Append(rest, c) /\ traceByCall # <<>>
    BY <1>0, <1>2 DEF Remember
  <2>2. /\ rest \in Seq(Calls) /\ Len(rest) = Len(traceByCall) - 1
        /\ Range(traceByCall) = Range(rest) \cup {Head(traceByCall)}
    BY <2>1, TailTakes
  <2> HIDE DEF rest
  <2>3. /\ traceByCall' \in Seq(Calls) /\ Len(traceByCall') = Len(rest) + 1
        /\ Range(traceByCall') = Range(rest) \cup {c}
    BY <2>1, <2>2, AppendAdds
  <2>4. Trace(c) = NoCall
    BY <1>2, TraceIs
  <2> QED
    BY <1>0, <1>2, <2>2, <2>3, <2>4
<1>3. CASE Range(traceByCall) \cap Same(c) = {} /\ ~(Len(traceByCall) >= MaxPending)
  <2>1. traceByCall' = Append(traceByCall, c)
    BY <1>3 DEF Remember
  <2>2. /\ traceByCall' \in Seq(Calls) /\ Len(traceByCall') = Len(traceByCall) + 1
        /\ Range(traceByCall') = Range(traceByCall) \cup {c}
    BY <2>1, AppendAdds
  <2>3. Trace(c) = NoCall
    BY <1>3, TraceIs
  <2> QED
    BY <1>0, <1>3, <2>2, <2>3
<1> QED
  BY <1>1, <1>2, <1>3

(* ----------------------- The actions of a session ---------------------- *)

Caps == /\ Len(traceByCall) <= MaxPending
        /\ Len(runs) <= MaxRuns
        /\ \A s \in Sessions : /\ Len(actions[s]) <= MaxActions
                               /\ s \notin Range(runs) => actions[s] = <<>>

(* Why a session's actions may lose one when another is remembered.        *)
Crowded(s, d) == \/ s \in old
                 \/ Len(actions[s]) = MaxActions /\ d = Head(actions[s])
                 \/ Len(runs) = MaxRuns /\ s = Head(runs)

(* Sessions an hour old are dropped, and the first one when there is no    *)
(* room for another.                                                       *)
LEMMA RoomLeft ==
    ASSUME GuardAssumption, runs \in Seq(Sessions), Len(runs) <= MaxRuns,
           NEW fresh, fresh = Keep(runs, Sessions \ old),
           NEW room, room = IF Len(fresh) >= MaxRuns THEN Tail(fresh) ELSE fresh
    PROVE  /\ fresh \in Seq(Sessions) /\ room \in Seq(Sessions)
           /\ Len(fresh) <= MaxRuns /\ Len(room) < MaxRuns
           /\ Range(room) \subseteq Range(fresh) /\ Range(fresh) \subseteq Range(runs)
           /\ \A s \in Range(runs) \ Range(room) :
                 s \in old \/ (Len(runs) = MaxRuns /\ s = Head(runs))
           /\ \A s \in Range(runs) \ Range(fresh) : s \in old
<1>0. MaxRuns \in Nat \ {0} /\ Len(runs) \in Nat /\ Range(runs) \subseteq Sessions
  BY RangeType DEF GuardAssumption
<1>1. /\ fresh \in Seq(Sessions) /\ Len(fresh) <= Len(runs)
      /\ Range(fresh) = Range(runs) \cap (Sessions \ old)
      /\ Len(fresh) = Len(runs) => fresh = runs
  BY KeepTaken
<1>2. Len(fresh) \in Nat
  BY <1>1
<1>3. \A s \in Range(runs) \ Range(fresh) : s \in old
  BY <1>0, <1>1
<1>4. CASE Len(fresh) >= MaxRuns
  <2>1. Len(fresh) = MaxRuns /\ Len(runs) = MaxRuns /\ fresh = runs
    BY <1>0, <1>1, <1>2, <1>4
  <2>2. fresh # <<>> /\ room = Tail(fresh)
    BY <1>0, <1>4, <2>1
  <2>3. /\ Tail(fresh) \in Seq(Sessions) /\ Len(Tail(fresh)) = Len(fresh) - 1
        /\ Range(fresh) = Range(Tail(fresh)) \cup {Head(fresh)}
    BY <1>1, <2>2, TailTakes
  <2>4. Len(room) < MaxRuns /\ Len(fresh) <= MaxRuns
    BY <1>0, <2>1, <2>2, <2>3
  <2>5. /\ Range(room) \subseteq Range(fresh)
        /\ \A s \in Range(fresh) \ Range(room) : s = Head(fresh)
    BY <2>2, <2>3
  <2>6. \A s \in Range(runs) \ Range(room) : Len(runs) = MaxRuns /\ s = Head(runs)
    BY <2>1, <2>5
  <2> QED
    BY <1>1, <1>3, <2>2, <2>3, <2>4, <2>5, <2>6
<1>5. CASE ~(Len(fresh) >= MaxRuns)
  <2>1. room = fresh
    BY <1>5
  <2>2. Len(fresh) < MaxRuns
    BY <1>0, <1>2, <1>5
  <2>3. Len(fresh) <= MaxRuns
    BY <1>0, <1>2, <2>2
  <2>4. Range(fresh) \subseteq Range(runs)
    BY <1>1
  <2> QED
    BY <1>1, <1>3, <2>1, <2>2, <2>3, <2>4
<1> QED
  BY <1>4, <1>5

LEMMA ActionTakes ==
    ASSUME GuardAssumption, TypeOK, Caps, NEW c \in Calls, RememberAction(c)
    PROVE  /\ runs' \in Seq(Sessions) /\ Len(runs') <= MaxRuns
           /\ actions' \in [Sessions -> Seq(Calls)] /\ old' = {} /\ reviewed' = reviewed
           /\ \A s \in Sessions : /\ Len(actions'[s]) <= MaxActions
                                  /\ s \notin Range(runs') => actions'[s] = <<>>
                                  /\ \A d \in Range(actions[s]) \ Range(actions'[s]) :
                                        Crowded(s, d)
<1> DEFINE own == SessionOf[c]
           fresh == Keep(runs, Sessions \ old)
           room == IF Len(fresh) >= MaxRuns THEN Tail(fresh) ELSE fresh
           known == own \in Range(fresh)
           past == IF known THEN actions[own] ELSE <<>>
           list == Append(past, c)
           now == IF Len(list) > MaxActions THEN Tail(list) ELSE list
<1>0. /\ own \in Sessions /\ MaxRuns \in Nat \ {0} /\ MaxActions \in Nat \ {0}
      /\ runs \in Seq(Sessions) /\ actions \in [Sessions -> Seq(Calls)]
  BY DEF GuardAssumption, TypeOK, Sessions
<1>1. /\ runs' = IF known THEN fresh ELSE Append(room, own)
      /\ actions' = [r \in Sessions |-> IF r = own THEN now
                                        ELSE IF r \in Range(runs') THEN actions[r] ELSE <<>>]
      /\ old' = {} /\ reviewed' = reviewed
  BY Zenon DEF RememberAction
<1>2. /\ fresh \in Seq(Sessions) /\ room \in Seq(Sessions)
      /\ Len(fresh) <= MaxRuns /\ Len(room) < MaxRuns
      /\ Range(room) \subseteq Range(fresh) /\ Range(fresh) \subseteq Range(runs)
      /\ \A s \in Range(runs) \ Range(room) :
            s \in old \/ (Len(runs) = MaxRuns /\ s = Head(runs))
      /\ \A s \in Range(runs) \ Range(fresh) : s \in old
  BY <1>0, RoomLeft DEF Caps
<1>3. past \in Seq(Calls) /\ Len(past) <= MaxActions
  BY <1>0 DEF Caps
<1> HIDE DEF room, fresh, past
<1>4. /\ list \in Seq(Calls) /\ Len(list) = Len(past) + 1 /\ Len(past) \in Nat
      /\ Range(list) = Range(past) \cup {c} /\ list # <<>>
  BY <1>3, AppendAdds
<1>5. /\ now \in Seq(Calls) /\ Len(now) <= MaxActions
      /\ \A d \in Range(past) \ Range(now) : Len(past) = MaxActions /\ d = Head(past)
  <2>1. CASE Len(list) > MaxActions
    <3>1. Len(past) = MaxActions /\ now = Tail(list) /\ Head(list) = Head(past)
      BY <1>0, <1>3, <1>4, <2>1
    <3> HIDE DEF list
    <3>2. /\ Tail(list) \in Seq(Calls) /\ Len(Tail(list)) = Len(list) - 1
          /\ Range(list) = Range(Tail(list)) \cup {Head(list)}
      BY <1>4, TailTakes
    <3> QED
      BY <1>0, <1>4, <3>1, <3>2
  <2>2. CASE ~(Len(list) > MaxActions)
    <3> HIDE DEF list
    <3> QED
      BY <1>0, <1>4, <2>2
  <2> QED
    BY <2>1, <2>2
<1> HIDE DEF now, list, known
<1>6. /\ runs' \in Seq(Sessions) /\ Len(runs') <= MaxRuns /\ own \in Range(runs')
      /\ \A s \in Range(runs) \ Range(runs') :
            s \in old \/ (Len(runs) = MaxRuns /\ s = Head(runs))
  <2>1. CASE known
    BY <1>1, <1>2, <2>1 DEF known
  <2>2. CASE ~known
    <3>1. /\ runs' \in Seq(Sessions) /\ Len(runs') = Len(room) + 1
          /\ Range(runs') = Range(room) \cup {own}
      BY <1>0, <1>1, <1>2, <2>2, AppendAdds
    <3>2. Len(runs') <= MaxRuns
      BY <1>0, <1>2, <3>1
    <3> QED
      BY <1>2, <3>1, <3>2
  <2> QED
    BY <2>1, <2>2
<1>7. actions' \in [Sessions -> Seq(Calls)]
  BY <1>0, <1>1, <1>5
<1>8. ASSUME NEW s \in Sessions
      PROVE  /\ Len(actions'[s]) <= MaxActions
             /\ s \notin Range(runs') => actions'[s] = <<>>
             /\ \A d \in Range(actions[s]) \ Range(actions'[s]) : Crowded(s, d)
  <2>1. CASE s = own
    <3>1. actions'[s] = now
      BY <1>1, <2>1
    <3>2. ASSUME NEW d \in Range(actions[s]) \ Range(actions'[s]) PROVE Crowded(s, d)
      <4>1. CASE known
        BY <1>5, <2>1, <3>1, <3>2, <4>1 DEF past, Crowded
      <4>2. CASE ~known
        <5>1. Range(<<>>) = {}
          BY DEF Range
        <5>2. s \in Range(runs)
          BY <3>2, <5>1 DEF Caps
        <5> QED
          BY <1>2, <2>1, <4>2, <5>2 DEF known, Crowded
      <4> QED
        BY <4>1, <4>2
    <3> QED
      BY <1>5, <1>6, <2>1, <3>1, <3>2
  <2>2. CASE s # own /\ s \in Range(runs')
    BY <1>1, <2>2 DEF Caps
  <2>3. CASE s # own /\ s \notin Range(runs')
    <3>1. actions'[s] = <<>>
      BY <1>1, <2>3
    <3>2. Len(<<>>) = 0 /\ Range(<<>>) = {}
      BY DEF Range
    <3>3. ASSUME NEW d \in Range(actions[s]) PROVE Crowded(s, d)
      <4>1. s \in Range(runs)
        BY <3>2, <3>3 DEF Caps
      <4> QED
        BY <1>6, <2>3, <4>1 DEF Crowded
    <3> QED
      BY <1>0, <2>3, <3>1, <3>2, <3>3
  <2> QED
    BY <2>1, <2>2, <2>3
<1> QED
  BY <1>1, <1>6, <1>7, <1>8

(* --------------------------- The invariant ----------------------------- *)

Busy == {"evaluating", "reporting", "asked", "running"}
Open == {"new", "evaluating", "asked", "running"}
Undecided == {"new", "evaluating"}
Closed(status) == IF status = "blocked" THEN {"reporting", "blocked"}
                  ELSE {"closing", "over"}

(* One call of an id at a time, until its after_tool_call.                 *)
Solo == \A c, d \in Calls : d \in Same(c) /\ phase[c] \in Busy /\ phase[d] \in Busy => c = d

RanWhen == \A c \in Calls : c \in ran <=> phase[c] \in {"running", "closing", "over"}

(* A report is the one of its call, made when it left the open phases.     *)
Reported == \A r \in reports : /\ \A q \in reports : q.call = r.call => q = r
                               /\ phase[r.call] \in Closed(r.status)

(* The entry of an id is a call that was allowed; while one that was       *)
(* allowed waits or runs, no other call of the id has an entry.            *)
Entries ==
    /\ \A d \in Held : decision[d] = "allow" /\ phase[d] \notin Undecided
    /\ \A d, e \in Held : e \in Same(d) => d = e
    /\ \A c \in Calls : phase[c] \in {"asked", "running"} /\ decision[c] = "allow"
                        => \A d \in Held : d \in Same(c) => d = c

Traced == \A r \in reports :
    \/ r.trace \in {NoCall, r.call}
    \/ /\ r.status = "ran" /\ r.trace \in Same(r.call)
       /\ decision[r.call] # "allow" /\ decision[r.trace] = "allow"
       /\ phase[r.trace] \notin Undecided

GuardInv == TypeOK /\ Caps /\ Solo /\ RanWhen /\ Reported /\ Entries /\ Traced

(* ------------------------ What a call's step does ---------------------- *)

Way(from, to) ==
    \/ from = "new" /\ to \in {"evaluating", "asked", "reporting", "blocked"}
    \/ from = "evaluating" /\ to \in {"asked", "reporting", "blocked"}
    \/ from = "reporting" /\ to = "blocked"
    \/ from = "asked" /\ to \in {"running", "blocked"}
    \/ from = "running" /\ to \in {"closing", "over"}
    \/ from = "closing" /\ to = "over"

Told(c, p) ==
    \/ reports' = reports
    \/ /\ phase[c] \in Open
       /\ \E status \in {"blocked", "ran"}, t \in Calls \cup {NoCall} :
             /\ p \in Closed(status)
             /\ reports' = reports \cup {[call |-> c, status |-> status, trace |-> t]}
             /\ \/ t \in {NoCall, c}
                \/ status = "ran" /\ phase[c] = "running" /\ t = Trace(c)

Decided(c) ==
    \/ decision' = decision
    \/ /\ phase[c] \in Undecided
       /\ \E d \in Decisions \cup {"none"} : decision' = [decision EXCEPT ![c] = d]

(* What a handler does to the phases, the decisions, the reports and the   *)
(* entries, whichever it is.                                               *)
Turn(c, p) ==
    /\ phase' = [phase EXCEPT ![c] = p] /\ Way(phase[c], p)
    /\ phase[c] = "new" => \A d \in Same(c) : phase[d] \notin Busy
    /\ ran' = IF p = "running" THEN ran \cup {c} ELSE ran
    /\ Decided(c) /\ Told(c, p)
    /\ \/ Held' \subseteq Held /\ ~ (p = "asked" /\ decision'[c] = "allow")
       \/ Remember(c) /\ phase[c] = "evaluating" /\ decision'[c] = "allow"

LEMMA TurnTyped ==
    ASSUME TypeOK, NEW c \in Calls, NEW p, Turn(c, p)
    PROVE  /\ p \in Phases /\ phase' \in [Calls -> Phases]
           /\ decision' \in [Calls -> Decisions \cup {"none"}]
           /\ reports' \subseteq ReportType /\ ran' \subseteq Calls
<1>1. p \in Phases
  BY DEF Turn, Way, Phases
<1>2. phase' \in [Calls -> Phases]
  BY <1>1 DEF Turn, TypeOK
<1>3. decision' \in [Calls -> Decisions \cup {"none"}]
  BY DEF Turn, Decided, TypeOK
<1>4. reports' \subseteq ReportType
  BY DEF Turn, Told, TypeOK, ReportType
<1> QED
  BY <1>1, <1>2, <1>3, <1>4 DEF Turn, TypeOK

LEMMA SoloTurn ==
    ASSUME TypeOK, Solo, NEW c \in Calls, NEW p, Turn(c, p) PROVE Solo'
<1>1. \A d \in Calls : phase'[d] = IF d = c THEN p ELSE phase[d]
  BY DEF Turn, TypeOK
<1>2. p \in Busy => phase[c] \in Busy \/ \A d \in Same(c) : phase[d] \notin Busy
  BY DEF Turn, Way, Busy
<1> QED
  BY <1>1, <1>2 DEF Solo, Same

LEMMA RanTurn ==
    ASSUME TypeOK, RanWhen, NEW c \in Calls, NEW p, Turn(c, p) PROVE RanWhen'
<1>1. \A d \in Calls : phase'[d] = IF d = c THEN p ELSE phase[d]
  BY DEF Turn, TypeOK
<1>2. c \in ran' <=> p \in {"running", "closing", "over"}
  BY DEF Turn, Way, RanWhen
<1>3. \A d \in Calls \ {c} : d \in ran' <=> d \in ran
  BY DEF Turn
<1> QED
  BY <1>1, <1>2, <1>3 DEF RanWhen

LEMMA ReportedTurn ==
    ASSUME TypeOK, Reported, NEW c \in Calls, NEW p, Turn(c, p) PROVE Reported'
<1>1. \A d \in Calls : phase'[d] = IF d = c THEN p ELSE phase[d]
  BY DEF Turn, TypeOK
<1>2. ASSUME phase[c] \in Open, NEW r \in reports PROVE r.call # c
  BY <1>2 DEF Reported, Open, Closed
<1>3. \A r \in reports : r.call \in Calls /\ r.status \in {"blocked", "ran"}
  BY DEF TypeOK
<1>4. ASSUME NEW r \in reports PROVE phase'[r.call] \in Closed(r.status)
  <2>1. CASE r.call = c
    <3>1. phase[c] \notin Open /\ phase[c] \in Closed(r.status)
      BY <1>2, <2>1 DEF Reported
    <3>2. p \in Closed(r.status)
      BY <3>1 DEF Turn, Way, Open, Closed
    <3> QED
      BY <1>1, <2>1, <3>2
  <2>2. CASE r.call # c
    BY <1>1, <1>3, <2>2 DEF Reported
  <2> QED
    BY <2>1, <2>2
<1>5. CASE reports' = reports
  BY <1>4, <1>5 DEF Reported
<1>6. CASE reports' # reports
  <2>1. PICK status, t :
             /\ phase[c] \in Open /\ p \in Closed(status)
             /\ reports' = reports \cup {[call |-> c, status |-> status, trace |-> t]}
    BY <1>6 DEF Turn, Told
  <2> QED
    BY <1>1, <1>2, <1>4, <2>1 DEF Reported
<1> QED
  BY <1>5, <1>6

LEMMA EntriesTurn ==
    ASSUME GuardAssumption, TypeOK, Caps, Solo, Entries, NEW c \in Calls, NEW p, Turn(c, p)
    PROVE  Entries'
<1>0. Held \subseteq Calls /\ Held' \subseteq Held \cup {c}
  <2>1. Held \subseteq Calls /\ traceByCall \in Seq(Calls) /\ Len(traceByCall) <= MaxPending
    BY RangeType DEF TypeOK, Caps, Held
  <2> QED
    BY <2>1, RememberTakes DEF Turn
<1>1. /\ \A d \in Calls : phase'[d] = IF d = c THEN p ELSE phase[d]
      /\ \A d \in Calls \ {c} : decision'[d] = decision[d]
      /\ phase[c] \notin Undecided => decision'[c] = decision[c]
  BY DEF Turn, Decided, TypeOK
<1>2. p \in Undecided => phase[c] \in Undecided
  BY DEF Turn, Way, Undecided
<1>3. \A d, e : e \in Same(d)' <=> e \in Same(d)
  BY DEF Same
<1>4. CASE Held' \subseteq Held /\ ~ (p = "asked" /\ decision'[c] = "allow")
  <2>1. \A d \in Held : phase[d] \notin Undecided /\ decision[d] = "allow"
    BY DEF Entries
  <2>2. \A d \in Held' : decision'[d] = "allow" /\ phase'[d] \notin Undecided
    BY <1>0, <1>1, <1>2, <1>4, <2>1
  <2>3. ASSUME NEW d \in Calls, phase'[d] \in {"asked", "running"}, decision'[d] = "allow"
        PROVE  phase[d] \in {"asked", "running"} /\ decision[d] = "allow"
    <3>1. CASE d = c
      <4>1. p = "running" /\ phase[c] = "asked"
        BY <1>1, <1>4, <2>3, <3>1 DEF Turn, Way
      <4> QED
        BY <1>1, <2>3, <3>1, <4>1 DEF Undecided
    <3>2. CASE d # c
      BY <1>1, <2>3, <3>2
    <3> QED
      BY <3>1, <3>2
  <2> QED
    BY <1>3, <1>4, <2>2, <2>3 DEF Entries
<1>5. CASE Remember(c) /\ phase[c] = "evaluating" /\ decision'[c] = "allow"
  <2>1. c \in Held' /\ Held' \subseteq (Held \ {Trace(c)}) \cup {c}
    BY <1>5, RememberTakes DEF TypeOK, Caps
  <2>2. p \notin Undecided
    BY <1>5 DEF Turn, Way, Undecided
  <2>3. \A d \in Held' : decision'[d] = "allow" /\ phase'[d] \notin Undecided
    BY <1>0, <1>1, <1>5, <2>1, <2>2 DEF Entries
  <2>4. \A d \in Held' : d \in Same(c) => d = c
    <3>1. ASSUME NEW d \in Held, d \in Same(c) PROVE d = Trace(c)
      <4>1. Trace(c) \in Held \cap Same(c)
        BY <3>1, TraceIs
      <4>2. Trace(c) \in Same(d)
        BY <3>1, <4>1 DEF Same
      <4> QED
        BY <4>1, <4>2, <3>1 DEF Entries
    <3> QED
      BY <2>1, <3>1
  <2>5. ASSUME NEW d \in Held', NEW e \in Held', e \in Same(d) PROVE d = e
    <3>1. CASE d = c \/ e = c
      <4>1. d \in Same(c) /\ e \in Same(c)
        BY <1>0, <2>5, <3>1 DEF Same
      <4> QED
        BY <2>4, <2>5, <4>1
    <3>2. CASE d # c /\ e # c
      BY <2>1, <2>5, <3>2 DEF Entries
    <3> QED
      BY <3>1, <3>2
  <2>6. ASSUME NEW d \in Calls, phase'[d] \in {"asked", "running"}, decision'[d] = "allow",
               NEW e \in Held', e \in Same(d)
        PROVE  e = d
    <3>1. CASE d = c
      BY <2>4, <2>6, <3>1
    <3>2. CASE d # c
      <4>1. phase[d] \in {"asked", "running"} /\ decision[d] = "allow"
        BY <1>1, <2>6, <3>2
      <4>2. e # c
        <5>1. ASSUME e = c PROVE FALSE
          <6>1. d \in Same(c)
            BY <2>6, <5>1 DEF Same
          <6> QED
            BY <1>5, <3>2, <4>1, <6>1 DEF Solo, Busy
        <5> QED
          BY <5>1
      <4>3. e \in Held
        BY <2>1, <4>2
      <4> QED
        BY <2>6, <4>1, <4>3 DEF Entries
    <3> QED
      BY <3>1, <3>2
  <2> QED
    BY <1>3, <2>3, <2>5, <2>6 DEF Entries
<1> QED
  BY <1>4, <1>5 DEF Turn

LEMMA TracedTurn ==
    ASSUME GuardAssumption, TypeOK, Reported, Entries, Traced,
           NEW c \in Calls, NEW p, Turn(c, p)
    PROVE  Traced'
<1>1. /\ \A d \in Calls : phase'[d] = IF d = c THEN p ELSE phase[d]
      /\ \A d \in Calls \ {c} : decision'[d] = decision[d]
      /\ phase[c] \notin Undecided => decision'[c] = decision[c]
  BY DEF Turn, Decided, TypeOK
<1>2. p \in Undecided => phase[c] \in Undecided
  BY DEF Turn, Way, Undecided
<1>3. \A r \in reports : /\ r.call \in Calls /\ r.trace \in Calls \cup {NoCall}
                         /\ r.status \in {"blocked", "ran"}
  BY DEF TypeOK
<1>4. ASSUME NEW d \in Calls, phase[d] \notin Undecided
      PROVE  decision'[d] = decision[d] /\ phase'[d] \notin Undecided
  BY <1>1, <1>2, <1>4
<1>5. ASSUME NEW r \in reports
      PROVE  \/ r.trace \in {NoCall, r.call}
             \/ /\ r.status = "ran" /\ r.trace \in Same(r.call)
                /\ decision'[r.call] # "allow" /\ decision'[r.trace] = "allow"
                /\ phase'[r.trace] \notin Undecided
  <2>1. phase[r.call] \notin Undecided
    BY <1>3 DEF Reported, Closed, Undecided
  <2>2. r.trace \in Same(r.call) => r.trace \in Calls
    BY DEF Same
  <2> QED
    BY <1>3, <1>4, <2>1, <2>2 DEF Traced
<1>6. ASSUME phase[c] = "running", Trace(c) \notin {NoCall, c}
      PROVE  /\ Trace(c) \in Same(c) /\ decision'[c] # "allow"
             /\ decision'[Trace(c)] = "allow" /\ phase'[Trace(c)] \notin Undecided
  <2>1. Trace(c) \in Held /\ Trace(c) \in Same(c) /\ Trace(c) \in Calls
    BY <1>6, TraceIs DEF Same
  <2>2. decision[Trace(c)] = "allow" /\ phase[Trace(c)] \notin Undecided
    BY <2>1 DEF Entries
  <2>3. decision[c] # "allow"
    BY <1>6, <2>1 DEF Entries
  <2>4. phase[c] \notin Undecided
    BY <1>6 DEF Undecided
  <2> QED
    BY <1>4, <2>1, <2>2, <2>3, <2>4
<1>7. \A d, e : e \in Same(d)' <=> e \in Same(d)
  BY DEF Same
<1>8. CASE reports' = reports
  BY <1>5, <1>7, <1>8 DEF Traced
<1>9. CASE reports' # reports
  <2>1. PICK status \in {"blocked", "ran"}, t \in Calls \cup {NoCall} :
             /\ reports' = reports \cup {[call |-> c, status |-> status, trace |-> t]}
             /\ \/ t \in {NoCall, c}
                \/ status = "ran" /\ phase[c] = "running" /\ t = Trace(c)
    BY <1>9 DEF Turn, Told
  <2> DEFINE new == [call |-> c, status |-> status, trace |-> t]
  <2>2. \/ new.trace \in {NoCall, new.call}
        \/ /\ new.status = "ran" /\ new.trace \in Same(new.call)
           /\ decision'[new.call] # "allow" /\ decision'[new.trace] = "allow"
           /\ phase'[new.trace] \notin Undecided
    BY <1>6, <2>1
  <2>3. reports' = reports \cup {new}
    BY <2>1
  <2> HIDE DEF new
  <2> QED
    BY <1>5, <1>7, <2>2, <2>3 DEF Traced
<1> QED
  BY <1>8, <1>9

(* ---------------------------- The handlers ----------------------------- *)

LEMMA RefuseTells ==
    ASSUME NEW c \in Calls, phase[c] \in Open, NEW t \in {NoCall, c}, Refuse(c, t)
    PROVE  \E p \in {"reporting", "blocked"} :
               phase' = [phase EXCEPT ![c] = p] /\ Told(c, p)
<1> DEFINE p == IF durable THEN "reporting" ELSE "blocked"
<1>1. /\ phase' = [phase EXCEPT ![c] = p]
      /\ reports' = IF remote
                    THEN reports \cup {[call |-> c, status |-> "blocked", trace |-> t]}
                    ELSE reports
  BY DEF Refuse, Report, Goto
<1>2. p \in {"reporting", "blocked"} /\ p \in Closed("blocked")
  BY DEF Closed
<1> HIDE DEF p
<1>3. t \in Calls \cup {NoCall} /\ "blocked" \in {"blocked", "ran"}
  OBVIOUS
<1>4. Told(c, p)
  <2>1. CASE remote
    <3>1. reports' = reports \cup {[call |-> c, status |-> "blocked", trace |-> t]}
      BY <1>1, <2>1
    <3> QED
      BY <1>2, <1>3, <3>1, Zenon DEF Told
  <2>2. CASE ~remote
    BY <1>1, <2>2 DEF Told
  <2> QED
    BY <2>1, <2>2
<1> QED
  BY <1>1, <1>2, <1>4

LEMMA FlaggedTells ==
    ASSUME NEW c \in Calls, phase[c] \in Open, NEW t \in {NoCall, c}, Flagged(c, t)
    PROVE  \E p \in {"asked", "reporting", "blocked"} :
               phase' = [phase EXCEPT ![c] = p] /\ Told(c, p)
<1>1. CASE approvals
  BY <1>1 DEF Flagged, Goto, Told
<1>2. CASE ~approvals
  BY <1>2, RefuseTells DEF Flagged
<1> QED
  BY <1>1, <1>2

LEMMA HeldKept == ASSUME UNCHANGED traceByCall PROVE Held' = Held
  BY DEF Held

LEMMA LocalTurn ==
    ASSUME TypeOK, NEW c \in Calls, Local(c) PROVE \E p : Turn(c, p)
<1>1. /\ phase[c] = "new" /\ phase[c] \in Open /\ phase[c] \in Undecided
      /\ \A d \in Same(c) : phase[d] \notin Busy
  BY DEF Local, Begin, At, Open, Undecided, Busy
<1>2. ran' = ran /\ Held' = Held
  BY HeldKept DEF Local, traceVars
<1>3. \E d \in {"local", "none"} : decision' = [decision EXCEPT ![c] = d]
  BY DEF Local, Says
<1>4. decision'[c] # "allow" /\ Decided(c)
  BY <1>1, <1>3 DEF TypeOK, Decided, Decisions
<1>5. PICK p \in {"asked", "reporting", "blocked"} :
           phase' = [phase EXCEPT ![c] = p] /\ Told(c, p)
  BY <1>1, RefuseTells, FlaggedTells DEF Local
<1> QED
  BY <1>1, <1>2, <1>4, <1>5 DEF Turn, Way

LEMMA AskTurn ==
    ASSUME TypeOK, NEW c \in Calls, Ask(c) PROVE \E p : Turn(c, p)
<1>1. /\ phase[c] = "new" /\ \A d \in Same(c) : phase[d] \notin Busy
      /\ phase' = [phase EXCEPT ![c] = "evaluating"]
  BY DEF Ask, Begin, At, Goto, Busy
<1>2. ran' = ran /\ decision' = decision /\ reports' = reports /\ Held' = Held
  BY HeldKept DEF Ask, traceVars
<1>3. Turn(c, "evaluating")
  BY <1>1, <1>2 DEF Turn, Way, Decided, Told
<1> QED
  BY <1>3

LEMMA DecideTurn ==
    ASSUME GuardAssumption, TypeOK, NEW c \in Calls, Decide(c) PROVE \E p : Turn(c, p)
<1>1. /\ phase[c] = "evaluating" /\ phase[c] \in Open /\ phase[c] \in Undecided
      /\ ran' = ran
  BY DEF Decide, At, Open, Undecided
<1>2. CASE Allowed(c)
  <2>1. Remember(c) /\ decision' = [decision EXCEPT ![c] = "allow"]
    BY <1>2 DEF Allowed, Says
  <2>2. Decided(c) /\ decision'[c] = "allow"
    BY <1>1, <2>1 DEF Decided, Decisions, TypeOK
  <2>3. PICK p \in {"asked", "reporting", "blocked"} :
             phase' = [phase EXCEPT ![c] = p] /\ Told(c, p)
    BY <1>1, <1>2, FlaggedTells DEF Allowed
  <2> QED
    BY <1>1, <2>1, <2>2, <2>3 DEF Turn, Way
<1>3. CASE Judged(c)
  <2>1. Held' = Held
    BY <1>3, HeldKept DEF Judged, traceVars
  <2>2. \E d \in {"flag", "block", "limit", "error"} : decision' = [decision EXCEPT ![c] = d]
    BY <1>3 DEF Judged, Says
  <2>3. Decided(c) /\ decision'[c] # "allow"
    BY <1>1, <2>2 DEF Decided, Decisions, TypeOK
  <2>4. CASE Goto(c, "blocked") /\ UNCHANGED reports
    BY <1>1, <2>1, <2>3, <2>4 DEF Turn, Way, Told, Goto
  <2>5. CASE ~ (Goto(c, "blocked") /\ UNCHANGED reports)
    <3>1. PICK p \in {"asked", "reporting", "blocked"} :
               phase' = [phase EXCEPT ![c] = p] /\ Told(c, p)
      BY <1>1, <1>3, <2>5, RefuseTells, FlaggedTells DEF Judged
    <3> QED
      BY <1>1, <2>1, <2>3, <3>1 DEF Turn, Way
  <2> QED
    BY <2>4, <2>5
<1> QED
  BY <1>2, <1>3 DEF Decide

LEMMA SavedTurn ==
    ASSUME TypeOK, NEW c \in Calls, Saved(c) PROVE \E p : Turn(c, p)
<1>1. phase[c] = "reporting" /\ phase' = [phase EXCEPT ![c] = "blocked"]
  BY DEF Saved, At, Goto
<1>2. ran' = ran /\ decision' = decision /\ reports' = reports /\ Held' = Held
  BY HeldKept DEF Saved, traceVars
<1>3. Turn(c, "blocked")
  BY <1>1, <1>2 DEF Turn, Way, Decided, Told
<1> QED
  BY <1>3

LEMMA AllowOnceTurn ==
    ASSUME TypeOK, NEW c \in Calls, AllowOnce(c) PROVE \E p : Turn(c, p)
<1>1. phase[c] = "asked" /\ phase' = [phase EXCEPT ![c] = "running"]
  BY DEF AllowOnce, At, Goto
<1>2. ran' = ran \cup {c} /\ decision' = decision /\ reports' = reports /\ Held' = Held
  BY HeldKept DEF AllowOnce, traceVars
<1>3. Turn(c, "running")
  BY <1>1, <1>2 DEF Turn, Way, Decided, Told
<1> QED
  BY <1>3

LEMMA DeclineTurn ==
    ASSUME TypeOK, NEW c \in Calls, Decline(c) PROVE \E p : Turn(c, p)
<1> DEFINE t == IF decision[c] \in {"allow", "flag"} THEN c ELSE NoCall
<1>1. phase[c] = "asked" /\ phase' = [phase EXCEPT ![c] = "blocked"] /\ phase[c] \in Open
  BY DEF Decline, At, Goto, Open
<1>2. ran' = ran /\ decision' = decision /\ Held' = Held /\ Report(c, "blocked", t)
  BY HeldKept DEF Decline, traceVars
<1>3. t \in {NoCall, c} /\ t \in Calls \cup {NoCall}
  OBVIOUS
<1> HIDE DEF t
<1>4. Told(c, "blocked")
  BY <1>1, <1>2, <1>3 DEF Report, Told, Closed
<1>5. Turn(c, "blocked")
  BY <1>1, <1>2, <1>4 DEF Turn, Way, Decided
<1> QED
  BY <1>5

LEMMA AfterTurn ==
    ASSUME TypeOK, NEW c \in Calls, After(c) PROVE \E p : Turn(c, p)
<1>1. phase[c] = "running" /\ phase[c] \in Open
  BY DEF After, At, Open
<1>2. /\ ran' = ran /\ decision' = decision
      /\ reports' = IF remote
                    THEN reports \cup {[call |-> c, status |-> "ran", trace |-> Trace(c)]}
                    ELSE reports
  BY DEF After, Report
<1>3. Trace(c) \in Calls \cup {NoCall}
  BY TraceIs DEF Same
<1>4. PICK p \in {"closing", "over"} : phase' = [phase EXCEPT ![c] = p] /\ Held' \subseteq Held
  <2>1. CASE durable
    BY <2>1, HeldKept DEF After, Goto
  <2>2. CASE ~durable
    BY <2>2, ForgetTakes DEF After, Finish, Goto, TypeOK
  <2> QED
    BY <2>1, <2>2
<1>5. Told(c, p)
  <2>1. p \in Closed("ran")
    BY <1>4 DEF Closed
  <2>2. CASE remote
    <3>1. reports' = reports \cup {[call |-> c, status |-> "ran", trace |-> Trace(c)]}
      BY <1>2, <2>2
    <3> QED
      BY <1>1, <1>3, <2>1, <3>1 DEF Told
  <2>3. CASE ~remote
    BY <1>2, <2>3 DEF Told
  <2> QED
    BY <2>2, <2>3
<1> QED
  BY <1>1, <1>2, <1>4, <1>5 DEF Turn, Way, Decided

LEMMA CloseTurn ==
    ASSUME TypeOK, NEW c \in Calls, Close(c) PROVE \E p : Turn(c, p)
<1>1. phase[c] = "closing" /\ phase' = [phase EXCEPT ![c] = "over"]
  BY DEF Close, At, Finish, Goto
<1>2. ran' = ran /\ decision' = decision /\ reports' = reports /\ Held' \subseteq Held
  BY ForgetTakes DEF Close, Finish, TypeOK
<1>3. Turn(c, "over")
  BY <1>1, <1>2 DEF Turn, Way, Decided, Told
<1> QED
  BY <1>3

LEMMA OmitTurn ==
    ASSUME TypeOK, NEW c \in Calls, Omit(c) PROVE \E p : Turn(c, p)
<1>1. phase[c] = "running" /\ phase' = [phase EXCEPT ![c] = "over"]
  BY DEF Omit, At, Goto
<1>2. ran' = ran /\ decision' = decision /\ reports' = reports /\ Held' = Held
  BY HeldKept DEF Omit, traceVars
<1>3. Turn(c, "over")
  BY <1>1, <1>2 DEF Turn, Way, Decided, Told
<1> QED
  BY <1>3

CallTurn(c) == \/ Local(c) \/ Ask(c) \/ Decide(c) \/ Saved(c) \/ AllowOnce(c) \/ Decline(c)
               \/ After(c) \/ Close(c) \/ Omit(c)

LEMMA EachTurn ==
    ASSUME GuardAssumption, TypeOK, NEW c \in Calls, CallTurn(c) PROVE \E p : Turn(c, p)
  BY LocalTurn, AskTurn, DecideTurn, SavedTurn, AllowOnceTurn, DeclineTurn, AfterTurn,
     CloseTurn, OmitTurn DEF CallTurn

(* The other steps leave the calls alone.                                  *)
LEMMA OtherTurn ==
    ASSUME TypeOK,
           \/ UNCHANGED guardVars
           \/ \E c \in Calls : Timer(c)
           \/ \E s \in Sessions : AgentEnd(s) \/ Age(s)
    PROVE  UNCHANGED <<phase, decision, reports, ran>> /\ Held' \subseteq Held
<1>1. CASE UNCHANGED guardVars
  BY <1>1, HeldKept DEF guardVars, traceVars
<1>2. CASE \E c \in Calls : Timer(c)
  BY <1>2, KeepTaken DEF Timer, TypeOK, Held
<1>3. CASE \E s \in Sessions : AgentEnd(s) \/ Age(s)
  BY <1>3, HeldKept DEF AgentEnd, Age, traceVars
<1> QED
  BY <1>1, <1>2, <1>3

LEMMA ConfigKept ==
    ASSUME TypeOK, [Next]_guardVars
    PROVE  <<remote', durable', approvals'>> \in BOOLEAN \X BOOLEAN \X BOOLEAN
<1>1. config' = config
  BY DEF Next, guardVars, Local, Ask, Decide, Saved, AllowOnce, Decline, After, Close, Omit,
         Timer, AgentEnd, Age
<1> QED
  BY <1>1 DEF TypeOK, config

(* ------------------------------ The maps ------------------------------- *)

TraceCause(c) ==
    \/ c \in timers \ timers'
    \/ \E d \in Same(c) : phase[d] \in {"evaluating", "running", "closing"}
                          /\ phase'[d] # phase[d]
    \/ /\ Len(traceByCall) = MaxPending /\ c = Head(traceByCall)
       /\ \E d \in Calls : At(d, "evaluating") /\ phase'[d] # phase[d]

ActionCause(s, c) ==
    \/ c \in reviewed' \/ s \in old
    \/ /\ \/ Len(actions[s]) = MaxActions /\ c = Head(actions[s])
          \/ Len(runs) = MaxRuns /\ s = Head(runs)
       /\ \E d \in Calls : phase[d] # "over" /\ phase'[d] = "over"

LEMMA EndsOnce ==
    ASSUME TypeOK, NEW c \in Calls, NEW from \in {"running", "closing"},
           phase[c] = from, Finish(c)
    PROVE  /\ phase'[c] = "over" /\ phase'[c] # phase[c]
           /\ Forget(c) /\ RememberAction(c)
  BY DEF Finish, Goto, TypeOK

LEMMA TracesStep ==
    ASSUME GuardAssumption, TypeOK, Caps, [Next]_guardVars
    PROVE  /\ traceByCall' \in Seq(Calls) /\ timers' \subseteq Calls
           /\ Len(traceByCall') <= MaxPending
           /\ \A c \in Held \ Held' : TraceCause(c)
<1>0. /\ traceByCall \in Seq(Calls) /\ timers \subseteq Calls /\ Held \subseteq Calls
      /\ Len(traceByCall) <= MaxPending
      /\ \A c, d \in Calls : c \in Same(d) <=> d \in Same(c)
      /\ Len(traceByCall) \in Nat /\ MaxPending \in Nat
  BY RangeType DEF TypeOK, Caps, Held, Same, GuardAssumption
<1>1. CASE UNCHANGED traceVars
  BY <1>0, <1>1 DEF traceVars, Held
<1>2. CASE \E c \in Calls : Decide(c) /\ Allowed(c)
  <2>1. PICK c \in Calls : Decide(c) /\ Allowed(c)
    BY <1>2
  <2>2. Remember(c) /\ At(c, "evaluating") /\ timers' = timers \cup {c}
    BY <2>1 DEF Allowed, Decide, Remember
  <2>3. PICK p : Turn(c, p)
    BY <2>1, DecideTurn
  <2>4. phase'[c] # phase[c]
    BY <2>2, <2>3 DEF Turn, Way, At, TypeOK
  <2>5. /\ traceByCall' \in Seq(Calls) /\ Len(traceByCall') <= MaxPending
        /\ \A d \in Held \ Held' :
              \/ d = Trace(c) /\ d \in Same(c)
              \/ Len(traceByCall) = MaxPending /\ d = Head(traceByCall)
    BY <1>0, <2>2, RememberTakes
  <2>6. ASSUME NEW d \in Held \ Held' PROVE TraceCause(d)
    <3>1. CASE d \in Same(c)
      <4>1. c \in Same(d) /\ phase[c] \in {"evaluating", "running", "closing"}
        BY <1>0, <2>2, <2>6, <3>1 DEF At
      <4> QED
        BY <2>4, <4>1 DEF TraceCause
    <3>2. CASE d \notin Same(c)
      BY <2>2, <2>4, <2>5, <2>6, <3>2 DEF TraceCause
    <3> QED
      BY <3>1, <3>2
  <2> QED
    BY <1>0, <2>2, <2>5, <2>6
<1>3. CASE \E c \in Calls : (After(c) \/ Close(c)) /\ Finish(c)
  <2>1. PICK c \in Calls : (After(c) \/ Close(c)) /\ Finish(c)
    BY <1>3
  <2>2. phase[c] \in {"running", "closing"} /\ timers' = timers
    BY <2>1 DEF After, Close, At
  <2>3. phase'[c] # phase[c] /\ Forget(c)
    BY <2>1, <2>2, EndsOnce
  <2>4. /\ traceByCall' \in Seq(Calls) /\ Held' = Held \ Same(c)
        /\ Len(traceByCall') <= Len(traceByCall)
    BY <1>0, <2>3, ForgetTakes
  <2>5. Len(traceByCall') <= MaxPending
    BY <1>0, <2>4
  <2>6. ASSUME NEW d \in Held \ Held' PROVE TraceCause(d)
    <3>1. c \in Same(d)
      BY <1>0, <2>4, <2>6
    <3> QED
      BY <2>2, <2>3, <3>1 DEF TraceCause
  <2> QED
    BY <1>0, <2>2, <2>4, <2>5, <2>6
<1>4. CASE \E c \in Calls : Timer(c)
  <2>1. PICK c \in Calls : Timer(c)
    BY <1>4
  <2>2. /\ c \in timers /\ timers' = timers \ {c}
        /\ traceByCall' = Keep(traceByCall, Calls \ {c})
    BY <2>1 DEF Timer
  <2>3. /\ traceByCall' \in Seq(Calls) /\ Len(traceByCall') <= Len(traceByCall)
        /\ Range(traceByCall') = Range(traceByCall) \cap (Calls \ {c})
    BY <1>0, <2>2, KeepTaken
  <2>4. Len(traceByCall') <= MaxPending
    BY <1>0, <2>3
  <2>5. ASSUME NEW d \in Held \ Held' PROVE TraceCause(d)
    <3>1. d = c
      BY <1>0, <2>3, <2>5 DEF Held
    <3> QED
      BY <2>2, <3>1 DEF TraceCause
  <2> QED
    BY <1>0, <2>2, <2>3, <2>4, <2>5
<1>5. \/ UNCHANGED traceVars
      \/ \E c \in Calls : Decide(c) /\ Allowed(c)
      \/ \E c \in Calls : (After(c) \/ Close(c)) /\ Finish(c)
      \/ \E c \in Calls : Timer(c)
  <2>1. CASE UNCHANGED guardVars
    BY <2>1 DEF guardVars
  <2>2. ASSUME NEW c \in Calls, After(c) \/ Close(c)
        PROVE  Finish(c) \/ UNCHANGED traceVars
    BY <2>2 DEF After, Close, traceVars
  <2>3. ASSUME NEW c \in Calls, Decide(c) PROVE Allowed(c) \/ UNCHANGED traceVars
    BY <2>3 DEF Decide, Judged
  <2>4. ASSUME NEW c \in Calls,
               Local(c) \/ Ask(c) \/ Saved(c) \/ AllowOnce(c) \/ Decline(c) \/ Omit(c)
        PROVE  UNCHANGED traceVars
    BY <2>4 DEF Local, Ask, Saved, AllowOnce, Decline, Omit
  <2>5. ASSUME NEW s \in Sessions, AgentEnd(s) \/ Age(s) PROVE UNCHANGED traceVars
    BY <2>5 DEF AgentEnd, Age
  <2> QED
    BY <2>1, <2>2, <2>3, <2>4, <2>5 DEF Next
<1> QED
  BY <1>1, <1>2, <1>3, <1>4, <1>5

LEMMA RunsStep ==
    ASSUME GuardAssumption, TypeOK, Caps, [Next]_guardVars
    PROVE  /\ runs' \in Seq(Sessions) /\ Len(runs') <= MaxRuns
           /\ actions' \in [Sessions -> Seq(Calls)]
           /\ old' \subseteq Sessions /\ reviewed' \subseteq Calls
           /\ \A s \in Sessions : /\ Len(actions'[s]) <= MaxActions
                                  /\ s \notin Range(runs') => actions'[s] = <<>>
                                  /\ \A c \in Range(actions[s]) \ Range(actions'[s]) :
                                        ActionCause(s, c)
<1>0. /\ runs \in Seq(Sessions) /\ actions \in [Sessions -> Seq(Calls)]
      /\ old \subseteq Sessions /\ reviewed \subseteq Calls
      /\ Len(runs) \in Nat /\ MaxRuns \in Nat /\ MaxActions \in Nat
      /\ Range(runs) \subseteq Sessions
  BY RangeType DEF TypeOK, GuardAssumption
<1>1. CASE UNCHANGED runVars
  BY <1>0, <1>1 DEF runVars, Caps
<1>2. CASE \E c \in Calls : (After(c) \/ Close(c)) /\ Finish(c)
  <2>1. PICK c \in Calls : (After(c) \/ Close(c)) /\ Finish(c)
    BY <1>2
  <2>2. phase[c] \in {"running", "closing"} /\ phase[c] # "over"
    BY <2>1 DEF After, Close, At
  <2>3. phase'[c] = "over" /\ RememberAction(c)
    BY <2>1, <2>2, EndsOnce
  <2>4. /\ runs' \in Seq(Sessions) /\ Len(runs') <= MaxRuns
        /\ actions' \in [Sessions -> Seq(Calls)] /\ old' = {} /\ reviewed' = reviewed
        /\ \A s \in Sessions : /\ Len(actions'[s]) <= MaxActions
                               /\ s \notin Range(runs') => actions'[s] = <<>>
                               /\ \A d \in Range(actions[s]) \ Range(actions'[s]) :
                                     Crowded(s, d)
    BY <2>3, ActionTakes
  <2>5. \A s, d : Crowded(s, d) => ActionCause(s, d)
    BY <2>2, <2>3 DEF Crowded, ActionCause
  <2> QED
    BY <1>0, <2>4, <2>5
<1>3. CASE \E s \in Sessions : AgentEnd(s)
  <2>1. PICK s \in Sessions : AgentEnd(s)
    BY <1>3
  <2>2. /\ runs' = Keep(runs, Sessions \ {s}) /\ actions' = [actions EXCEPT ![s] = <<>>]
        /\ old' = old \ {s} /\ reviewed' = reviewed \cup Range(actions[s])
    BY <2>1 DEF AgentEnd
  <2>3. /\ runs' \in Seq(Sessions) /\ Len(runs') <= Len(runs)
        /\ Range(runs') = Range(runs) \cap (Sessions \ {s})
    BY <1>0, <2>2, KeepTaken
  <2>4. Len(runs') <= MaxRuns
    BY <1>0, <2>3 DEF Caps
  <2>5. actions' \in [Sessions -> Seq(Calls)] /\ actions'[s] = <<>>
        /\ \A r \in Sessions \ {s} : actions'[r] = actions[r]
    BY <1>0, <2>2
  <2>6. Range(actions[s]) \subseteq Calls
    BY <1>0, RangeType
  <2>7. ASSUME NEW r \in Sessions
        PROVE  /\ Len(actions'[r]) <= MaxActions
               /\ r \notin Range(runs') => actions'[r] = <<>>
               /\ \A c \in Range(actions[r]) \ Range(actions'[r]) : ActionCause(r, c)
    <3>1. CASE r = s
      <4>1. Len(actions'[r]) = 0
        BY <2>5, <3>1
      <4> QED
        BY <1>0, <2>2, <2>5, <3>1, <4>1 DEF ActionCause
    <3>2. CASE r # s
      BY <1>0, <2>3, <2>5, <3>2 DEF Caps
    <3> QED
      BY <3>1, <3>2
  <2> QED
    BY <1>0, <2>2, <2>3, <2>4, <2>5, <2>6, <2>7
<1>4. CASE \E s \in Sessions : Age(s)
  BY <1>0, <1>4 DEF Age, Caps
<1>5. \/ UNCHANGED runVars
      \/ \E c \in Calls : (After(c) \/ Close(c)) /\ Finish(c)
      \/ \E s \in Sessions : AgentEnd(s) \/ Age(s)
  <2>1. CASE UNCHANGED guardVars
    BY <2>1 DEF guardVars
  <2>2. ASSUME NEW c \in Calls, After(c) \/ Close(c)
        PROVE  Finish(c) \/ UNCHANGED runVars
    BY <2>2 DEF After, Close
  <2>3. ASSUME NEW c \in Calls, Local(c) \/ Ask(c) \/ Decide(c) \/ Saved(c) \/ AllowOnce(c)
                                \/ Decline(c) \/ Omit(c) \/ Timer(c)
        PROVE  UNCHANGED runVars
    BY <2>3 DEF Local, Ask, Decide, Saved, AllowOnce, Decline, Omit, Timer
  <2> QED
    BY <2>1, <2>2, <2>3 DEF Next
<1> QED
  BY <1>1, <1>2, <1>3, <1>4, <1>5

(* ---------------------- The invariant and the theorems ----------------- *)

LEMMA GuardInit == ASSUME GuardAssumption, Init PROVE GuardInv
<1>1. TypeOK
  BY InitTyped
<1>2. Held = {} /\ Range(<<>>) = {} /\ Len(<<>>) = 0
  BY DEF Init, Held, Range
<1>3. Caps
  <2>1. \A s \in Sessions : actions[s] = <<>>
    BY DEF Init
  <2> QED
    BY <1>2, <2>1 DEF Init, Caps, GuardAssumption
<1> QED
  BY <1>1, <1>2, <1>3 DEF Init, GuardInv, Solo, RanWhen, Reported, Entries, Traced, Busy,
                          Same

LEMMA GuardNext == ASSUME GuardAssumption, GuardInv, [Next]_guardVars PROVE GuardInv'
<1>0. TypeOK /\ Caps /\ Solo /\ RanWhen /\ Reported /\ Entries /\ Traced
  BY DEF GuardInv
<1>1. Caps'
  <2>1. Len(traceByCall') <= MaxPending
    BY <1>0, TracesStep
  <2>2. Len(runs') <= MaxRuns
        /\ \A s \in Sessions : /\ Len(actions'[s]) <= MaxActions
                               /\ s \notin Range(runs') => actions'[s] = <<>>
    BY <1>0, RunsStep
  <2> QED
    BY <2>1, <2>2 DEF Caps
<1>2. ASSUME phase' \in [Calls -> Phases], decision' \in [Calls -> Decisions \cup {"none"}],
             reports' \subseteq ReportType, ran' \subseteq Calls
      PROVE  TypeOK'
  <2>1. traceByCall' \in Seq(Calls) /\ timers' \subseteq Calls
    BY <1>0, TracesStep
  <2>2. /\ runs' \in Seq(Sessions) /\ actions' \in [Sessions -> Seq(Calls)]
        /\ old' \subseteq Sessions /\ reviewed' \subseteq Calls
    BY <1>0, RunsStep
  <2> QED
    BY <1>0, <1>2, <2>1, <2>2, ConfigKept DEF TypeOK, ReportType
<1>3. CASE \E c \in Calls : CallTurn(c)
  <2>0. PICK c \in Calls : CallTurn(c)
    BY <1>3
  <2>1. PICK p : Turn(c, p)
    BY <1>0, <2>0, EachTurn
  <2>2. TypeOK'
    BY <1>0, <1>2, <2>1, TurnTyped
  <2>3. Solo' /\ RanWhen'
    BY <1>0, <2>1, SoloTurn, RanTurn
  <2>4. Reported' /\ Traced'
    BY <1>0, <2>1, ReportedTurn, TracedTurn
  <2>5. Entries'
    BY <1>0, <2>1, EntriesTurn
  <2> QED
    BY <1>1, <2>2, <2>3, <2>4, <2>5 DEF GuardInv
<1>4. CASE \/ UNCHANGED guardVars
           \/ \E c \in Calls : Timer(c)
           \/ \E s \in Sessions : AgentEnd(s) \/ Age(s)
  <2>1. UNCHANGED <<phase, decision, reports, ran>> /\ Held' \subseteq Held
    BY <1>0, <1>4, OtherTurn
  <2>2. TypeOK'
    BY <1>0, <1>2, <2>1 DEF TypeOK, ReportType
  <2>3. Solo' /\ RanWhen' /\ Reported' /\ Traced'
    BY <1>0, <2>1 DEF Solo, RanWhen, Reported, Traced, Same
  <2>4. Entries'
    BY <1>0, <2>1 DEF Entries, Same
  <2> QED
    BY <1>1, <2>2, <2>3, <2>4 DEF GuardInv
<1> QED
  BY <1>3, <1>4 DEF Next, CallTurn

LEMMA GuardTells == ASSUME GuardInv PROVE ReportsTrue
  BY DEF GuardInv, ReportsTrue, TypeOK, RanWhen, Reported, Traced, Closed

LEMMA GuardKeeps ==
    ASSUME GuardAssumption, GuardInv, [Next]_guardVars
    PROVE  /\ Len(traceByCall') <= MaxPending /\ Len(runs') <= MaxRuns
           /\ \A c \in Held \ Range(traceByCall') : TraceCause(c)
           /\ \A s \in Sessions :
                 \A c \in Range(actions[s]) \ Range(actions'[s]) : ActionCause(s, c)
  BY TracesStep, RunsStep DEF GuardInv, Held

(* Whatever the calls, their ids and sessions, the replies and the caps:   *)
(* security.js reports a call once at most, blocked only if it never runs, *)
(* with its own trace, or with one an allowed call of the id left over.    *)
THEOREM ClawReportsAreTrue == ASSUME GuardAssumption PROVE Spec => []ReportsTrue
<1>1. Init => GuardInv
  BY GuardInit
<1>2. GuardInv /\ [Next]_guardVars => GuardInv'
  BY GuardNext
<1>3. GuardInv => ReportsTrue
  BY GuardTells
<1> QED
  BY <1>1, <1>2, <1>3, PTL DEF Spec

(* The maps of security.js keep to their caps, and lose a trace to its own *)
(* timer, to a call with its id or to the cap, and an action to agent_end, *)
(* to an hour without another or to a cap, whatever the caps are.          *)
THEOREM ClawLosesForCause == ASSUME GuardAssumption PROVE Spec => LostForCause
<1>1. Init => GuardInv
  BY GuardInit
<1>2. GuardInv /\ [Next]_guardVars => GuardInv'
  BY GuardNext
<1>3. GuardInv /\ [Next]_guardVars =>
          [/\ Len(traceByCall') <= MaxPending /\ Len(runs') <= MaxRuns
           /\ \A c \in Held \ Range(traceByCall') : TraceCause(c)
           /\ \A s \in Sessions :
                 \A c \in Range(actions[s]) \ Range(actions'[s]) : ActionCause(s, c)]_guardVars
  BY GuardKeeps
<1> QED
  BY <1>1, <1>2, <1>3, PTL DEF Spec, LostForCause, TraceCause, ActionCause

(* ------------------------------ The queue ------------------------------ *)

(* The module counts with its own instance of FiniteSets.                  *)
LEMMA SameFinite == \A S : /\ Q!Cardinality(S) = Cardinality(S)
                           /\ Q!IsFiniteSet(S) <=> IsFiniteSet(S)
  BY DEF Q!Cardinality, Q!IsFiniteSet, Cardinality, IsFiniteSet

LEMMA QueueInitTyped == ASSUME Q!OutboxAssumption, Q!Init PROVE Q!TypeOK
<1>1. enqueue \in [Events -> Q!Enqueuing \cup Q!Ended \cup {"new"}]
  BY DEF Q!Init, Q!Ended
<1>2. /\ 0 \in 0..Batch /\ 0 \in 0..MaxTroubles
      /\ Q!Idle \in [full : 0..MaxRetries, part : 0..MaxRetries]
  BY DEF Q!OutboxAssumption, Q!Idle
<1> QED
  BY <1>1, <1>2 DEF Q!OutboxAssumption, Q!Init, Q!TypeOK

(* The file that the flush is about to send or to remove is one of an      *)
(* event, and the batch has room for it.                                   *)
Picked == flushing \in {"send", "unlink"} => Q!Min(todo) \in Events /\ delivered < Batch

(* A step of an enqueue moves it, and takes or leaves the lock.            *)
LEMMA LockTyped ==
    ASSUME Q!TypeOK, NEW e \in Events, NEW l \in {"none", "owned", "dead"},
           NEW p \in Q!Enqueuing \cup Q!Ended, Q!Lock(e, l, p), troubles' \in 0..MaxTroubles,
           derelict' \in BOOLEAN
    PROVE  Q!TypeOK'
  BY DEF Q!TypeOK, Q!Lock, Q!Goto, Q!diskVars, Q!flushVars, Q!wakeVars, Q!serviceVars

LEMMA StaysTyped ==
    ASSUME Q!TypeOK, NEW e \in Events, NEW p \in Q!Enqueuing \cup Q!Ended, Q!Stays(e, p),
           spool' \subseteq Events, aged' \subseteq Events, expired' \subseteq Events,
           seen' \in [Events -> SUBSET Events], troubles' \in 0..MaxTroubles
    PROVE  Q!TypeOK'
  BY DEF Q!TypeOK, Q!Stays, Q!Goto, Q!flushVars, Q!wakeVars, Q!serviceVars

LEMMA TroubleTyped ==
    ASSUME Q!OutboxAssumption, Q!TypeOK, Q!Trouble \/ Q!Smooth
    PROVE  troubles' \in 0..MaxTroubles
  BY DEF Q!OutboxAssumption, Q!TypeOK, Q!Trouble, Q!Smooth

LEMMA EnqueueTyped ==
    ASSUME Q!OutboxAssumption, Q!TypeOK, NEW e \in Events, Q!Enqueue(e) PROVE Q!TypeOK'
<1> USE DEF Q!Enqueuing, Q!Ended, Q!InQueue
<1>1. CASE Q!Open(e)
  <2>1. PICK l \in {"none", "owned", "dead"}, p \in (Q!Enqueuing \cup Q!Ended) : Q!Lock(e, l, p)
    BY <1>1 DEF Q!Open, Q!TypeOK
  <2>2. derelict' \in BOOLEAN
    BY <1>1 DEF Q!Open, Q!SameHistory, Q!TypeOK
  <2> QED
    BY <1>1, <2>1, <2>2, LockTyped, TroubleTyped DEF Q!Open
<1>2. CASE Q!Busy(e) \/ Q!Steal(e)
  <2>1. PICK l \in {"none", "owned", "dead"}, p \in (Q!Enqueuing \cup Q!Ended) : Q!Lock(e, l, p)
    BY <1>2 DEF Q!Busy, Q!Steal, Q!TypeOK
  <2>2. derelict' \in BOOLEAN
    BY <1>2 DEF Q!Busy, Q!Steal, Q!SameHistory, Q!TypeOK
  <2> QED
    BY <1>2, <2>1, <2>2, LockTyped, TroubleTyped DEF Q!Busy, Q!Steal
<1>3. CASE Q!Unlock(e)
  <2>1. Q!Outcome(e) \in Q!Enqueuing \cup Q!Ended
    BY <1>3 DEF Q!Unlock, Q!Outcome, Q!At
  <2>2. PICK l \in {"none", "owned", "dead"}, p \in (Q!Enqueuing \cup Q!Ended) : Q!Lock(e, l, p)
    BY <1>3, <2>1 DEF Q!Unlock, Q!TypeOK
  <2>3. derelict' \in BOOLEAN
    BY <1>3 DEF Q!Unlock, Q!SameHistory, Q!TypeOK
  <2> QED
    BY <1>3, <2>2, <2>3, LockTyped, TroubleTyped DEF Q!Unlock
<1>4. CASE Q!Scan(e)
  <2>1. /\ spool' \subseteq Events /\ aged' \subseteq Events /\ expired' \subseteq Events
        /\ seen' \in [Events -> SUBSET Events]
    BY <1>4 DEF Q!Scan, Q!Purged, Q!TypeOK
  <2> QED
    BY <1>4, <2>1, StaysTyped, TroubleTyped DEF Q!Scan
<1>5. CASE Q!Count(e)
  <2>1. /\ spool' \subseteq Events /\ aged' \subseteq Events /\ expired' \subseteq Events
        /\ seen' \in [Events -> SUBSET Events] /\ Q!Smooth
    BY <1>5 DEF Q!Count, Q!diskVars, Q!TypeOK, Q!Smooth
  <2>2. PICK p \in {"stumble", "abandon", "link"} : Q!Stays(e, p)
    BY <1>5 DEF Q!Count
  <2> QED
    BY <2>1, <2>2, StaysTyped, TroubleTyped
<1>6. CASE Q!Link(e)
  <2>1. /\ spool' \subseteq Events /\ aged' \subseteq Events /\ expired' \subseteq Events
        /\ seen' \in [Events -> SUBSET Events]
    BY <1>6 DEF Q!Link, Q!TypeOK
  <2>2. PICK p \in {"clean", "abandon"} : Q!Stays(e, p)
    BY <1>6 DEF Q!Link
  <2>3. Q!Trouble \/ Q!Smooth
    BY <1>6 DEF Q!Link
  <2> QED
    BY <2>1, <2>2, <2>3, StaysTyped, TroubleTyped
<1>7. CASE Q!Clean(e)
  <2>1. /\ spool' \subseteq Events /\ aged' \subseteq Events /\ expired' \subseteq Events
        /\ seen' \in [Events -> SUBSET Events]
    BY <1>7 DEF Q!Clean, Q!diskVars, Q!TypeOK
  <2>2. PICK p \in {"unlock", "abandon"} : Q!Stays(e, p)
    BY <1>7 DEF Q!Clean
  <2>3. Q!Trouble \/ Q!Smooth
    BY <1>7 DEF Q!Clean
  <2> QED
    BY <2>1, <2>2, <2>3, StaysTyped, TroubleTyped
<1>8. CASE Q!CallFlush(e)
  BY <1>8 DEF Q!CallFlush, Q!Flush, Q!Goto, Q!TypeOK, Q!diskVars, Q!serviceVars, Q!Flushing
<1> QED
  BY <1>1, <1>2, <1>3, <1>4, <1>5, <1>6, <1>7, <1>8 DEF Q!Enqueue

(* The flush that ends leaves one more #scheduleRetry call.                *)
LEMMA EndTyped ==
    ASSUME Q!OutboxAssumption, Q!TypeOK, NEW n, Q!End(n)
    PROVE  /\ retries' \in [full : 0..MaxRetries, part : 0..MaxRetries] /\ retries' # Q!Idle
           /\ flushing' = "no" /\ todo' = {} /\ delivered' \in 0..Batch
<1>1. /\ retries.full \in 0..MaxRetries /\ retries.part \in 0..MaxRetries
      /\ retries.full + retries.part < MaxRetries /\ MaxRetries \in Nat
  BY DEF Q!End, Q!TypeOK, Q!OutboxAssumption
<1>2. retries' = [full |-> retries.full + 1, part |-> retries.part]
         \/ retries' = [full |-> retries.full, part |-> retries.part + 1]
  BY DEF Q!End, Q!TypeOK
<1>3. retries' \in [full : 0..MaxRetries, part : 0..MaxRetries]
  BY <1>1, <1>2
<1>4. retries' # Q!Idle
  BY <1>1, <1>2 DEF Q!Idle
<1> QED
  BY <1>3, <1>4 DEF Q!End, Q!Reach, Q!OutboxAssumption

LEMMA FlushTyped ==
    ASSUME Q!OutboxAssumption, Q!TypeOK, Picked, Q!FlushOn PROVE Q!TypeOK' /\ Picked'
<1> USE DEF Q!Flushing
<1>1. CASE Q!List
  <2>1. CASE /\ Q!Purged /\ todo' = spool' /\ Q!Reach("next")
             /\ UNCHANGED <<delivered, retries>> /\ Q!Smooth
    BY <1>1, <2>1 DEF Q!List, Q!Purged, Q!Reach, Q!Smooth, Q!FlushStep, Q!queueVars,
                      Q!serviceVars, Q!TypeOK, Picked
  <2>2. CASE Q!End(0) /\ UNCHANGED Q!diskVars /\ Q!Trouble
    <3>1. troubles' \in 0..MaxTroubles
      BY <2>2, TroubleTyped
    <3> QED
      BY <1>1, <2>2, <3>1, EndTyped
         DEF Q!List, Q!FlushStep, Q!queueVars, Q!diskVars, Q!serviceVars, Q!TypeOK, Picked
  <2> QED
    BY <1>1, <2>1, <2>2 DEF Q!List
<1>2. CASE Q!Pick
  <2>1. Picked'
    <3>1. flushing' \in {"send", "more"} /\ UNCHANGED <<todo, delivered>>
      BY <1>2 DEF Q!Pick, Q!Reach
    <3>2. flushing' = "send" => delivered < Batch /\ Q!Min(todo) \in spool
      BY <1>2 DEF Q!Pick, Q!Reach
    <3> QED
      BY <3>1, <3>2 DEF Picked, Q!TypeOK
  <2> QED
    BY <1>2, <2>1 DEF Q!Pick, Q!Reach, Q!Smooth, Q!FlushStep, Q!queueVars, Q!diskVars,
                      Q!serviceVars, Q!TypeOK
<1>3. CASE Q!Send
  <2>1. Q!Min(todo) \in Events /\ delivered < Batch /\ UNCHANGED <<todo, delivered>>
    BY <1>3 DEF Q!Send, Picked
  <2>2. troubles' \in 0..MaxTroubles
    <3>1. Q!Trouble \/ Q!Smooth
      BY <1>3 DEF Q!Send
    <3> QED
      BY <3>1, TroubleTyped
  <2>3. received' \subseteq Events /\ flushing' \in {"unlink", "more"}
    BY <1>3, <2>1 DEF Q!Send, Q!Reach, Q!TypeOK
  <2> QED
    BY <1>3, <2>1, <2>2, <2>3 DEF Q!Send, Q!FlushStep, Q!queueVars, Q!diskVars, Q!TypeOK,
                                  Picked
<1>4. CASE Q!Unlink
  <2>1. Q!Min(todo) \in Events /\ delivered < Batch
    BY <1>4 DEF Q!Unlink, Picked
  <2>2. troubles' \in 0..MaxTroubles
    <3>1. Q!Trouble \/ Q!Smooth
      BY <1>4 DEF Q!Unlink
    <3> QED
      BY <3>1, TroubleTyped
  <2>3. delivered' \in 0..Batch
    BY <1>4, <2>1 DEF Q!Unlink, Q!OutboxAssumption, Q!TypeOK
  <2>4. todo' \subseteq Events /\ spool' \subseteq Events /\ flushing' = "next"
    BY <1>4 DEF Q!Unlink, Q!Reach, Q!TypeOK
  <2> QED
    BY <1>4, <2>2, <2>3, <2>4 DEF Q!Unlink, Q!FlushStep, Q!queueVars, Q!serviceVars,
                                  Q!TypeOK, Picked
<1>5. CASE Q!More
  <2>1. PICK n : Q!End(n)
    BY <1>5 DEF Q!More
  <2>2. Q!Trouble \/ Q!Smooth
    BY <1>5 DEF Q!More
  <2>3. troubles' \in 0..MaxTroubles
    BY <2>2, TroubleTyped
  <2>4. immediate' \in BOOLEAN
    BY <1>5 DEF Q!More, Q!TypeOK
  <2> QED
    BY <1>5, <2>1, <2>3, <2>4, EndTyped
       DEF Q!More, Q!FlushStep, Q!queueVars, Q!diskVars, Q!serviceVars, Q!TypeOK, Picked
<1> QED
  BY <1>1, <1>2, <1>3, <1>4, <1>5 DEF Q!FlushOn

LEMMA ScheduleTyped ==
    ASSUME Q!OutboxAssumption, Q!TypeOK, NEW kind \in {"full", "part"}, Q!Schedule(kind)
    PROVE  Q!TypeOK'
<1>1. retries' \in [full : 0..MaxRetries, part : 0..MaxRetries]
  BY DEF Q!Schedule, Q!TypeOK, Q!OutboxAssumption
<1>2. immediate' \in BOOLEAN /\ timer' \in {"off", "armed", "fired"}
  BY DEF Q!Schedule, Q!TypeOK
<1>3. Q!Trouble \/ Q!Smooth
  BY DEF Q!Schedule
<1>4. troubles' \in 0..MaxTroubles
  BY <1>3, TroubleTyped
<1> QED
  BY <1>1, <1>2, <1>4 DEF Q!Schedule, Q!queueVars, Q!diskVars, Q!flushVars, Q!serviceVars,
                          Q!TypeOK

LEMMA NextTyped ==
    ASSUME Q!OutboxAssumption, Q!TypeOK, Picked, [Q!Next]_(Q!outboxVars)
    PROVE  Q!TypeOK' /\ Picked'
<1>1. CASE Q!FlushOn
  BY <1>1, FlushTyped
<1>2. ASSUME NEW e \in Events, Q!Enqueue(e) PROVE Q!TypeOK' /\ Picked'
  <2>1. UNCHANGED <<todo, delivered>> /\ (flushing' = flushing \/ flushing' = "list")
    BY <1>2 DEF Q!Enqueue, Q!Open, Q!Busy, Q!Steal, Q!Unlock, Q!Lock, Q!Scan, Q!Count,
                Q!Link, Q!Clean, Q!Stays,
                Q!CallFlush, Q!Flush, Q!flushVars
  <2> QED
    BY <1>2, <2>1, EnqueueTyped DEF Picked
<1>3. ASSUME NEW e \in Events, Q!Report(e) PROVE Q!TypeOK' /\ Picked'
  BY <1>3 DEF Q!Report, Q!Goto, Q!TypeOK, Picked, Q!diskVars, Q!flushVars, Q!wakeVars,
              Q!serviceVars, Q!Enqueuing
<1>4. ASSUME NEW e \in Events, Q!Age(e) PROVE Q!TypeOK' /\ Picked'
  BY <1>4 DEF Q!Age, Q!TypeOK, Picked, Q!queueVars, Q!flushVars, Q!wakeVars, Q!serviceVars
<1>5. CASE Q!Schedule("full") \/ Q!Schedule("part")
  <2>1. UNCHANGED <<todo, delivered, flushing>>
    BY <1>5 DEF Q!Schedule, Q!flushVars
  <2> QED
    BY <1>5, <2>1, ScheduleTyped DEF Picked
<1>6. CASE Q!Start
  BY <1>6 DEF Q!Start, Q!Flush, Q!TypeOK, Picked, Q!diskVars, Q!serviceVars, Q!Flushing
<1>7. CASE Q!Crash
  <2>1. troubles' \in 0..MaxTroubles
    BY <1>7, TroubleTyped DEF Q!Crash
  <2>2. retries' \in [full : 0..MaxRetries, part : 0..MaxRetries]
    BY <1>7 DEF Q!Crash, Q!Idle, Q!OutboxAssumption
  <2>3. enqueue' \in [Events -> Q!Enqueuing \cup Q!Ended \cup {"new"}]
    BY <1>7 DEF Q!Crash, Q!TypeOK, Q!Ended
  <2>4. seen' \in [Events -> SUBSET Events] /\ 0 \in 0..Batch
    BY <1>7 DEF Q!Crash, Q!OutboxAssumption
  <2>5. /\ UNCHANGED <<lock, spool, aged, expired, up, received>>
        /\ flushing' = "no" /\ todo' = {} /\ delivered' = 0 /\ alive' = FALSE
        /\ immediate' = FALSE /\ timer' = "off" /\ derelict' \in BOOLEAN
    BY <1>7 DEF Q!Crash, Q!diskVars, Q!serviceVars, Q!TypeOK
  <2> QED
    BY <2>1, <2>2, <2>3, <2>4, <2>5 DEF Q!TypeOK, Picked
<1>8. CASE Q!Down \/ Q!Up
  <2>1. Q!Trouble \/ Q!Smooth
    BY <1>8 DEF Q!Down, Q!Up, Q!Smooth
  <2>2. troubles' \in 0..MaxTroubles
    BY <2>1, TroubleTyped
  <2> QED
    BY <1>8, <2>2 DEF Q!Down, Q!Up, Q!TypeOK, Picked, Q!queueVars, Q!diskVars, Q!flushVars,
                      Q!wakeVars
<1>9. CASE Q!Fire \/ Q!Retry \/ Q!Immediate
  <2>1. /\ timer' \in {"off", "armed", "fired"} /\ flushing' \in Q!Flushing \cup {"no"}
        /\ immediate' \in BOOLEAN
    BY <1>9 DEF Q!Fire, Q!Retry, Q!Immediate, Q!Flush, Q!TypeOK, Q!flushVars, Q!Flushing
  <2>2. /\ UNCHANGED <<alive, Q!queueVars, Q!diskVars, todo, delivered, retries, Q!serviceVars,
                       troubles, derelict>>
        /\ flushing' = flushing \/ flushing' = "list"
    BY <1>9 DEF Q!Fire, Q!Retry, Q!Immediate, Q!Flush, Q!flushVars
  <2> QED
    BY <2>1, <2>2 DEF Q!TypeOK, Picked, Q!queueVars, Q!diskVars, Q!serviceVars
<1>10. CASE UNCHANGED Q!outboxVars
  BY <1>10 DEF Q!outboxVars, Q!TypeOK, Picked, Q!queueVars, Q!diskVars, Q!flushVars,
               Q!wakeVars, Q!serviceVars
<1> QED
  BY <1>1, <1>2, <1>3, <1>4, <1>5, <1>6, <1>7, <1>8, <1>9, <1>10 DEF Q!Next

(* ------------------------- What was kept ------------------------------- *)

(* An event that was linked is on disk, ingested or purged for its age,    *)
(* and a flush removes only what the service has answered for.             *)
Linked == {"clean", "unlock", "flush", "kept"}
Safe == /\ \A e \in Events : enqueue[e] \in Linked => e \in spool \cup received \cup expired
        /\ flushing = "unlink" => Q!Min(todo) \in received

LEMMA InitSafe == ASSUME Q!Init PROVE Safe
  BY DEF Q!Init, Safe, Linked

(* A step that links nothing new and removes nothing keeps it so.          *)
LEMMA StillSafe ==
    ASSUME Safe, spool \cup received \cup expired \subseteq (spool \cup received \cup expired)',
           received \subseteq received', todo' = todo \/ flushing' # "unlink",
           flushing' = "unlink" => flushing = "unlink",
           \A e \in Events : enqueue'[e] \in Linked => enqueue[e] \in Linked
    PROVE  Safe'
  BY DEF Safe

LEMMA EnqueueSafe == ASSUME Q!TypeOK, Safe, NEW e \in Events, Q!Enqueue(e) PROVE Safe'
<1>1. /\ UNCHANGED <<todo, received>> /\ received \subseteq received'
      /\ flushing' = flushing \/ flushing' = "list"
  BY DEF Q!Enqueue, Q!Open, Q!Busy, Q!Steal, Q!Unlock, Q!Lock, Q!Scan, Q!Count, Q!Link,
         Q!Clean, Q!Stays,
         Q!CallFlush, Q!Flush, Q!flushVars, Q!serviceVars
<1>2. spool \cup received \cup expired \subseteq (spool \cup received \cup expired)'
  BY DEF Q!Enqueue, Q!Open, Q!Busy, Q!Steal, Q!Unlock, Q!Lock, Q!Scan, Q!Purged, Q!Count,
         Q!Link, Q!Clean, Q!Stays,
         Q!CallFlush, Q!diskVars, Q!serviceVars
<1>3. \A d \in Events \ {e} : enqueue'[d] = enqueue[d]
  BY DEF Q!Enqueue, Q!Open, Q!Busy, Q!Steal, Q!Unlock, Q!Lock, Q!Scan, Q!Count, Q!Link,
         Q!Clean, Q!Stays, Q!CallFlush,
         Q!Goto, Q!TypeOK
<1>4. CASE Q!Link(e)
  <2>1. enqueue'[e] = "clean" => e \in spool'
    BY <1>4 DEF Q!Link, Q!Stays, Q!Goto, Q!TypeOK
  <2>2. enqueue'[e] \in Linked => e \in spool'
    BY <1>4, <2>1 DEF Q!Link, Q!Stays, Q!Goto, Q!TypeOK, Linked
  <2> QED
    BY <1>1, <1>2, <1>3, <2>2 DEF Safe
<1>5. CASE Q!Clean(e)
  BY <1>1, <1>2, <1>3, <1>5, StillSafe DEF Q!Clean, Q!At, Linked
<1>6. CASE Q!Unlock(e)
  <2>1. enqueue'[e] = "flush" => enqueue[e] = "unlock"
    BY <1>6 DEF Q!Unlock, Q!Outcome, Q!Lock, Q!Goto, Q!At, Q!TypeOK
  <2>2. enqueue'[e] \in Linked => enqueue[e] \in Linked
    BY <1>6, <2>1 DEF Q!Unlock, Q!Outcome, Q!Lock, Q!Goto, Q!At, Q!TypeOK, Linked
  <2> QED
    BY <1>1, <1>2, <1>3, <2>2, StillSafe
<1>7. CASE Q!CallFlush(e)
  BY <1>1, <1>2, <1>3, <1>7, StillSafe DEF Q!CallFlush, Q!At, Linked
<1>8. CASE Q!Open(e) \/ Q!Busy(e) \/ Q!Steal(e) \/ Q!Scan(e) \/ Q!Count(e)
  <2>1. enqueue'[e] \notin Linked
    BY <1>8 DEF Q!Open, Q!Busy, Q!Steal, Q!Scan, Q!Count, Q!Lock, Q!Stays, Q!Goto, Q!TypeOK,
                Linked
  <2> QED
    BY <1>1, <1>2, <1>3, <2>1, StillSafe
<1> QED
  BY <1>4, <1>5, <1>6, <1>7, <1>8 DEF Q!Enqueue

LEMMA FlushSafe == ASSUME Q!TypeOK, Safe, Q!FlushOn PROVE Safe'
<1>1. UNCHANGED enqueue
  BY DEF Q!FlushOn, Q!List, Q!Pick, Q!Send, Q!Unlink, Q!More, Q!FlushStep, Q!queueVars
<1>2. CASE Q!List \/ Q!More \/ Q!Pick
  <2>1. flushing' \in {"next", "no", "send", "more"} /\ received' = received
    BY <1>2 DEF Q!List, Q!More, Q!Pick, Q!End, Q!Reach, Q!serviceVars
  <2>2. spool \cup expired \subseteq (spool \cup expired)'
    BY <1>2 DEF Q!List, Q!More, Q!Pick, Q!Purged, Q!diskVars
  <2> QED
    BY <1>1, <2>1, <2>2, StillSafe
<1>3. CASE Q!Send
  <2>1. /\ received \subseteq received' /\ UNCHANGED <<spool, expired, todo>>
        /\ flushing' = "unlink" => Q!Min(todo) \in received'
    BY <1>3 DEF Q!Send, Q!Reach, Q!diskVars
  <2> QED
    BY <1>1, <2>1 DEF Safe
<1>4. CASE Q!Unlink
  <2>1. /\ Q!Min(todo) \in received /\ UNCHANGED <<received, expired>> /\ flushing' = "next"
        /\ spool \ {Q!Min(todo)} \subseteq spool'
    BY <1>4 DEF Q!Unlink, Q!Reach, Safe, Q!serviceVars
  <2> QED
    BY <1>1, <2>1, StillSafe
<1> QED
  BY <1>2, <1>3, <1>4 DEF Q!FlushOn

LEMMA NextSafe == ASSUME Q!TypeOK, Safe, [Q!Next]_(Q!outboxVars) PROVE Safe'
<1>1. CASE Q!FlushOn
  BY <1>1, FlushSafe
<1>2. ASSUME NEW e \in Events, Q!Enqueue(e) PROVE Safe'
  BY <1>2, EnqueueSafe
<1>3. ASSUME NEW e \in Events, Q!Report(e) PROVE Safe'
  <2>1. UNCHANGED <<todo, flushing, received, spool, expired>>
    BY <1>3 DEF Q!Report, Q!diskVars, Q!flushVars, Q!serviceVars
  <2>2. \A d \in Events : enqueue'[d] \in Linked => enqueue[d] \in Linked
    BY <1>3 DEF Q!Report, Q!Goto, Linked, Q!TypeOK
  <2> QED
    BY <2>1, <2>2, StillSafe
<1>4. CASE Q!Crash
  <2>1. flushing' = "no" /\ UNCHANGED <<received, spool, expired>>
    BY <1>4 DEF Q!Crash, Q!diskVars, Q!serviceVars
  <2>2. \A d \in Events : enqueue'[d] \in Linked => enqueue[d] \in Linked
    BY <1>4 DEF Q!Crash, Linked
  <2> QED
    BY <2>1, <2>2, StillSafe
<1>5. CASE \/ \E e \in Events : Q!Age(e)
           \/ Q!Start \/ Q!Down \/ Q!Up \/ Q!Schedule("full") \/ Q!Schedule("part")
           \/ Q!Fire \/ Q!Retry \/ Q!Immediate \/ UNCHANGED Q!outboxVars
  <2>1. /\ UNCHANGED <<enqueue, spool, expired, received, todo>>
        /\ flushing' = flushing \/ flushing' = "list"
    BY <1>5 DEF Q!Age, Q!Start, Q!Down, Q!Up, Q!Schedule, Q!Fire, Q!Retry, Q!Immediate,
                Q!Flush, Q!outboxVars,
                Q!queueVars, Q!diskVars, Q!flushVars, Q!serviceVars
  <2> QED
    BY <2>1, StillSafe
<1> QED
  BY <1>1, <1>2, <1>3, <1>4, <1>5 DEF Q!Next

(* --------------------------- The lock ---------------------------------- *)

(* While no lock was left for stale, the enqueue that holds it is alone,   *)
(* has counted all that is on disk, and links only where there is room.    *)
(* One that the process failed to remove may outlive it.                   *)
Exclusive ==
    /\ lock # "dead"
    /\ lock = "none" => \A e \in Events : enqueue[e] \notin Q!InQueue
    /\ \A e, d \in Events : enqueue[e] \in Q!InQueue /\ enqueue[d] \in Q!InQueue => e = d
    /\ \A e \in Events : ~Q!At(e, "steal")
    /\ ~alive => lock = "none" /\ \A e \in Events : enqueue[e] \notin Q!Enqueuing
Counted ==
    /\ \A e \in Events : Q!At(e, "count") => spool \subseteq seen[e]
    /\ \A e \in Events : Q!At(e, "link") => Cardinality(spool) < MaxEvents
    /\ Cardinality(spool) <= MaxEvents
Capped == ~derelict => Exclusive /\ Counted

LEMMA InitCapped == ASSUME Q!OutboxAssumption, Q!Init PROVE Capped
  BY SameFinite DEF Q!OutboxAssumption, Q!Init, Capped, Exclusive, Counted, Q!At, Q!InQueue,
                    Q!Enqueuing

(* What is on disk is finite, and less of it has no more members.          *)
LEMMA SpoolCounts ==
    ASSUME Q!OutboxAssumption, NEW S \in SUBSET Events
    PROVE  /\ IsFiniteSet(S) /\ Cardinality(S) \in Nat
           /\ \A R \in SUBSET S : Cardinality(R) \in Nat /\ Cardinality(R) <= Cardinality(S)
<1>0. IsFiniteSet(Events)
  BY SameFinite DEF Q!OutboxAssumption
<1>1. IsFiniteSet(S) /\ Cardinality(S) \in Nat
  BY <1>0, FS_Subset, FS_CardinalityType
<1>2. ASSUME NEW R \in SUBSET S
      PROVE  Cardinality(R) \in Nat /\ Cardinality(R) <= Cardinality(S)
  BY <1>1, <1>2, FS_Subset, FS_CardinalityType
<1> QED
  BY <1>1, <1>2

(* A step that adds nothing to the disk, and moves nobody to a count.      *)
LEMMA StillCounted ==
    ASSUME Q!OutboxAssumption, Q!TypeOK, Counted, spool' \subseteq spool,
           \A e \in Events : Q!At(e, "count")' => Q!At(e, "count") /\ seen'[e] = seen[e],
           \A e \in Events : Q!At(e, "link")' => Q!At(e, "link")
    PROVE  Counted'
<1>1. Cardinality(spool') <= Cardinality(spool) /\ Cardinality(spool') \in Nat
         /\ Cardinality(spool) \in Nat /\ MaxEvents \in Nat
  BY SpoolCounts DEF Q!TypeOK, Q!OutboxAssumption
<1> QED
  BY <1>1 DEF Counted

LEMMA EnqueueCapped ==
    ASSUME Q!OutboxAssumption, Q!TypeOK, Exclusive, Counted, alive, ~derelict',
           NEW e \in Events, Q!Enqueue(e)
    PROVE  Exclusive' /\ Counted'
<1>0. alive' /\ \A d \in Events \ {e} : enqueue'[d] = enqueue[d]
  BY DEF Q!Enqueue, Q!Open, Q!Busy, Q!Steal, Q!Unlock, Q!Lock, Q!Scan, Q!Count, Q!Link,
         Q!Clean, Q!Stays, Q!CallFlush,
         Q!Goto, Q!TypeOK
<1>1. CASE Q!Open(e)
  <2>1. UNCHANGED <<spool, seen>>
    BY <1>1 DEF Q!Open, Q!Lock, Q!diskVars
  <2>2. CASE lock = "none" /\ Q!Lock(e, "owned", "scan")
    <3>1. lock' = "owned" /\ enqueue'[e] = "scan"
      BY <2>2 DEF Q!Lock, Q!Goto, Q!TypeOK
    <3>2. \A d \in Events \ {e} : enqueue'[d] \notin Q!InQueue
      BY <1>0, <2>2 DEF Exclusive
    <3>3. Exclusive'
      BY <1>0, <3>1, <3>2 DEF Exclusive, Q!At
    <3>4. Counted'
      BY <1>0, <2>1, <3>1, StillCounted DEF Q!At
    <3> QED
      BY <3>3, <3>4
  <2>3. CASE lock' \in {"owned", lock} /\ enqueue'[e] \in {"failed", "open"}
    <3>1. Exclusive'
      BY <1>0, <2>3 DEF Exclusive, Q!At, Q!InQueue
    <3>2. Counted'
      BY <1>0, <2>1, <2>3, StillCounted DEF Q!At
    <3> QED
      BY <3>1, <3>2
  <2>4. \/ lock = "none" /\ Q!Lock(e, "owned", "scan")
        \/ lock' \in {"owned", lock} /\ enqueue'[e] \in {"failed", "open"}
    BY <1>1 DEF Q!Open, Q!Lock, Q!Goto, Q!TypeOK, Exclusive
  <2> QED
    BY <2>2, <2>3, <2>4
<1>2. CASE Q!Busy(e)
  <2>1. UNCHANGED <<spool, seen, lock>> /\ enqueue'[e] = "failed"
    BY <1>2 DEF Q!Busy, Q!Lock, Q!Goto, Q!TypeOK, Q!diskVars
  <2>2. Exclusive'
    BY <1>0, <2>1 DEF Exclusive, Q!At, Q!InQueue
  <2> QED
    BY <1>0, <2>1, <2>2, StillCounted DEF Q!At
<1>3. CASE Q!Steal(e)
  BY <1>3 DEF Q!Steal, Exclusive
<1>4. CASE Q!Scan(e)
  <2>1. /\ lock' = lock /\ enqueue[e] = "scan" /\ enqueue'[e] = "count"
        /\ spool' \subseteq spool /\ seen'[e] = spool'
    BY <1>4 DEF Q!Scan, Q!Purged, Q!Stays, Q!Goto, Q!At, Q!TypeOK
  <2>2. Exclusive'
    BY <1>0, <2>1 DEF Exclusive, Q!At, Q!InQueue
  <2>3. \A d \in Events \ {e} : enqueue'[d] \notin Q!InQueue
    BY <1>0, <2>1 DEF Exclusive, Q!InQueue
  <2>4. Cardinality(spool') <= Cardinality(spool) /\ Cardinality(spool') \in Nat
           /\ Cardinality(spool) \in Nat /\ MaxEvents \in Nat
    BY <2>1, SpoolCounts DEF Q!TypeOK, Q!OutboxAssumption
  <2>5. Counted'
    BY <2>1, <2>3, <2>4 DEF Counted, Q!At, Q!InQueue
  <2> QED
    BY <2>2, <2>5
<1>5. CASE Q!Count(e)
  <2>1. /\ lock' = lock /\ enqueue[e] = "count" /\ spool' = spool
        /\ enqueue'[e] \in {"stumble", "abandon", "link"}
        /\ enqueue'[e] = "link" => ~(Cardinality(seen[e]) >= MaxEvents)
    BY <1>5, SameFinite DEF Q!Count, Q!Stays, Q!Goto, Q!At, Q!TypeOK, Q!diskVars
  <2>2. Exclusive'
    BY <1>0, <2>1 DEF Exclusive, Q!At, Q!InQueue
  <2>3. \A d \in Events \ {e} : enqueue'[d] \notin Q!InQueue
    BY <1>0, <2>1 DEF Exclusive, Q!InQueue
  <2>4. spool \subseteq seen[e] /\ seen[e] \in SUBSET Events /\ Cardinality(spool) <= MaxEvents
    BY <2>1 DEF Counted, Q!At, Q!TypeOK
  <2>5. /\ Cardinality(spool) <= Cardinality(seen[e]) /\ Cardinality(spool) \in Nat
        /\ Cardinality(seen[e]) \in Nat /\ MaxEvents \in Nat
    BY <2>4, SpoolCounts DEF Q!OutboxAssumption
  <2>6. enqueue'[e] = "link" => Cardinality(spool) < MaxEvents
    BY <2>1, <2>5
  <2>7. Counted'
    BY <2>1, <2>3, <2>4, <2>6 DEF Counted, Q!At, Q!InQueue
  <2> QED
    BY <2>2, <2>7
<1>6. CASE Q!Link(e)
  <2>1. /\ lock' = lock /\ enqueue[e] = "link" /\ spool' \in {spool, spool \cup {e}}
        /\ enqueue'[e] \in {"clean", "abandon"}
    BY <1>6 DEF Q!Link, Q!Stays, Q!Goto, Q!At, Q!TypeOK
  <2>2. Exclusive'
    BY <1>0, <2>1 DEF Exclusive, Q!At, Q!InQueue
  <2>3. \A d \in Events \ {e} : enqueue'[d] \notin Q!InQueue
    BY <1>0, <2>1 DEF Exclusive, Q!InQueue
  <2>4. Cardinality(spool) < MaxEvents /\ IsFiniteSet(spool) /\ Cardinality(spool) \in Nat
          /\ MaxEvents \in Nat
    BY <2>1, SpoolCounts DEF Counted, Q!At, Q!TypeOK, Q!OutboxAssumption
  <2>5. /\ IsFiniteSet(spool \cup {e})
        /\ Cardinality(spool \cup {e}) = IF e \in spool THEN Cardinality(spool)
                                         ELSE Cardinality(spool) + 1
    BY <2>4, FS_AddElement
  <2>6. Cardinality(spool \cup {e}) <= MaxEvents
    BY <2>4, <2>5
  <2>7. Cardinality(spool') <= MaxEvents
    BY <2>1, <2>4, <2>6
  <2>8. Counted'
    BY <2>1, <2>3, <2>7 DEF Counted, Q!At, Q!InQueue
  <2> QED
    BY <2>2, <2>8
<1>7. CASE Q!Clean(e)
  <2>1. /\ lock' = lock /\ enqueue[e] = "clean" /\ spool' = spool
        /\ enqueue'[e] \in {"unlock", "abandon"} /\ seen' = seen
    BY <1>7 DEF Q!Clean, Q!Stays, Q!Goto, Q!At, Q!TypeOK, Q!diskVars
  <2>2. Exclusive'
    BY <1>0, <2>1 DEF Exclusive, Q!At, Q!InQueue
  <2> QED
    BY <1>0, <2>1, <2>2, StillCounted DEF Q!At
<1>8. CASE Q!Unlock(e)
  <2>1. /\ lock' \in {"none", lock} /\ enqueue[e] \in Q!InQueue /\ spool' = spool
        /\ seen' = seen /\ enqueue'[e] \in {"flush", "failed", "vanished"}
    BY <1>8 DEF Q!Unlock, Q!Outcome, Q!Lock, Q!Goto, Q!At, Q!TypeOK, Q!diskVars, Q!InQueue
  <2>2. \A d \in Events : enqueue'[d] \notin Q!InQueue
    BY <1>0, <2>1 DEF Exclusive, Q!InQueue
  <2>3. Exclusive'
    BY <1>0, <2>1, <2>2 DEF Exclusive, Q!At
  <2> QED
    BY <1>0, <2>1, <2>3, StillCounted DEF Q!At
<1>9. CASE Q!CallFlush(e)
  <2>1. UNCHANGED <<spool, seen, lock>> /\ enqueue'[e] = "kept"
    BY <1>9 DEF Q!CallFlush, Q!Goto, Q!TypeOK, Q!diskVars
  <2>2. Exclusive'
    BY <1>0, <2>1 DEF Exclusive, Q!At, Q!InQueue
  <2> QED
    BY <1>0, <2>1, <2>2, StillCounted DEF Q!At
<1> QED
  BY <1>1, <1>2, <1>3, <1>4, <1>5, <1>6, <1>7, <1>8, <1>9 DEF Q!Enqueue

LEMMA NextCapped ==
    ASSUME Q!OutboxAssumption, Q!TypeOK, Capped, [Q!Next]_(Q!outboxVars) PROVE Capped'
<1> SUFFICES ASSUME ~derelict' PROVE Exclusive' /\ Counted'
  BY DEF Capped
<1>1. ~derelict
  BY DEF Q!Next, Q!Enqueue, Q!Open, Q!Busy, Q!Steal, Q!Unlock, Q!Lock, Q!Scan, Q!Count,
         Q!Link, Q!Clean, Q!Stays, Q!SameHistory,
         Q!CallFlush, Q!FlushOn, Q!List, Q!Pick, Q!Send, Q!Unlink, Q!More, Q!FlushStep,
         Q!Report, Q!Age, Q!Start, Q!Crash,
         Q!Down, Q!Up, Q!Schedule, Q!Fire, Q!Retry, Q!Immediate, Q!outboxVars
<1>2. Exclusive /\ Counted
  BY <1>1 DEF Capped
<1>3. ASSUME NEW e \in Events, Q!Enqueue(e) PROVE Exclusive' /\ Counted'
  <2>1. enqueue[e] \in Q!Enqueuing
    BY <1>3 DEF Q!Enqueue, Q!Open, Q!Busy, Q!Steal, Q!Unlock, Q!Scan, Q!Count, Q!Link,
                Q!Clean, Q!CallFlush, Q!At,
                Q!Enqueuing, Q!InQueue
  <2>2. alive
    BY <1>2, <2>1 DEF Exclusive, Q!TypeOK
  <2> QED
    BY <1>2, <1>3, <2>2, EnqueueCapped
<1>4. ASSUME NEW e \in Events, Q!Report(e) PROVE Exclusive' /\ Counted'
  <2>1. alive /\ alive' /\ UNCHANGED <<lock, spool, seen>> /\ enqueue'[e] = "open"
    BY <1>4 DEF Q!Report, Q!Goto, Q!TypeOK, Q!diskVars
  <2>2. \A d \in Events \ {e} : enqueue'[d] = enqueue[d]
    BY <1>4 DEF Q!Report, Q!Goto, Q!TypeOK
  <2>3. Exclusive'
    BY <1>2, <2>1, <2>2 DEF Exclusive, Q!At, Q!InQueue
  <2> QED
    BY <1>2, <2>1, <2>2, <2>3, StillCounted DEF Q!At
<1>5. CASE Q!Start
  <2>1. lock' = "none" /\ lock = "none" /\ alive' /\ UNCHANGED <<enqueue, seen, spool>>
    BY <1>2, <1>5 DEF Q!Start, Exclusive, Q!diskVars
  <2>2. Exclusive'
    BY <1>2, <2>1 DEF Exclusive, Q!At
  <2> QED
    BY <1>2, <2>1, <2>2, StillCounted DEF Q!At
<1>6. CASE Q!Crash
  <2>1. /\ lock = "none" /\ lock' = lock /\ ~alive' /\ spool' = spool
        /\ \A e \in Events : enqueue'[e] \notin Q!Enqueuing
    BY <1>6 DEF Q!Crash, Q!diskVars, Q!Enqueuing, Q!InQueue
  <2>2. Exclusive'
    BY <2>1 DEF Exclusive, Q!At, Q!Enqueuing
  <2>3. \A e \in Events : ~Q!At(e, "count")' /\ ~Q!At(e, "link")'
    BY <2>1 DEF Q!At, Q!Enqueuing, Q!InQueue
  <2> QED
    BY <1>2, <2>1, <2>2, <2>3, StillCounted
<1>7. CASE \/ Q!FlushOn
           \/ \E e \in Events : Q!Age(e)
           \/ Q!Down \/ Q!Up \/ Q!Schedule("full") \/ Q!Schedule("part")
           \/ Q!Fire \/ Q!Retry \/ Q!Immediate \/ UNCHANGED Q!outboxVars
  <2>1. UNCHANGED <<alive, lock, enqueue, seen>>
    BY <1>7 DEF Q!Age, Q!Down, Q!Up, Q!Schedule, Q!Fire, Q!Retry, Q!Immediate, Q!outboxVars,
                Q!queueVars,
                Q!FlushOn, Q!List, Q!Pick, Q!Send, Q!Unlink, Q!More, Q!FlushStep
  <2>2. spool' \subseteq spool
    BY <1>7 DEF Q!Age, Q!Down, Q!Up, Q!Schedule, Q!Fire, Q!Retry, Q!Immediate, Q!outboxVars,
                Q!diskVars,
                Q!FlushOn, Q!List, Q!Pick, Q!Send, Q!Unlink, Q!More, Q!Purged
  <2>3. Exclusive'
    BY <1>2, <2>1 DEF Exclusive, Q!At
  <2> QED
    BY <1>2, <2>1, <2>2, <2>3, StillCounted DEF Q!At
<1> QED
  BY <1>3, <1>4, <1>5, <1>6, <1>7 DEF Q!Next

(* ------------------------ Who looks at the disk ------------------------ *)

Watched == alive /\ (\E e \in spool : Q!At(e, "kept")) => Q!Attended

LEMMA InitWatched == ASSUME Q!Init PROVE Watched
  BY DEF Q!Init, Watched

(* What keeps an event from being forgotten is that whoever stops looking  *)
(* leaves somebody else to.                                                *)
LEMMA NextWatched ==
    ASSUME Q!OutboxAssumption, Q!TypeOK, Watched, [Q!Next]_(Q!outboxVars) PROVE Watched'
<1>1. ASSUME NEW e \in Events, Q!CallFlush(e) PROVE Q!Attended'
  BY <1>1 DEF Q!CallFlush, Q!Flush, Q!Attended
<1>2. CASE Q!Start \/ Q!Retry \/ Q!Immediate
  BY <1>2 DEF Q!Start, Q!Retry, Q!Immediate, Q!Flush, Q!Attended, Watched
<1>3. CASE Q!Fire
  BY <1>3 DEF Q!Fire, Q!Attended, Watched
<1>4. CASE Q!Crash
  BY <1>4 DEF Q!Crash, Watched
<1>5. CASE Q!List \/ Q!More
  <2>1. flushing' = "next" \/ \E n : Q!End(n)
    BY <1>5 DEF Q!List, Q!More, Q!Reach
  <2>2. CASE flushing' = "next"
    BY <2>2 DEF Q!Attended, Watched
  <2>3. ASSUME NEW n, Q!End(n) PROVE Q!Attended'
    BY <2>3, EndTyped DEF Q!Attended
  <2> QED
    BY <2>1, <2>2, <2>3 DEF Watched
<1>6. CASE Q!Pick \/ Q!Send \/ Q!Unlink
  <2>1. flushing' # "no"
    BY <1>6 DEF Q!Pick, Q!Send, Q!Unlink, Q!Reach
  <2> QED
    BY <2>1 DEF Q!Attended, Watched
<1>7. ASSUME NEW kind \in {"full", "part"}, Q!Schedule(kind) PROVE Watched'
  <2>1. UNCHANGED <<alive, spool, enqueue>>
    BY <1>7 DEF Q!Schedule, Q!queueVars, Q!diskVars
  <2>2. spool # {} => immediate' \/ timer' # "off"
    BY <1>7 DEF Q!Schedule, Q!TypeOK
  <2> QED
    BY <2>1, <2>2 DEF Watched, Q!Attended, Q!At
<1>8. ASSUME NEW e \in Events,
             \/ Q!Open(e) \/ Q!Busy(e) \/ Q!Steal(e) \/ Q!Scan(e) \/ Q!Count(e)
             \/ Q!Link(e) \/ Q!Clean(e) \/ Q!Unlock(e) \/ Q!Report(e)
      PROVE  Watched'
  <2>1. UNCHANGED <<alive, flushing, retries, immediate, timer>>
    BY <1>8 DEF Q!Open, Q!Busy, Q!Steal, Q!Scan, Q!Count, Q!Link, Q!Clean, Q!Unlock,
                Q!Report, Q!Lock, Q!Stays,
                Q!flushVars, Q!wakeVars
  <2>2. /\ \A d \in Events \ {e} : enqueue'[d] = enqueue[d]
        /\ enqueue'[e] # "kept" /\ enqueue[e] # "flush"
        /\ enqueue[e] # "kept"
    BY <1>8 DEF Q!Open, Q!Busy, Q!Steal, Q!Scan, Q!Count, Q!Link, Q!Clean, Q!Unlock,
                Q!Report, Q!Lock, Q!Stays,
                Q!Outcome, Q!Goto, Q!At, Q!TypeOK
  <2>3. spool' \subseteq spool \cup {e}
    BY <1>8 DEF Q!Open, Q!Busy, Q!Steal, Q!Scan, Q!Count, Q!Link, Q!Clean, Q!Unlock,
                Q!Report, Q!Lock, Q!Stays,
                Q!Purged, Q!diskVars
  <2>4. (\E d \in spool' : Q!At(d, "kept")') => \E d \in spool : Q!At(d, "kept")
    BY <2>2, <2>3 DEF Q!At, Q!TypeOK
  <2>5. (\E d \in Events : Q!At(d, "flush")) => \E d \in Events : Q!At(d, "flush")'
    BY <2>2 DEF Q!At
  <2> QED
    BY <2>1, <2>4, <2>5 DEF Watched, Q!Attended
<1>9. CASE (\E e \in Events : Q!Age(e)) \/ Q!Down \/ Q!Up \/ UNCHANGED Q!outboxVars
  <2>1. UNCHANGED <<alive, flushing, retries, immediate, timer, enqueue, spool>>
    BY <1>9 DEF Q!Age, Q!Down, Q!Up, Q!outboxVars, Q!queueVars, Q!diskVars, Q!flushVars,
                Q!wakeVars
  <2> QED
    BY <2>1 DEF Watched, Q!Attended, Q!At
<1> QED
  BY <1>1, <1>2, <1>3, <1>4, <1>5, <1>6, <1>7, <1>8, <1>9 DEF Q!Next, Q!Enqueue, Q!FlushOn,
         Watched

(* Whatever the events, the caps, the number of deaths, outages and lost   *)
(* answers: telemetry-outbox.js keeps an event on disk, has had it         *)
(* ingested or purged it for its age; until a lock is left for stale, by   *)
(* a process that died with it or could neither fill nor remove it, the    *)
(* queue keeps to its cap; and while the gateway lives, somebody looks at  *)
(* what is kept.                                                           *)
THEOREM QueueIsAccounted == ASSUME Q!OutboxAssumption PROVE Q!Spec => []Q!Accounted
<1> DEFINE Inv == Q!TypeOK /\ Picked /\ Safe /\ Capped /\ Watched
<1>1. Q!Init => Inv
  BY QueueInitTyped, InitSafe, InitCapped, InitWatched DEF Q!Init, Picked
<1>2. Inv /\ [Q!Next]_(Q!outboxVars) => Inv'
  BY NextTyped, NextSafe, NextCapped, NextWatched
<1>3. Inv => Q!Accounted
  BY SameFinite DEF Safe, Linked, Capped, Counted, Watched, Q!Accounted, Q!At
<1> HIDE DEF Inv
<1> QED
  BY <1>1, <1>2, <1>3, PTL DEF Q!Spec

(* --------------------------- The overrun ------------------------------- *)

(* The enqueues that have read the directory and not linked their file     *)
(* yet, that there are no more than K of them at a time, and which of them *)
(* found or are going to find room in what they read.                      *)
Between == {e \in Events : enqueue[e] \in {"count", "link"}}
AtMost(K) == Cardinality(Between) <= K
Admitted == {e \in Events : \/ enqueue[e] = "link"
                            \/ enqueue[e] = "count" /\ Cardinality(seen[e]) < MaxEvents}
Overrun(K) == Cardinality(spool) + Cardinality(Admitted) < MaxEvents + K

LEMMA CountsTyped ==
    ASSUME Q!OutboxAssumption, Q!TypeOK
    PROVE  /\ IsFiniteSet(spool) /\ Cardinality(spool) \in Nat
           /\ IsFiniteSet(Admitted) /\ Cardinality(Admitted) \in Nat
           /\ IsFiniteSet(Between) /\ Cardinality(Between) \in Nat
           /\ Admitted \in SUBSET Between /\ Cardinality(Admitted) <= Cardinality(Between)
           /\ MaxEvents \in Nat \ {0}
<1>1. Admitted \in SUBSET Between /\ Between \in SUBSET Events /\ spool \in SUBSET Events
  BY DEF Admitted, Between, Q!TypeOK
<1>2. MaxEvents \in Nat \ {0}
  BY DEF Q!OutboxAssumption
<1> QED
  BY <1>1, <1>2, SpoolCounts

(* A step that adds nothing to the disk and admits nobody.                 *)
LEMMA StillOverrun ==
    ASSUME Q!OutboxAssumption, Q!TypeOK, NEW K \in Nat \ {0}, Overrun(K),
           spool' \subseteq spool, Admitted' \subseteq Admitted
    PROVE  Overrun(K)'
<1>1. Cardinality(spool') <= Cardinality(spool) /\ Cardinality(spool') \in Nat
  BY SpoolCounts DEF Q!TypeOK
<1>2. Cardinality(Admitted') <= Cardinality(Admitted) /\ Cardinality(Admitted') \in Nat
  BY SpoolCounts DEF Admitted
<1> QED
  BY <1>1, <1>2, CountsTyped DEF Overrun

LEMMA EnqueueOverrun ==
    ASSUME Q!OutboxAssumption, Q!TypeOK, Q!TypeOK', NEW K \in Nat \ {0}, Overrun(K), AtMost(K)',
           NEW e \in Events, Q!Enqueue(e)
    PROVE  Overrun(K)'
<1>0. \A d \in Events \ {e} : enqueue'[d] = enqueue[d] /\ seen'[d] = seen[d]
  BY DEF Q!Enqueue, Q!Open, Q!Busy, Q!Steal, Q!Unlock, Q!Lock, Q!Scan, Q!Count, Q!Link,
         Q!Clean, Q!Stays, Q!CallFlush, Q!Goto, Q!TypeOK
<1>1. CASE Q!Scan(e)
  <2>1. spool' \subseteq spool /\ enqueue'[e] = "count" /\ seen'[e] = spool'
    BY <1>1 DEF Q!Scan, Q!Purged, Q!Stays, Q!Goto, Q!TypeOK
  <2>2. CASE Cardinality(spool') < MaxEvents
    <3>1. /\ Cardinality(spool') \in Nat /\ Cardinality(Admitted') \in Nat
          /\ Cardinality(Admitted') <= Cardinality(Between') /\ Cardinality(Between') \in Nat
          /\ MaxEvents \in Nat
      <4>1. Admitted' \in SUBSET (Between') /\ Between' \in SUBSET Events /\ spool' \in SUBSET Events
        BY DEF Admitted, Between, Q!TypeOK
      <4> QED
        BY <4>1, SpoolCounts DEF Q!OutboxAssumption
    <3>2. Cardinality(Between') <= K
      BY DEF AtMost
    <3>3. Cardinality(spool') + Cardinality(Admitted') < MaxEvents + K
      BY <2>2, <3>1, <3>2
    <3> QED
      BY <3>3 DEF Overrun
  <2>3. CASE ~(Cardinality(spool') < MaxEvents)
    <3>1. e \notin Admitted'
      BY <2>1, <2>3 DEF Admitted
    <3>2. Admitted' \subseteq Admitted
      BY <1>0, <3>1 DEF Admitted
    <3> QED
      BY <2>1, <3>2, StillOverrun
  <2> QED
    BY <2>2, <2>3
<1>2. CASE Q!Count(e)
  <2>1. /\ spool' = spool /\ enqueue[e] = "count" /\ enqueue'[e] \in {"stumble", "abandon", "link"}
        /\ enqueue'[e] = "link" => ~(Cardinality(seen[e]) >= MaxEvents)
    BY <1>2, SameFinite DEF Q!Count, Q!Stays, Q!Goto, Q!At, Q!TypeOK, Q!diskVars
  <2>2. Cardinality(seen[e]) \in Nat /\ MaxEvents \in Nat
    BY SpoolCounts DEF Q!TypeOK, Q!OutboxAssumption
  <2>3. Admitted' \subseteq Admitted
    BY <1>0, <2>1, <2>2 DEF Admitted
  <2> QED
    BY <2>1, <2>3, StillOverrun
<1>3. CASE Q!Link(e)
  <2>1. /\ enqueue[e] = "link" /\ spool' \in {spool, spool \cup {e}}
        /\ enqueue'[e] \in {"clean", "abandon"}
    BY <1>3 DEF Q!Link, Q!Stays, Q!Goto, Q!At, Q!TypeOK
  <2>2. e \in Admitted /\ e \notin Admitted'
    BY <2>1 DEF Admitted
  <2>3. Admitted' = Admitted \ {e}
    BY <1>0, <2>2 DEF Admitted
  <2>4. Cardinality(Admitted') = Cardinality(Admitted) - 1
    BY <2>2, <2>3, CountsTyped, FS_RemoveElement
  <2>5. Cardinality(spool') \in {Cardinality(spool), Cardinality(spool) + 1}
    BY <2>1, CountsTyped, FS_AddElement
  <2> QED
    BY <2>4, <2>5, CountsTyped DEF Overrun
<1>4. CASE \/ Q!Open(e) \/ Q!Busy(e) \/ Q!Steal(e) \/ Q!Clean(e) \/ Q!Unlock(e) \/ Q!CallFlush(e)
  <2>1. spool' = spool /\ enqueue'[e] \notin {"count", "link"}
    BY <1>4 DEF Q!Open, Q!Busy, Q!Steal, Q!Clean, Q!Unlock, Q!CallFlush, Q!Lock, Q!Stays, Q!Goto,
                Q!Outcome, Q!diskVars, Q!At, Q!TypeOK
  <2>2. Admitted' \subseteq Admitted
    BY <1>0, <2>1 DEF Admitted
  <2> QED
    BY <2>1, <2>2, StillOverrun
<1> QED
  BY <1>1, <1>2, <1>3, <1>4 DEF Q!Enqueue

LEMMA NextOverrun ==
    ASSUME Q!OutboxAssumption, Q!TypeOK, Q!TypeOK', NEW K \in Nat \ {0}, Overrun(K), AtMost(K)',
           [Q!Next]_(Q!outboxVars)
    PROVE  Overrun(K)'
<1>1. ASSUME NEW e \in Events, Q!Enqueue(e) PROVE Overrun(K)'
  BY <1>1, EnqueueOverrun
<1>2. ASSUME NEW e \in Events, Q!Report(e) PROVE Overrun(K)'
  <2>1. UNCHANGED <<spool, seen>>
    BY <1>2 DEF Q!Report, Q!diskVars
  <2>2. Admitted' \subseteq Admitted
    BY <1>2, <2>1 DEF Admitted, Q!Report, Q!Goto, Q!TypeOK
  <2> QED
    BY <2>1, <2>2, StillOverrun
<1>3. CASE Q!Crash
  <2>1. spool' = spool /\ \A e \in Events : enqueue'[e] \notin {"count", "link"}
    BY <1>3 DEF Q!Crash, Q!diskVars, Q!Enqueuing, Q!InQueue
  <2>2. Admitted' \subseteq Admitted
    BY <2>1 DEF Admitted
  <2> QED
    BY <2>1, <2>2, StillOverrun
<1>4. CASE \/ Q!FlushOn
           \/ \E e \in Events : Q!Age(e)
           \/ Q!Start \/ Q!Down \/ Q!Up \/ Q!Schedule("full") \/ Q!Schedule("part")
           \/ Q!Fire \/ Q!Retry \/ Q!Immediate \/ UNCHANGED Q!outboxVars
  <2>1. UNCHANGED <<enqueue, seen>>
    BY <1>4 DEF Q!Age, Q!Start, Q!Down, Q!Up, Q!Schedule, Q!Fire, Q!Retry, Q!Immediate,
                Q!outboxVars, Q!queueVars, Q!FlushOn, Q!List, Q!Pick, Q!Send, Q!Unlink, Q!More,
                Q!FlushStep
  <2>2. spool' \subseteq spool
    BY <1>4 DEF Q!Age, Q!Start, Q!Down, Q!Up, Q!Schedule, Q!Fire, Q!Retry, Q!Immediate,
                Q!outboxVars, Q!diskVars, Q!FlushOn, Q!List, Q!Pick, Q!Send, Q!Unlink, Q!More,
                Q!Purged
  <2>3. Admitted' = Admitted
    BY <2>1 DEF Admitted
  <2> QED
    BY <2>2, <2>3, StillOverrun
<1> QED
  BY <1>1, <1>2, <1>3, <1>4 DEF Q!Next

LEMMA QueueOverrun ==
    ASSUME Q!OutboxAssumption, NEW CONSTANT K \in Nat \ {0}
    PROVE  Q!Spec /\ []AtMost(K) => [](Q!TypeOK /\ Overrun(K))
<1>1. Q!Init => Q!TypeOK /\ Picked /\ Overrun(K)
  <2> SUFFICES ASSUME Q!Init PROVE Overrun(K)
    BY QueueInitTyped DEF Q!Init, Picked
  <2>1. Admitted = {}
    BY DEF Q!Init, Admitted
  <2>2. Cardinality(spool) <= MaxEvents /\ spool \in SUBSET Events
    BY SameFinite DEF Q!Init, Q!OutboxAssumption
  <2>3. Cardinality(Admitted) = 0 /\ Cardinality(spool) \in Nat /\ MaxEvents \in Nat
    BY <2>1, <2>2, FS_EmptySet, SpoolCounts DEF Q!OutboxAssumption
  <2> QED
    BY <2>2, <2>3 DEF Overrun
<1>2. Q!TypeOK /\ Picked /\ Overrun(K) /\ AtMost(K)' /\ [Q!Next]_(Q!outboxVars)
         => (Q!TypeOK /\ Picked /\ Overrun(K))'
  BY NextTyped, NextOverrun
<1> QED
  BY <1>1, <1>2, PTL DEF Q!Spec

(* The queue exceeds its cap by fewer than have read the directory and not *)
(* linked at any one time (telemetry-outbox.js:37-90), whatever dies,     *)
(* whichever lock is stolen, and whatever the timers do.                   *)
THEOREM QueueOverrunIsBounded ==
    ASSUME Q!OutboxAssumption, NEW CONSTANT K \in Nat \ {0}
    PROVE  Q!Spec /\ []AtMost(K) => [](Cardinality(spool) <= MaxEvents + K - 1)
<1>1. Q!TypeOK /\ Overrun(K) => Cardinality(spool) <= MaxEvents + K - 1
  BY CountsTyped DEF Overrun
<1> QED
  BY <1>1, QueueOverrun, PTL

(* ------------------------- What the queue keeps ------------------------ *)

(* The events whose enqueue returned, those that have left the disk, and   *)
(* all that have ever been there.                                          *)
Acked == {e \in Events : Q!At(e, "kept")}
Gone == (received \cup expired) \ spool
Ever == spool \cup received \cup expired

(* An event is on disk only once it was linked, and the flush sends only   *)
(* what was there.                                                         *)
Early == {"new", "open", "steal", "scan", "count", "link"}
Unseen == /\ \A e \in Events : enqueue[e] \in Early => e \notin Ever
          /\ flushing = "send" => Q!Min(todo) \in Ever

Stored(e) == /\ enqueue[e] = "link" /\ enqueue'[e] = "clean"
             /\ spool' = spool \cup {e} /\ UNCHANGED <<received, expired>>
Discarded(X) == spool' = spool \ X /\ Gone' = Gone \cup X

(* What a step does to the disk.                                           *)
DiskStep == \/ UNCHANGED <<spool, Gone, Ever>>
            \/ \E e \in Events : Stored(e)
            \/ \E X \in SUBSET spool : Discarded(X) /\ UNCHANGED Ever

LEMMA PurgeDiscards == ASSUME Q!Purged, UNCHANGED received
                       PROVE  \E X \in SUBSET spool : Discarded(X) /\ UNCHANGED Ever
<1>1. spool' = spool \ (spool \cap aged) /\ expired' = expired \cup (spool \cap aged)
  BY DEF Q!Purged
<1>2. Gone' = Gone \cup (spool \cap aged) /\ Ever' = Ever
  BY <1>1 DEF Gone, Ever
<1> QED
  BY <1>1, <1>2 DEF Discarded

LEMMA EnqueueOnDisk ==
    ASSUME Q!TypeOK, NEW e \in Events, Q!Enqueue(e) PROVE DiskStep
<1>1. CASE Q!Scan(e)
  BY <1>1, PurgeDiscards DEF Q!Scan, Q!Stays, Q!serviceVars, DiskStep
<1>2. CASE Q!Link(e)
  <2>1. CASE spool' = spool
    BY <1>2, <2>1 DEF Q!Link, Q!Stays, Q!serviceVars, DiskStep, Gone, Ever
  <2>2. CASE spool' = spool \cup {e} /\ Q!Stays(e, "clean")
    BY <1>2, <2>2 DEF Q!Link, Q!Stays, Q!At, Q!Goto, Q!TypeOK, Q!serviceVars, DiskStep, Stored
  <2> QED
    BY <1>2, <2>1, <2>2 DEF Q!Link
<1>3. CASE \/ Q!Open(e) \/ Q!Busy(e) \/ Q!Steal(e) \/ Q!Count(e) \/ Q!Clean(e) \/ Q!Unlock(e)
           \/ Q!CallFlush(e)
  <2>1. UNCHANGED <<spool, received, expired>>
    BY <1>3 DEF Q!Open, Q!Busy, Q!Steal, Q!Count, Q!Clean, Q!Unlock, Q!CallFlush, Q!Lock, Q!Stays,
                Q!diskVars, Q!serviceVars
  <2> QED
    BY <2>1 DEF DiskStep, Gone, Ever
<1> QED
  BY <1>1, <1>2, <1>3 DEF Q!Enqueue

LEMMA FlushOnDisk == ASSUME Q!TypeOK, Safe, Unseen, Q!FlushOn PROVE DiskStep
<1>1. CASE Q!List
  <2>1. CASE Q!Purged
    BY <1>1, <2>1, PurgeDiscards DEF Q!List, Q!serviceVars, DiskStep
  <2>2. CASE UNCHANGED Q!diskVars
    BY <1>1, <2>2 DEF Q!List, Q!diskVars, Q!serviceVars, DiskStep, Gone, Ever
  <2> QED
    BY <1>1, <2>1, <2>2 DEF Q!List
<1>2. CASE Q!Send
  <2>1. /\ Q!Min(todo) \in Ever /\ UNCHANGED <<spool, expired>>
        /\ received' \in {received, received \cup {Q!Min(todo)}}
    BY <1>2 DEF Q!Send, Q!diskVars, Unseen
  <2>2. Ever' = Ever /\ Gone' = Gone
    BY <2>1 DEF Ever, Gone
  <2> QED
    BY <2>1, <2>2 DEF DiskStep
<1>3. CASE Q!Unlink
  <2> DEFINE X == spool \ spool'
  <2>1. /\ Q!Min(todo) \in received /\ UNCHANGED <<received, expired>>
        /\ spool' = spool \/ spool' = spool \ {Q!Min(todo)}
    BY <1>3 DEF Q!Unlink, Safe, Q!serviceVars
  <2>2. X \in SUBSET spool /\ spool' = spool \ X /\ Gone' = Gone \cup X /\ Ever' = Ever
    BY <2>1 DEF Ever, Gone
  <2> QED
    BY <2>2 DEF DiskStep, Discarded
<1>4. CASE Q!Pick \/ Q!More
  BY <1>4 DEF Q!Pick, Q!More, Q!diskVars, Q!serviceVars, DiskStep, Gone, Ever
<1> QED
  BY <1>1, <1>2, <1>3, <1>4 DEF Q!FlushOn

LEMMA NextOnDisk ==
    ASSUME Q!TypeOK, Safe, Unseen, [Q!Next]_(Q!outboxVars) PROVE DiskStep
<1>1. CASE \/ \E e \in Events : Q!Age(e) \/ Q!Report(e)
           \/ Q!Start \/ Q!Crash \/ Q!Down \/ Q!Up \/ Q!Schedule("full") \/ Q!Schedule("part")
           \/ Q!Fire \/ Q!Retry \/ Q!Immediate \/ UNCHANGED Q!outboxVars
  <2>1. UNCHANGED <<spool, received, expired>>
    BY <1>1 DEF Q!Age, Q!Report, Q!Start, Q!Crash, Q!Down, Q!Up, Q!Schedule, Q!Fire, Q!Retry,
                Q!Immediate, Q!outboxVars, Q!diskVars, Q!serviceVars
  <2> QED
    BY <2>1 DEF DiskStep, Gone, Ever
<1> QED
  BY <1>1, EnqueueOnDisk, FlushOnDisk DEF Q!Next

(* An enqueue that has not linked yet does not come back to it.            *)
LEMMA EarlyStays ==
    ASSUME Q!TypeOK, [Q!Next]_(Q!outboxVars), NEW d \in Events, enqueue'[d] \in Early
    PROVE  enqueue[d] \in Early
<1> USE DEF Early, Q!Goto, Q!At, Q!TypeOK
<1>1. ASSUME NEW e \in Events,
             \/ Q!Open(e) \/ Q!Busy(e) \/ Q!Steal(e) \/ Q!Scan(e) \/ Q!Count(e) \/ Q!Report(e)
      PROVE  enqueue[d] \in Early
  BY <1>1 DEF Q!Open, Q!Busy, Q!Steal, Q!Scan, Q!Count, Q!Report, Q!Lock, Q!Stays
<1>2. ASSUME NEW e \in Events, Q!Link(e) \/ Q!Clean(e) \/ Q!Unlock(e) \/ Q!CallFlush(e)
      PROVE  enqueue[d] \in Early
  BY <1>2 DEF Q!Link, Q!Clean, Q!Unlock, Q!Outcome, Q!CallFlush, Q!Lock, Q!Stays
<1>3. CASE Q!Crash
  BY <1>3 DEF Q!Crash
<1>4. CASE \/ Q!FlushOn
           \/ \E e \in Events : Q!Age(e)
           \/ Q!Start \/ Q!Down \/ Q!Up \/ Q!Schedule("full") \/ Q!Schedule("part")
           \/ Q!Fire \/ Q!Retry \/ Q!Immediate \/ UNCHANGED Q!outboxVars
  <2>1. UNCHANGED enqueue
    BY <1>4 DEF Q!Age, Q!Start, Q!Down, Q!Up, Q!Schedule, Q!Fire, Q!Retry, Q!Immediate,
                Q!outboxVars, Q!queueVars, Q!FlushOn, Q!List, Q!Pick, Q!Send, Q!Unlink, Q!More,
                Q!FlushStep
  <2> QED
    BY <2>1
<1> QED
  BY <1>1, <1>2, <1>3, <1>4 DEF Q!Next, Q!Enqueue

LEMMA NextUnseen ==
    ASSUME Q!TypeOK, Safe, Unseen, [Q!Next]_(Q!outboxVars) PROVE Unseen'
<1>1. Ever \subseteq Ever' /\ (Ever' = Ever \/ \E e \in Events : Stored(e) /\ Ever' = Ever \cup {e})
  BY NextOnDisk DEF DiskStep, Stored, Ever
<1>2. ASSUME NEW d \in Events, enqueue'[d] \in Early PROVE d \notin Ever'
  <2>1. d \notin Ever
    BY <1>2, EarlyStays DEF Unseen
  <2>2. ASSUME NEW e \in Events, Stored(e) PROVE e # d
    BY <1>2, <2>2 DEF Stored, Early
  <2> QED
    BY <1>1, <2>1, <2>2
<1>3. ASSUME flushing' = "send" PROVE Q!Min(todo') \in Ever'
  <2>1. CASE Q!FlushOn
    <3>1. Q!Pick
      BY <1>3, <2>1 DEF Q!FlushOn, Q!List, Q!Send, Q!Unlink, Q!More, Q!End, Q!Reach
    <3>2. todo' = todo /\ Q!Min(todo) \in spool
      BY <1>3, <3>1 DEF Q!Pick, Q!Reach
    <3> QED
      BY <1>1, <3>2 DEF Ever
  <2>2. CASE ~Q!FlushOn
    <3>1. flushing = "send" /\ todo' = todo
      BY <1>3, <2>2 DEF Q!Next, Q!Enqueue, Q!Open, Q!Busy, Q!Steal, Q!Unlock, Q!Lock, Q!Scan,
         Q!Count, Q!Link, Q!Clean, Q!Stays, Q!CallFlush, Q!Flush, Q!Report, Q!Age, Q!Start,
         Q!Crash, Q!Down, Q!Up, Q!Schedule, Q!Fire, Q!Retry, Q!Immediate, Q!outboxVars, Q!flushVars
    <3> QED
      BY <1>1, <3>1 DEF Unseen
  <2> QED
    BY <2>1, <2>2
<1> QED
  BY <1>2, <1>3 DEF Unseen

(* The calls that have returned: one more, or the same.                    *)
LEMMA NextAcked ==
    ASSUME Q!TypeOK, Safe, [Q!Next]_(Q!outboxVars)
    PROVE  \/ Acked' = Acked
           \/ \E e \in Events : /\ e \in Ever /\ Acked' = Acked \cup {e}
                                /\ UNCHANGED <<spool, Gone>>
<1> USE DEF Q!Goto, Q!At, Q!TypeOK
<1>1. ASSUME NEW e \in Events, Q!CallFlush(e)
      PROVE  e \in Ever /\ Acked' = Acked \cup {e} /\ UNCHANGED <<spool, Gone>>
  <2>1. e \in Ever
    BY <1>1 DEF Q!CallFlush, Safe, Linked, Ever
  <2>2. UNCHANGED <<spool, received, expired>> /\ enqueue' = [enqueue EXCEPT ![e] = "kept"]
    BY <1>1 DEF Q!CallFlush, Q!diskVars, Q!serviceVars
  <2> QED
    BY <2>1, <2>2 DEF Acked, Gone
<1>2. ASSUME NEW e \in Events,
             \/ Q!Open(e) \/ Q!Busy(e) \/ Q!Steal(e) \/ Q!Scan(e) \/ Q!Count(e) \/ Q!Report(e)
      PROVE  Acked' = Acked
  BY <1>2 DEF Q!Open, Q!Busy, Q!Steal, Q!Scan, Q!Count, Q!Report, Q!Lock, Q!Stays, Acked
<1>3. ASSUME NEW e \in Events, Q!Link(e) \/ Q!Clean(e) \/ Q!Unlock(e) PROVE Acked' = Acked
  BY <1>3 DEF Q!Link, Q!Clean, Q!Unlock, Q!Outcome, Q!Lock, Q!Stays, Acked
<1>4. CASE Q!Crash
  BY <1>4 DEF Q!Crash, Acked, Q!Enqueuing, Q!InQueue
<1>5. CASE \/ Q!FlushOn
           \/ \E e \in Events : Q!Age(e)
           \/ Q!Start \/ Q!Down \/ Q!Up \/ Q!Schedule("full") \/ Q!Schedule("part")
           \/ Q!Fire \/ Q!Retry \/ Q!Immediate \/ UNCHANGED Q!outboxVars
  <2>1. UNCHANGED enqueue
    BY <1>5 DEF Q!Age, Q!Start, Q!Down, Q!Up, Q!Schedule, Q!Fire, Q!Retry, Q!Immediate,
                Q!outboxVars, Q!queueVars, Q!FlushOn, Q!List, Q!Pick, Q!Send, Q!Unlink, Q!More,
                Q!FlushStep
  <2> QED
    BY <2>1 DEF Acked
<1> QED
  BY <1>1, <1>2, <1>3, <1>4, <1>5 DEF Q!Next, Q!Enqueue


LEMMA InitUnseen == ASSUME Q!Init PROVE Unseen
  BY DEF Q!Init, Unseen, Early, Ever

(* DurableSpool with room for K - 1 events more than the cap.              *)
Durable(K) == INSTANCE DurableSpool WITH
                  acked <- Acked, gone <- Gone, MaxEvents <- MaxEvents + K - 1

LEMMA SameDurable == \A K, S : Durable(K)!Cardinality(S) = Cardinality(S)
  BY DEF Durable!Cardinality, Cardinality

(* What is linked was admitted, and so there was room for it.              *)
LEMMA StoredFits ==
    ASSUME Q!OutboxAssumption, Q!TypeOK, Unseen, NEW K \in Nat \ {0}, Overrun(K),
           NEW e \in Events, Stored(e)
    PROVE  e \notin spool /\ Gone' = Gone /\ Cardinality(spool) < MaxEvents + K - 1
<1>1. e \notin Ever
  BY DEF Stored, Unseen, Early
<1>2. Gone' = Gone
  BY <1>1 DEF Stored, Gone, Ever
<1>3. e \in Admitted
  BY DEF Stored, Admitted
<1>4. Cardinality(Admitted) \in Nat /\ Cardinality(Admitted) # 0
  BY <1>3, CountsTyped, FS_EmptySet
<1>5. Cardinality(spool) < MaxEvents + K - 1
  BY <1>4, CountsTyped DEF Overrun
<1> QED
  BY <1>1, <1>2, <1>5 DEF Ever

(* The queue keeps what its callers were told is safe, and exceeds its cap *)
(* by fewer than K, whatever dies, whichever lock is stolen, and whatever  *)
(* the flushes and the timers do (telemetry-outbox.js): it implements the  *)
(* same specification as the outbox of the Hermes plugin.                  *)
THEOREM QueueImplementsSpool ==
    ASSUME Q!OutboxAssumption, NEW CONSTANT K \in Nat \ {0}
    PROVE  Q!Spec /\ []AtMost(K) => Durable(K)!Spec
<1> DEFINE Inv == Q!TypeOK /\ Picked /\ Safe /\ Unseen
<1>1. Q!Init => Inv /\ Durable(K)!Init
  <2> SUFFICES ASSUME Q!Init PROVE Inv /\ Durable(K)!Init
    OBVIOUS
  <2>1. Inv
    BY QueueInitTyped, InitSafe, InitUnseen DEF Q!Init, Picked
  <2>2. spool \in SUBSET Events /\ Acked \in SUBSET spool /\ Gone = {}
    BY DEF Q!Init, Q!OutboxAssumption, Acked, Gone, Q!At
  <2>3. Cardinality(spool) <= MaxEvents + K - 1
    <3>1. Cardinality(spool) <= MaxEvents
      BY SameFinite DEF Q!Init, Q!OutboxAssumption
    <3> QED
      BY <2>2, <3>1, SpoolCounts DEF Q!OutboxAssumption
  <2> QED
    BY <2>1, <2>2, <2>3, SameDurable DEF Durable!Init
<1>2. Inv /\ [Q!Next]_(Q!outboxVars) => Inv'
  BY NextTyped, NextSafe, NextUnseen
<1>3. Inv /\ Overrun(K) /\ [Q!Next]_(Q!outboxVars) => [Durable(K)!Next]_(Durable(K)!spoolVars)
  <2> SUFFICES ASSUME Q!TypeOK, Picked, Safe, Unseen, Overrun(K), [Q!Next]_(Q!outboxVars)
               PROVE  [Durable(K)!Next]_(Durable(K)!spoolVars)
    OBVIOUS
  <2> USE DEF Durable!spoolVars, Durable!Next
  <2>1. CASE Acked' = Acked
    <3>1. CASE UNCHANGED <<spool, Gone>>
      BY <2>1, <3>1
    <3>2. ASSUME NEW e \in Events, Stored(e) PROVE Durable(K)!Next
      <4>1. Durable(K)!Store(e)
        BY <2>1, <3>2, StoredFits, SameDurable DEF Durable!Store, Stored
      <4> QED
        BY <4>1
    <3>3. ASSUME NEW X \in SUBSET spool, Discarded(X) PROVE Durable(K)!Next
      BY <2>1, <3>3 DEF Durable!Discard, Discarded
    <3> QED
      BY <3>1, <3>2, <3>3, NextOnDisk DEF DiskStep
  <2>2. ASSUME NEW e \in Events, e \in Ever, Acked' = Acked \cup {e}, UNCHANGED <<spool, Gone>>
        PROVE  Durable(K)!Next
    <3>1. Durable(K)!Acknowledge(e)
      BY <2>2 DEF Durable!Acknowledge, Ever, Gone
    <3> QED
      BY <3>1
  <2> QED
    BY <2>1, <2>2, NextAcked
<1>4. Q!Spec /\ []AtMost(K) => []Overrun(K)
  BY QueueOverrun, PTL
<1> HIDE DEF Inv
<1> QED
  BY <1>1, <1>2, <1>3, <1>4, PTL DEF Q!Spec, Durable!Spec

(* While no lock is left for stale there is one enqueue at a time between  *)
(* reading the directory and linking, and the cap is kept.                 *)
LEMMA OneBetween ==
    ASSUME Q!TypeOK, Capped, ~derelict, NEW K \in Nat \ {0} PROVE AtMost(K)
<1>1. \A d, e \in Between : d = e
  BY DEF Capped, Exclusive, Between, Q!InQueue
<1>2. CASE Between = {}
  BY <1>2, FS_EmptySet DEF AtMost
<1>3. ASSUME NEW d \in Between PROVE AtMost(K)
  <2>1. Between = {d}
    BY <1>1, <1>3
  <2>2. Cardinality(Between) = 1
    BY <2>1, FS_Singleton
  <2> QED
    BY <2>2 DEF AtMost
<1> QED
  BY <1>2, <1>3

LEMMA AlwaysCapped == ASSUME Q!OutboxAssumption
                      PROVE  Q!Spec => [](Q!TypeOK /\ Picked /\ Safe /\ Capped)
<1>1. Q!Init => Q!TypeOK /\ Picked /\ Safe /\ Capped
  BY QueueInitTyped, InitSafe, InitCapped DEF Q!Init, Picked
<1>2. Q!TypeOK /\ Picked /\ Safe /\ Capped /\ [Q!Next]_(Q!outboxVars)
         => (Q!TypeOK /\ Picked /\ Safe /\ Capped)'
  BY NextTyped, NextSafe, NextCapped
<1> QED
  BY <1>1, <1>2, PTL DEF Q!Spec

(* Until a lock is left for stale the queue implements it with any cap,    *)
(* and so with that of the code (K = 1): of a gateway that nothing kills   *)
(* while it has the lock, even where it fails to remove one.               *)
THEOREM LivingQueueImplementsSpool ==
    ASSUME Q!OutboxAssumption, NEW CONSTANT K \in Nat \ {0}
    PROVE  Q!Spec /\ []~derelict => Durable(K)!Spec
<1>1. Q!TypeOK /\ Capped /\ ~derelict => AtMost(K)
  BY OneBetween
<1>2. Q!Spec /\ []AtMost(K) => Durable(K)!Spec
  BY QueueImplementsSpool
<1> QED
  BY <1>1, <1>2, AlwaysCapped, PTL

(* ------------------- When an enqueue fails for a cause ----------------- *)

(* No flush purges or removes while an enqueue looks at the files of the   *)
(* directory that it read.                                                 *)
Serial == flushing \in {"list", "unlink"} => \A e \in Events : ~Q!At(e, "count")

(* So it finds all of them.                                                *)
Finds == /\ \A e \in Events : Q!At(e, "count") => seen[e] \subseteq spool
         /\ \A e \in Events : enqueue[e] \notin {"stumble", "vanished"}

LEMMA EnqueueFinds ==
    ASSUME Q!TypeOK, Exclusive, Finds, NEW e \in Events, Q!Enqueue(e) PROVE Finds'
<1>0. \A d \in Events \ {e} : enqueue'[d] = enqueue[d] /\ seen'[d] = seen[d]
  BY DEF Q!Enqueue, Q!Open, Q!Busy, Q!Steal, Q!Unlock, Q!Lock, Q!Scan, Q!Count, Q!Link,
         Q!Clean, Q!Stays, Q!CallFlush, Q!Goto, Q!TypeOK
<1>1. CASE Q!Scan(e)
  <2>1. enqueue'[e] = "count" /\ seen'[e] = spool' /\ enqueue[e] = "scan"
    BY <1>1 DEF Q!Scan, Q!Stays, Q!Goto, Q!At, Q!TypeOK
  <2>2. \A d \in Events \ {e} : enqueue'[d] # "count"
    BY <1>0, <2>1 DEF Exclusive, Q!InQueue
  <2> QED
    BY <1>0, <2>1, <2>2 DEF Finds, Q!At
<1>2. CASE Q!Count(e)
  <2>1. enqueue[e] = "count" /\ enqueue'[e] \in {"abandon", "link"} /\ spool' = spool
    BY <1>2 DEF Q!Count, Q!Stays, Q!Goto, Q!At, Q!TypeOK, Q!diskVars, Finds
  <2> QED
    BY <1>0, <2>1 DEF Finds, Q!At
<1>3. CASE \/ Q!Open(e) \/ Q!Busy(e) \/ Q!Steal(e) \/ Q!Link(e) \/ Q!Clean(e) \/ Q!Unlock(e)
           \/ Q!CallFlush(e)
  <2>1. spool \subseteq spool' /\ enqueue'[e] \notin {"count", "stumble", "vanished"}
    BY <1>3 DEF Q!Open, Q!Busy, Q!Steal, Q!Link, Q!Clean, Q!Unlock, Q!CallFlush, Q!Lock, Q!Stays,
                Q!Outcome, Q!Goto, Q!diskVars, Q!At, Q!TypeOK, Finds
  <2> QED
    BY <1>0, <2>1 DEF Finds, Q!At
<1> QED
  BY <1>1, <1>2, <1>3 DEF Q!Enqueue

LEMMA NextFinds ==
    ASSUME Q!TypeOK, Exclusive, Serial, Finds, [Q!Next]_(Q!outboxVars) PROVE Finds'
<1>1. CASE Q!Crash
  BY <1>1 DEF Q!Crash, Q!Enqueuing, Q!InQueue, Finds, Q!At
<1>2. ASSUME NEW e \in Events, Q!Report(e) PROVE Finds'
  BY <1>2 DEF Q!Report, Q!Goto, Q!At, Q!TypeOK, Q!diskVars, Finds
<1>3. CASE Q!List \/ Q!Unlink
  <2>1. UNCHANGED <<enqueue, seen>> /\ \A e \in Events : ~Q!At(e, "count")
    BY <1>3 DEF Q!List, Q!Unlink, Q!FlushStep, Q!queueVars, Serial
  <2> QED
    BY <2>1 DEF Finds, Q!At
<1>4. CASE \/ Q!Pick \/ Q!Send \/ Q!More
           \/ \E e \in Events : Q!Age(e)
           \/ Q!Start \/ Q!Down \/ Q!Up \/ Q!Schedule("full") \/ Q!Schedule("part")
           \/ Q!Fire \/ Q!Retry \/ Q!Immediate \/ UNCHANGED Q!outboxVars
  <2>1. UNCHANGED <<enqueue, seen, spool>>
    BY <1>4 DEF Q!Age, Q!Start, Q!Down, Q!Up, Q!Schedule, Q!Fire, Q!Retry, Q!Immediate,
                Q!outboxVars, Q!queueVars, Q!diskVars, Q!Pick, Q!Send, Q!More, Q!FlushStep
  <2> QED
    BY <2>1 DEF Finds, Q!At
<1> QED
  BY <1>1, <1>2, <1>3, <1>4, EnqueueFinds DEF Q!Next, Q!FlushOn

(* Where no lock is left for stale, an enqueue can only stumble over a     *)
(* flush of its own process: one that never purges or removes while an     *)
(* enqueue counts is all that it takes (telemetry-outbox.js:56-62, 115,    *)
(* 133).                                                                   *)
THEOREM SerialFailsForCause ==
    ASSUME Q!OutboxAssumption
    PROVE  Q!Spec /\ []Serial /\ []~derelict => []Q!FailsForCause
<1>1. Q!Init => Finds
  BY DEF Q!Init, Finds, Q!At
<1>2. Q!TypeOK /\ Capped /\ ~derelict /\ Serial /\ Finds /\ [Q!Next]_(Q!outboxVars) => Finds'
  BY NextFinds DEF Capped
<1>3. Finds => Q!FailsForCause
  BY DEF Finds, Q!FailsForCause, Q!At
<1> QED
  BY <1>1, <1>2, <1>3, AlwaysCapped, PTL DEF Q!Spec
=============================================================================

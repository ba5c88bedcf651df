-------------------------- MODULE SchedulerProofs --------------------------
(* Proofs about SchedulerRefresh, for any tasks, threads, expressions and   *)
(* bounds.                                                                 *)
EXTENDS SchedulerRefresh, TLAPS

-----------------------------------------------------------------------------
(* Type correctness.                                                       *)

LEMMA ExpressionType ==
  ASSUME TypeOK, NEW j \in Timer
  PROVE  Expression(j) \in Cron \cup {NoCron}
BY DEF Expression, TypeOK, Timer, Kind, Row

LEMMA WriteTyped ==
  ASSUME TypeOK, NEW h \in Handler, NEW t \in Task, NEW r \in Row, Write(h, t, r)
  PROVE  TypeOK'
BY DEF TypeOK, Write, Happens, Event

LEMMA InitTyped == Init => TypeOK
<1> SUFFICES ASSUME Init PROVE TypeOK
  OBVIOUS
<1>1. config \in [Task -> Row]
  BY DEF Init, Row
<1>2. timers \in [Timer -> Cron \cup {NoCron}]
  BY DEF Init
<1>3. /\ pc \in [Handler -> {"idle", "clear", "read", "add"}]
      /\ selected \in [Handler -> SUBSET (Timer \X Cron)]
      /\ \A h \in Handler : pc[h] = "add" <=> selected[h] # {}
  BY DEF Init
<1>4. count \in [Event -> Nat]
  BY DEF Init
<1> QED
  BY <1>1, <1>2, <1>3, <1>4 DEF Init, TypeOK

LEMMA StepTyped == TypeOK /\ [Next]_vars => TypeOK'
<1> SUFFICES ASSUME TypeOK, [Next]_vars PROVE TypeOK'
  OBVIOUS
<1>1. ASSUME NEW h \in Handler, NEW t \in Task, AddTask(h, t) PROVE TypeOK'
  BY <1>1, WriteTyped DEF AddTask
<1>2. ASSUME NEW h \in Handler, NEW t \in Task, UpdateTask(h, t) PROVE TypeOK'
  <2>1. PICK s \in Cron \cup {NoCron}, c \in Cron \cup {NoCron} :
          Write(h, t, [config[t] EXCEPT !.sync = s, !.clean = c])
    BY <1>2 DEF UpdateTask
  <2>2. [config[t] EXCEPT !.sync = s, !.clean = c] \in Row
    <3>1. config[t] \in Row
      BY DEF TypeOK
    <3> QED
      BY <3>1 DEF Row
  <2> QED
    BY <2>1, <2>2, WriteTyped
<1>3. ASSUME NEW t \in Task, DeleteTask(t) PROVE TypeOK'
  <2>1. [config[t] EXCEPT !.row = "deleted"] \in Row
    BY DEF TypeOK, Row
  <2> QED
    BY <1>3, <2>1, WriteTyped DEF DeleteTask, Handler
<1>4. ASSUME NEW t \in Task, ChangeStatus(t) PROVE TypeOK'
  <2>1. PICK b \in BOOLEAN : Write(EventLoop, t, [config[t] EXCEPT !.on = b])
    BY <1>4 DEF ChangeStatus
  <2>2. [config[t] EXCEPT !.on = b] \in Row
    BY DEF TypeOK, Row
  <2> QED
    BY <2>1, <2>2, WriteTyped DEF Handler
<1>5. ASSUME NEW h \in Handler, Clear(h) PROVE TypeOK'
  BY <1>5 DEF Clear, TypeOK
<1>6. ASSUME NEW h \in Handler, Read(h) PROVE TypeOK'
  <2>1. {<<j, Expression(j)>> : j \in Wanted} \in SUBSET (Timer \X Cron)
    BY ExpressionType DEF Wanted
  <2>2. {<<j, Expression(j)>> : j \in Wanted} = {} <=> Wanted = {}
    OBVIOUS
  <2> QED
    BY <1>6, <2>1, <2>2 DEF Read, TypeOK
<1>7. ASSUME NEW h \in Handler, ReadFails(h) PROVE TypeOK'
  BY <1>7 DEF ReadFails, TypeOK, Happens, Event
<1>8. ASSUME NEW h \in Handler, AddTimer(h) PROVE TypeOK'
  BY <1>8 DEF AddTimer, TypeOK
<1>9. CASE Restart
  <2>1. timers' \in [Timer -> Cron \cup {NoCron}]
    BY <1>9, ExpressionType DEF Restart
  <2>2. /\ pc' \in [Handler -> {"idle", "clear", "read", "add"}]
        /\ selected' \in [Handler -> SUBSET (Timer \X Cron)]
        /\ \A h \in Handler : pc'[h] = "add" <=> selected'[h] # {}
    BY <1>9 DEF Restart
  <2>3. count' \in [Event -> Nat]
    BY <1>9 DEF Restart, Happens, TypeOK, Event
  <2> QED
    BY <1>9, <2>1, <2>2, <2>3 DEF Restart, TypeOK
<1>10. CASE UNCHANGED vars
  BY <1>10 DEF vars, TypeOK
<1> QED
  BY <1>1, <1>2, <1>3, <1>4, <1>5, <1>6, <1>7, <1>8, <1>9, <1>10 DEF Next

(* Every state is type-correct.                                            *)
THEOREM Typing == Spec => []TypeOK
BY InitTyped, StepTyped, PTL DEF Spec

-----------------------------------------------------------------------------
(* No timer is lost.                                                       *)

(* A timer that is wanted is there, or comes: some handler has its SELECT   *)
(* still to do, or has selected the timer and not added it yet.             *)
Coming(j) ==
  \/ timers[j] # NoCron
  \/ \E h \in Handler : pc[h] \in {"clear", "read"}
  \/ \E h \in Handler : \E x \in selected[h] : x[1] = j

AllComing == ~failed => \A j \in Wanted : Coming(j)

LEMMA WriteComing ==
  ASSUME TypeOK, NEW h \in Handler, NEW t, NEW r, Write(h, t, r)
  PROVE  AllComing'
BY DEF TypeOK, Write, AllComing, Coming

LEMMA StepComing == TypeOK /\ AllComing /\ [Next]_vars => AllComing'
<1> SUFFICES ASSUME TypeOK, AllComing, [Next]_vars PROVE AllComing'
  OBVIOUS
<1>1. ASSUME NEW h \in Handler, NEW t \in Task, AddTask(h, t) PROVE AllComing'
  BY <1>1, WriteComing DEF AddTask
<1>2. ASSUME NEW h \in Handler, NEW t \in Task, UpdateTask(h, t) PROVE AllComing'
  BY <1>2, WriteComing DEF UpdateTask
<1>3. ASSUME NEW t \in Task, DeleteTask(t) PROVE AllComing'
  BY <1>3, WriteComing DEF DeleteTask, Handler
<1>4. ASSUME NEW t \in Task, ChangeStatus(t) PROVE AllComing'
  BY <1>4, WriteComing DEF ChangeStatus, Handler
<1>5. ASSUME NEW h \in Handler, Clear(h) PROVE AllComing'
  BY <1>5 DEF Clear, TypeOK, AllComing, Coming
<1>6. ASSUME NEW h \in Handler, Read(h) PROVE AllComing'
  <2>1. Wanted' = Wanted
    BY <1>6 DEF Read, Wanted, Expression, Chosen
  <2> SUFFICES ASSUME NEW j \in Wanted PROVE Coming(j)'
    BY <2>1 DEF AllComing
  <2>2. <<j, Expression(j)>> \in selected'[h]
    BY <1>6 DEF Read, TypeOK
  <2> QED
    BY <2>2 DEF Coming
<1>7. ASSUME NEW h \in Handler, ReadFails(h) PROVE AllComing'
  BY <1>7 DEF ReadFails, AllComing
<1>8. ASSUME NEW h \in Handler, AddTimer(h) PROVE AllComing'
  <2>1. PICK x \in selected[h] :
          /\ timers' = [timers EXCEPT ![x[1]] = x[2]]
          /\ selected' = [selected EXCEPT ![h] = @ \ {x}]
          /\ pc' = [pc EXCEPT ![h] = IF selected'[h] = {} THEN "idle" ELSE "add"]
          /\ UNCHANGED <<config, failed>>
    BY <1>8 DEF AddTimer
  <2>2. x[1] \in Timer /\ x[2] \in Cron /\ pc[h] = "add"
    BY DEF TypeOK
  <2>3. Wanted' = Wanted
    BY <2>1 DEF Wanted, Expression, Chosen
  <2> SUFFICES ASSUME ~failed, NEW j \in Wanted PROVE Coming(j)'
    BY <2>1, <2>3 DEF AllComing
  <2>4. CASE timers[j] # NoCron \/ x[1] = j
    BY <2>1, <2>2, <2>4, CronAssumption DEF TypeOK, Wanted, Coming
  <2>5. CASE \E g \in Handler : pc[g] \in {"clear", "read"}
    BY <2>1, <2>2, <2>5 DEF TypeOK, Coming
  <2>6. ASSUME NEW g \in Handler, NEW y \in selected[g], y[1] = j, x[1] # j
        PROVE  Coming(j)'
    <3>1. y \in selected'[g]
      BY <2>1, <2>6 DEF TypeOK
    <3> QED
      BY <2>6, <3>1 DEF Coming
  <2> QED
    BY <2>4, <2>5, <2>6 DEF AllComing, Coming
<1>9. CASE Restart
  BY <1>9 DEF Restart, AllComing, Coming, Wanted, Expression, Chosen
<1>10. CASE UNCHANGED vars
  BY <1>10 DEF vars, AllComing, Coming, Wanted, Expression, Chosen
<1> QED
  BY <1>1, <1>2, <1>3, <1>4, <1>5, <1>6, <1>7, <1>8, <1>9, <1>10 DEF Next

(* When the refreshes are over, however they overlapped, every timer of the  *)
(* table is there, unless a SELECT failed.                                 *)
THEOREM Kept == Spec => []NoTimerLost
<1>1. Init => AllComing
  <2> SUFFICES ASSUME Init PROVE Wanted = {}
    BY DEF AllComing
  <2>1. \A j \in Timer : ~Chosen(j[1])
    BY DEF Init, Chosen, Timer
  <2> QED
    BY <2>1 DEF Wanted, Expression
<1>2. TypeOK /\ AllComing => NoTimerLost
  BY DEF TypeOK, AllComing, Coming, NoTimerLost, Quiet
<1> QED
  BY <1>1, <1>2, StepComing, Typing, PTL DEF Spec

-----------------------------------------------------------------------------
(* Refreshes one after the other.                                          *)

(* What the timers are at each step of a refresh that nobody disturbs.      *)
Undisturbed ==
  ~overlapped =>
    /\ \A g, h \in Handler : pc[g] # "idle" /\ pc[h] # "idle" => g = h
    /\ ~failed =>
         /\ Quiet => \A j \in Timer : timers[j] = Expression(j)
         /\ \A h \in Handler : pc[h] = "read" => \A j \in Timer : timers[j] = NoCron
         /\ \A h \in Handler : \A x \in selected[h] : x[2] = Expression(x[1])
         /\ \A h \in Handler : pc[h] = "add" =>
              \A j \in Timer : \/ timers[j] = Expression(j)
                               \/ \E x \in selected[h] : x[1] = j

LEMMA WriteUndisturbed ==
  ASSUME TypeOK, NEW h \in Handler, NEW t, NEW r, Write(h, t, r)
  PROVE  Undisturbed'
<1> SUFFICES ASSUME ~overlapped' PROVE Undisturbed'
  BY DEF Undisturbed
<1>1. /\ \A g \in Handler \ {h} : pc'[g] = "idle" /\ selected'[g] = {}
      /\ pc'[h] = "clear" /\ selected'[h] = {}
  BY DEF TypeOK, Write
<1> QED
  BY <1>1 DEF Undisturbed, Quiet

LEMMA StepUndisturbed == TypeOK /\ Undisturbed /\ [Next]_vars => Undisturbed'
<1> SUFFICES ASSUME TypeOK, Undisturbed, [Next]_vars PROVE Undisturbed'
  OBVIOUS
<1>1. ASSUME NEW h \in Handler, NEW t \in Task, AddTask(h, t) PROVE Undisturbed'
  BY <1>1, WriteUndisturbed DEF AddTask
<1>2. ASSUME NEW h \in Handler, NEW t \in Task, UpdateTask(h, t) PROVE Undisturbed'
  BY <1>2, WriteUndisturbed DEF UpdateTask
<1>3. ASSUME NEW t \in Task, DeleteTask(t) PROVE Undisturbed'
  BY <1>3, WriteUndisturbed DEF DeleteTask, Handler
<1>4. ASSUME NEW t \in Task, ChangeStatus(t) PROVE Undisturbed'
  BY <1>4, WriteUndisturbed DEF ChangeStatus, Handler
<1>5. ASSUME NEW h \in Handler, Clear(h) PROVE Undisturbed'
  <2> SUFFICES ASSUME ~overlapped PROVE Undisturbed'
    BY <1>5 DEF Clear, Undisturbed
  <2>1. \A g \in Handler \ {h} : pc'[g] = "idle" /\ selected'[g] = {}
    BY <1>5 DEF Clear, TypeOK, Undisturbed
  <2>2. pc'[h] = "read" /\ selected'[h] = {} /\ \A j \in Timer : timers'[j] = NoCron
    BY <1>5 DEF Clear, TypeOK
  <2> QED
    BY <2>1, <2>2 DEF Undisturbed, Quiet
<1>6. ASSUME NEW h \in Handler, Read(h) PROVE Undisturbed'
  <2> SUFFICES ASSUME ~overlapped PROVE Undisturbed'
    BY <1>6 DEF Read, Undisturbed
  <2>1. \A g \in Handler \ {h} : pc'[g] = "idle" /\ selected'[g] = {}
    BY <1>6 DEF Read, TypeOK, Undisturbed
  <2>2. \A j : Expression(j)' = Expression(j)
    BY <1>6 DEF Read, Expression, Chosen
  <2>3. /\ selected'[h] = {<<j, Expression(j)>> : j \in Wanted}
        /\ pc'[h] = IF Wanted = {} THEN "idle" ELSE "add"
        /\ timers' = timers /\ failed' = failed
    BY <1>6 DEF Read, TypeOK
  <2>4. \A x \in selected'[h] : x[2] = Expression(x[1])'
    BY <2>2, <2>3
  <2>5. ~failed => \A j \in Timer : timers'[j] = NoCron
    BY <1>6, <2>3 DEF Read, Undisturbed
  <2>6. \A j \in Timer : \/ Expression(j) = NoCron
                         \/ \E x \in selected'[h] : x[1] = j
    <3> SUFFICES ASSUME NEW j \in Timer, Expression(j) # NoCron
                 PROVE  \E x \in selected'[h] : x[1] = j
      OBVIOUS
    <3>1. <<j, Expression(j)>> \in selected'[h]
      BY <2>3 DEF Wanted
    <3> QED
      BY <3>1
  <2>7. Quiet' => \A j \in Timer : Expression(j) = NoCron
    BY <2>3 DEF Quiet, Wanted
  <2>8. ~failed' /\ Quiet' => \A j \in Timer : timers'[j] = Expression(j)'
    BY <2>2, <2>3, <2>5, <2>7
  <2>9. ~failed' => \A j \in Timer : \/ timers'[j] = Expression(j)'
                                    \/ \E x \in selected'[h] : x[1] = j
    BY <2>2, <2>3, <2>5, <2>6
  <2> QED
    BY <2>1, <2>3, <2>4, <2>8, <2>9 DEF Undisturbed
<1>7. ASSUME NEW h \in Handler, ReadFails(h) PROVE Undisturbed'
  BY <1>7 DEF ReadFails, TypeOK, Undisturbed
<1>8. ASSUME NEW h \in Handler, AddTimer(h) PROVE Undisturbed'
  <2> SUFFICES ASSUME ~overlapped PROVE Undisturbed'
    BY <1>8 DEF AddTimer, Undisturbed
  <2>1. PICK x \in selected[h] :
          /\ timers' = [timers EXCEPT ![x[1]] = x[2]]
          /\ selected' = [selected EXCEPT ![h] = @ \ {x}]
          /\ pc' = [pc EXCEPT ![h] = IF selected'[h] = {} THEN "idle" ELSE "add"]
          /\ UNCHANGED <<config, failed>>
    BY <1>8 DEF AddTimer
  <2>2. x[1] \in Timer /\ pc[h] = "add"
    BY DEF TypeOK
  <2>3. \A g \in Handler \ {h} : pc'[g] = "idle" /\ selected'[g] = {}
    BY <2>1, <2>2 DEF TypeOK, Undisturbed
  <2>4. \A j : Expression(j)' = Expression(j)
    BY <2>1 DEF Expression, Chosen
  <2>5. pc'[h] = IF selected'[h] = {} THEN "idle" ELSE "add"
    BY <2>1 DEF TypeOK
  <2>6. selected'[h] = selected[h] \ {x}
    BY <2>1 DEF TypeOK
  <2>7. ~failed' => \A y \in selected'[h] : y[2] = Expression(y[1])'
    BY <2>1, <2>4, <2>6 DEF Undisturbed
  <2>8. ~failed' => \A j \in Timer : \/ timers'[j] = Expression(j)'
                                    \/ \E y \in selected'[h] : y[1] = j
    <3> SUFFICES ASSUME ~failed, NEW j \in Timer
                 PROVE  \/ timers'[j] = Expression(j)
                        \/ \E y \in selected'[h] : y[1] = j
      BY <2>1, <2>4
    <3>1. CASE x[1] = j
      BY <2>1, <2>2, <3>1 DEF TypeOK, Undisturbed
    <3>2. CASE x[1] # j
      <4>1. timers'[j] = timers[j]
        BY <2>1, <3>2 DEF TypeOK
      <4>2. \/ timers[j] = Expression(j)
            \/ \E y \in selected[h] : y[1] = j
        BY <2>2 DEF Undisturbed
      <4> QED
        BY <2>6, <3>2, <4>1, <4>2
    <3> QED
      BY <3>1, <3>2
  <2>9. ~failed' /\ Quiet' => \A j \in Timer : timers'[j] = Expression(j)'
    BY <2>5, <2>8 DEF Quiet
  <2> QED
    BY <2>3, <2>5, <2>7, <2>8, <2>9 DEF Undisturbed
<1>9. CASE Restart
  BY <1>9 DEF Restart, Undisturbed, Expression, Chosen
<1>10. CASE UNCHANGED vars
  BY <1>10 DEF vars, Undisturbed, Quiet, Expression, Chosen
<1> QED
  BY <1>1, <1>2, <1>3, <1>4, <1>5, <1>6, <1>7, <1>8, <1>9, <1>10 DEF Next

(* After refreshes that did not overlap the timers are those of the table,   *)
(* each with the expression of its row.                                    *)
THEOREM Exact == Spec => []TimersExact
<1>1. Init => Undisturbed
  <2> SUFFICES ASSUME Init PROVE Undisturbed
    OBVIOUS
  <2>1. \A j \in Timer : Expression(j) = NoCron /\ timers[j] = NoCron
    BY DEF Init, Expression, Chosen, Timer
  <2> QED
    BY <2>1 DEF Init, Undisturbed
<1>2. Undisturbed => TimersExact
  BY DEF Undisturbed, TimersExact
<1> QED
  BY <1>1, <1>2, StepUndisturbed, Typing, PTL DEF Spec
=============================================================================

-------------------------- MODULE InterruptsProofs --------------------------
(***************************************************************************)
(* What the kernel does when it is interrupted: hardware interrupts, ticks *)
(* and delays (Interrupts), page faults (PageFault) and the mouse (Ps2).   *)
(***************************************************************************)
EXTENDS Interrupts, PageFault, Ps2, ListProofs, FiniteSetTheorems

\* What the controllers have in service, the mask and the gates are known at every
\* step: they follow from what runs and from how far the boot has come.
InService ==
  isr = CASE cpu \in {"timer", "timer_eoi"} -> {TIMER}
          [] cpu = "mouse" -> {CASCADE, MOUSE}
          [] cpu = "irq_15" -> {CASCADE}
          [] OTHER -> {}

Handlers == {"timer", "timer_eoi", "mouse", "irq_7", "irq_15"}

\* Interrupted code goes on where it was: the boot, once it has switched interrupts on,
\* or a process.
Resumption ==
  /\ boot \in 0..BOOTED
  /\ cpu \in {"boot", "process", "syscall"} \cup Handlers
  /\ from \in {"boot", "process"}
  /\ (IF cpu \in Handlers THEN from ELSE cpu) = "boot" <=> boot < BOOTED
  /\ cpu \in Handlers => boot > ENABLE_INTERRUPTS

\* Only lines that have a gate are unmasked, and only devices that exist raise requests.
Unmasked ==
  /\ irr \subseteq {TIMER, 1, MOUSE}
  /\ mask \subseteq Lines
  /\ boot > 0 => CASCADE \notin mask /\ {1, 7, 15} \subseteq mask
  /\ boot \in 1..6 => MOUSE \in mask
  /\ boot \in 1..2 => TIMER \in mask
  /\ boot > 1 => {TIMER, 7, 15} \subseteq idt
  /\ boot > 5 => MOUSE \in idt

ServiceInv == Resumption /\ Unmasked /\ InService

-----------------------------------------------------------------------------
(* The controllers *)

\* The least number of a set is in the set.
LEMMA MinLeast ==
  ASSUME NEW S, S \subseteq Nat, S # {}
  PROVE  Min(S) \in S /\ \A x \in S : Min(S) <= x
<1>1. \E x \in S : \A y \in S : x <= y  BY LeastNumber
<1>. QED  BY <1>1 DEF Min

\* While nothing is in service, the timer and the mouse are all that can be delivered.
LEMMA Deliverable ==
  ASSUME ServiceInv, InterruptsOn, Pending # {}
  PROVE  /\ isr = {} /\ boot > ENABLE_INTERRUPTS
         /\ \/ Line = TIMER /\ Source(Line) = TIMER
            \/ Line = CASCADE /\ Source(Line) = MOUSE /\ MOUSE \notin mask
<1> USE DEF ServiceInv, TIMER, CASCADE, MOUSE
<1>1. isr = {} /\ boot > ENABLE_INTERRUPTS
  BY DEF InterruptsOn, InService, Handlers, Resumption, ENABLE_INTERRUPTS, BOOTED
<1>2. boot > 0  BY <1>1 DEF Resumption, ENABLE_INTERRUPTS, BOOTED
<1>3. Ready(Master) \subseteq {TIMER} /\ Ready(Slave) \subseteq {MOUSE} \ mask
  BY <1>1, <1>2 DEF Ready, Unmasked, Master, Slave, Lines
<1>4. Pending \subseteq {TIMER, CASCADE} /\ (CASCADE \in Pending => Ready(Slave) # {})
  BY <1>3 DEF Pending
<1>5. Pending \subseteq Nat  BY <1>4
<1>6. Line \in Pending  BY <1>5, MinLeast DEF Line
<1>7. CASE Line = TIMER  BY <1>1, <1>7 DEF Source
<1>8. CASE Line = CASCADE
  <2>1. Ready(Slave) \subseteq Nat /\ Ready(Slave) # {}  BY <1>3, <1>4, <1>6, <1>8
  <2>2. Min(Ready(Slave)) \in Ready(Slave)  BY <2>1, MinLeast
  <2>. QED  BY <1>1, <1>3, <1>8, <2>2 DEF Source
<1>. QED  BY <1>4, <1>6, <1>7, <1>8

\* An end of interrupt takes the one line of the chip that is in service out of it.
LEMMA EndOfInterrupt ==
  /\ pic_send_eoi(TIMER, {TIMER}) = {}
  /\ pic_send_eoi(MOUSE, {CASCADE, MOUSE}) = {}
  /\ pic_send_eoi(7, {CASCADE}) = {}
BY DEF pic_send_eoi, Eoi, Master, Slave, Lines, TIMER, CASCADE, MOUSE

\* Before interrupts are on the controllers are reset and masked, gate by gate.
LEMMA ServiceBoot ==
  ASSUME ServiceInv, BootStep
  PROVE  ServiceInv'
<1> USE DEF ServiceInv
<1>1. boot \in 0..6 /\ boot' = boot + 1 /\ from' = from /\ cpu = "boot"
  BY DEF BootStep, Resumption, Handlers, BOOTED
<1>2. isr' = isr \/ isr' = {}
  BY Zenon DEF BootStep, pic_init
<1>3. boot # 6 => cpu' = "boot"
  BY <1>1 DEF BootStep, ENABLE_INTERRUPTS
<1>4. boot = 6 => cpu' = "process"
  BY <1>1 DEF BootStep, ENABLE_INTERRUPTS
<1>5. Resumption'
  BY <1>1, <1>3, <1>4 DEF Resumption, Handlers, BOOTED, ENABLE_INTERRUPTS
<1>6. InService'
  <2>1. isr = {}  BY <1>1 DEF InService
  <2>. QED  BY <2>1, <1>1, <1>2, <1>3, <1>4 DEF InService
<1>7. Unmasked'
  <2> USE DEF BootStep, kidt_init, kidt_edit, pic_init, pic_enable_disable_irq, ENABLE_INTERRUPTS, TIMER,
              CASCADE, MOUSE, Lines
  <2>1. CASE boot = 0
    <3>1. idt' = {} /\ irr' = {} /\ mask' = Lines \ {CASCADE} /\ boot' = 1  BY <2>1, SMT
    <3>. QED  BY <3>1 DEF Unmasked
  <2>2. CASE boot = 1
    <3>1. idt' = idt \cup {TIMER, 7, 15} /\ UNCHANGED <<irr, mask>> /\ boot' = 2  BY <2>2, SMT
    <3>. QED  BY <2>2, <3>1 DEF Unmasked
  <2>3. CASE boot = 2
    <3>1. mask' = mask \ {TIMER} /\ UNCHANGED <<irr, idt>> /\ boot' = 3  BY <2>3, SMT
    <3>. QED  BY <2>3, <3>1 DEF Unmasked
  <2>4. CASE boot = 3
    <3>1. UNCHANGED <<irr, mask, idt>> /\ boot' = 4  BY <2>4, SMT
    <3>. QED  BY <2>4, <3>1 DEF Unmasked
  <2>5. CASE boot = 4
    <3>1. mask' = mask \cup {MOUSE} /\ UNCHANGED <<irr, idt>> /\ boot' = 5  BY <2>5, SMT
    <3>. QED  BY <2>5, <3>1 DEF Unmasked
  <2>6. CASE boot = 5
    <3>1. idt' = idt \cup {MOUSE} /\ UNCHANGED <<irr, mask>> /\ boot' = 6  BY <2>6, SMT
    <3>. QED  BY <2>6, <3>1 DEF Unmasked
  <2>7. CASE boot = 6
    <3>1. mask' = mask \ {MOUSE} /\ UNCHANGED <<irr, idt>> /\ boot' = 7  BY <2>7, SMT
    <3>. QED  BY <2>7, <3>1 DEF Unmasked
  <2>. QED  BY <1>1, <2>1, <2>2, <2>3, <2>4, <2>5, <2>6, <2>7
<1>. QED  BY <1>5, <1>6, <1>7

\* An interrupt, also one that has disappeared, is delivered to a handler with exactly
\* the lines in service that its end of interrupt takes out again.
LEMMA ServiceTaken ==
  ASSUME ServiceInv, Accept \/ Spurious
  PROVE  ServiceInv'
<1> USE DEF ServiceInv
<1>1. InterruptsOn /\ Pending # {}  BY DEF Accept, Spurious
<1>2. /\ isr = {} /\ boot > ENABLE_INTERRUPTS
      /\ \/ Line = TIMER /\ Source(Line) = TIMER
         \/ Line = CASCADE /\ Source(Line) = MOUSE /\ MOUSE \notin mask
  BY <1>1, Deliverable
<1>3. boot \in 4..7 /\ UNCHANGED <<boot, idt, mask>>
  BY <1>2 DEF Resumption, Accept, Spurious, ENABLE_INTERRUPTS, BOOTED
<1>4. {TIMER, 7, 15} \subseteq idt  BY <1>3 DEF Unmasked
<1>5. MOUSE \notin mask => MOUSE \in idt  BY <1>3 DEF Unmasked
<1>6. from' = cpu /\ cpu \in {"boot", "process"}
  BY <1>1 DEF Accept, Spurious, Enter, InterruptsOn
<1>7. /\ cpu' \in {"timer", "mouse", "irq_7", "irq_15"}
      /\ isr' = CASE cpu' = "timer" -> {TIMER} [] cpu' = "mouse" -> {CASCADE, MOUSE}
                  [] cpu' = "irq_15" -> {CASCADE} [] OTHER -> {}
  <2>1. CASE Accept
    BY <2>1, <1>2, <1>4, <1>5 DEF Accept, Enter, Handler, TIMER, CASCADE, MOUSE
  <2>2. CASE Spurious
    BY <2>2, <1>2, <1>4 DEF Spurious, Enter, Handler, TIMER, CASCADE, MOUSE
  <2>. QED  BY <2>1, <2>2
<1>8. InService'  BY <1>7 DEF InService
<1>9. Resumption'
  BY <1>2, <1>3, <1>6, <1>7 DEF Resumption, Handlers, ENABLE_INTERRUPTS, BOOTED
<1>10. Unmasked'  BY <1>3 DEF Unmasked, Accept, Spurious
<1>. QED  BY <1>8, <1>9, <1>10

\* A handler that returns leaves nothing in service.
LEMMA ServiceReturn ==
  ASSUME ServiceInv,
         timer_interrupt_end \/ mouse_interrupt_end \/ irq_7_handler \/ irq_15_handler
  PROVE  ServiceInv'
<1> USE DEF ServiceInv
<1> USE DEF timer_interrupt_end, mouse_interrupt_end, irq_7_handler, irq_15_handler, End, Return
<1>1. cpu \in Handlers /\ cpu' = from /\ UNCHANGED <<boot, idt, mask, irr, from>>
  BY DEF Handlers
<1>2. isr' = {}
  <2>1. CASE timer_interrupt_end  BY <2>1, EndOfInterrupt DEF InService
  <2>2. CASE mouse_interrupt_end  BY <2>2, EndOfInterrupt DEF InService
  <2>3. CASE irq_7_handler  BY <2>3 DEF InService, spurious_irq_eoi
  <2>4. CASE irq_15_handler  BY <2>4, EndOfInterrupt DEF InService, spurious_irq_eoi
  <2>. QED  BY <2>1, <2>2, <2>3, <2>4
<1>3. Resumption'  BY <1>1 DEF Resumption, Handlers
<1>4. InService'  BY <1>1, <1>2, <1>3 DEF InService, Resumption, Handlers
<1>5. Unmasked'  BY <1>1 DEF Unmasked
<1>. QED  BY <1>3, <1>4, <1>5

\* Every step keeps the controllers in order.
LEMMA ServiceStep ==
  ServiceInv /\ [Next]_vars => ServiceInv'
<1> SUFFICES ASSUME ServiceInv, [Next]_vars PROVE ServiceInv'  OBVIOUS
<1> USE DEF ServiceInv
<1>1. CASE BootStep  BY <1>1, ServiceBoot
<1>2. CASE Accept \/ Spurious  BY <1>2, ServiceTaken
<1>3. CASE timer_interrupt_end \/ mouse_interrupt_end \/ irq_7_handler \/ irq_15_handler
  BY <1>3, ServiceReturn
<1>4. CASE timer_interrupt_handler \/ Syscall \/ SyscallReturns
  <2> USE <1>4 DEF timer_interrupt_handler, Syscall, SyscallReturns
  <2>1. UNCHANGED <<boot, idt, mask, irr, isr, from>>  OBVIOUS
  <2>2. Resumption' /\ InService'  BY <2>1 DEF Resumption, InService, Handlers
  <2>3. Unmasked'  BY <2>1 DEF Unmasked
  <2>. QED  BY <2>2, <2>3
<1>5. ASSUME NEW l \in Lines, Request(l) PROVE ServiceInv'
  BY <1>5 DEF Request, Resumption, InService, Unmasked
<1>6. CASE (\E ms \in Delays : cm_delay(ms)) \/ DelayEnds \/ Resumes \/ UNCHANGED vars
  <2>1. UNCHANGED <<boot, idt, mask, irr, isr, cpu, from>>
    BY <1>6 DEF cm_delay, DelayEnds, Resumes, vars
  <2>. QED  BY <2>1 DEF Resumption, InService, Unmasked
<1>. QED  BY <1>1, <1>2, <1>3, <1>4, <1>5, <1>6 DEF Next, Running

\* The BIOS may have left any mask and any request.
LEMMA ServiceInit ==
  Init => ServiceInv
BY DEF Init, ServiceInv, Resumption, InService, Unmasked, Handlers, BOOTED, ENABLE_INTERRUPTS

\* The handlers of timer, mouse and spurious interrupts end what was begun for them and
\* nothing else (pic_send_eoi, spurious_irq_eoi).
THEOREM ServiceCorrect == Spec => []NothingInService
<1>1. ServiceInv => NothingInService  BY DEF ServiceInv, InService, NothingInService
<1>. QED  BY <1>1, ServiceInit, ServiceStep, PTL DEF Spec

\* Every interrupt that the controllers deliver, spurious ones included, has a gate
\* (kidt_edit and pic_enable_disable_irq in kernel_main and ps2_mouse_init).
THEOREM GatesCorrect == Spec => []GatesReady
<1>1. ServiceInv => GatesReady  BY DEF ServiceInv, Resumption, Handlers, GatesReady
<1>. QED  BY <1>1, ServiceInit, ServiceStep, PTL DEF Spec

-----------------------------------------------------------------------------
(* Ticks *)

\* The period in ticks, and the tick counted within it. Since the last request a
\* process has not seen more ticks than the period has: not more than the count says,
\* and less where the count has wrapped around, which is taken for the end of a period.
Period == PROCESS_US \div TICK_US
TickInv == /\ tick_count \in 0..(WORD - 1)
           /\ since \in Nat
           /\ since <= tick_count % Period

\* The period is a whole number of ticks.
LEMMA PeriodNumber ==
  /\ WORD \in Nat /\ TICK_US \in Nat /\ PROCESS_US \in Nat /\ MS_US \in Nat
  /\ WORD > 0 /\ TICK_US > 0 /\ PROCESS_US > 0 /\ MS_US > 0
  /\ Period \in Nat /\ Period > 0 /\ PROCESS_US = TICK_US * Period
<1>1. /\ WORD \in Nat /\ TICK_US \in Nat /\ PROCESS_US \in Nat /\ MS_US \in Nat
      /\ WORD > 0 /\ TICK_US > 0 /\ PROCESS_US > 0 /\ MS_US > 0 /\ PROCESS_US % TICK_US = 0
  BY UnitsAssumption
<1>2. PICK q \in Nat, r \in 0..(TICK_US - 1) :
        q = PROCESS_US \div TICK_US /\ r = PROCESS_US % TICK_US /\ PROCESS_US = TICK_US * q + r
  BY <1>1, DivMod
<1>3. Period = q /\ PROCESS_US = TICK_US * q  BY <1>1, <1>2 DEF Period
<1>4. q > 0  BY <1>1, <1>3
<1>. QED  BY <1>1, <1>3, <1>4

\* A number of ticks that is a multiple of the period is one of the process's period.
LEMMA DueAtPeriod ==
  ASSUME NEW t \in Nat, t % Period = 0
  PROVE  Due(t)
<1>1. /\ Period \in Nat /\ Period > 0 /\ TICK_US \in Nat /\ PROCESS_US \in Nat /\ PROCESS_US > 0
      /\ PROCESS_US = TICK_US * Period
  BY PeriodNumber
<1>2. PICK q \in Nat, r \in 0..(Period - 1) : q = t \div Period /\ r = t % Period /\ t = Period * q + r
  BY <1>1, DivMod
<1>3. t = Period * q  BY <1>1, <1>2
<1>4. t * TICK_US = PROCESS_US * q + 0
  <2>1. t * TICK_US = (Period * q) * TICK_US  BY <1>3
  <2>2. (Period * q) * TICK_US = (TICK_US * Period) * q  BY <1>1, <1>2
  <2>3. (TICK_US * Period) * q = PROCESS_US * q + 0  BY <1>1, <1>2
  <2>. QED  BY <2>1, <2>2, <2>3
<1>5. t * TICK_US \in Nat  BY <1>1
<1>6. (t * TICK_US) % PROCESS_US = 0  BY <1>1, <1>4, <1>5, DivModUnique
<1>. QED  BY <1>6 DEF Due

\* Within a period the remainder counts on.
LEMMA Remainder ==
  ASSUME NEW t \in Nat, NEW m \in Nat, m > 0
  PROVE  /\ t % m \in 0..(m - 1)
         /\ (t + 1) % m = 0 \/ (t + 1) % m = (t % m) + 1
<1>1. PICK q \in Nat, r \in 0..(m - 1) : q = t \div m /\ r = t % m /\ t = m * q + r
  BY DivMod
<1>2. CASE r + 1 < m
  <2>1. t + 1 = m * q + (r + 1) /\ r + 1 \in 0..(m - 1) /\ t + 1 \in Nat  BY <1>1, <1>2
  <2>2. (t + 1) % m = r + 1  BY <2>1, DivModUnique
  <2>. QED  BY <1>1, <2>2
<1>3. CASE r + 1 = m
  <2>1. m * (q + 1) = m * q + m  BY <1>1
  <2>2. t + 1 = m * (q + 1) + 0 /\ 0 \in 0..(m - 1) /\ t + 1 \in Nat /\ q + 1 \in Nat  BY <1>1, <1>3, <2>1
  <2>3. (t + 1) % m = 0  BY <2>2, DivModUnique
  <2>. QED  BY <1>1, <2>3
<1>. QED  BY <1>1, <1>2, <1>3

\* A number below the modulus is its own remainder.
LEMMA OwnRemainder ==
  ASSUME NEW m \in Nat, NEW t \in 0..(m - 1)
  PROVE  t % m = t
<1>1. t = m * 0 + t /\ m > 0 /\ t \in Nat  OBVIOUS
<1>. QED  BY <1>1, DivModUnique

\* A tick ends a period or belongs to one.
LEMMA TickHandler ==
  ASSUME TickInv, timer_interrupt_handler
  PROVE  TickInv'
<1> USE DEF TickInv
<1>1. WORD \in Nat /\ WORD > 0 /\ Period \in Nat /\ Period > 0  BY PeriodNumber
<1>2. tick_count' = (tick_count + 1) % WORD  BY DEF timer_interrupt_handler
<1>3. tick_count' \in 0..(WORD - 1)
  <2>1. tick_count + 1 \in Nat  BY <1>1
  <2>. QED  BY <1>1, <1>2, <2>1, Remainder
<1>4. tick_count' = 0 \/ tick_count' = tick_count + 1
  <2>1. (tick_count + 1) % WORD = 0 \/ (tick_count + 1) % WORD = (tick_count % WORD) + 1
    BY <1>1, Remainder
  <2>2. tick_count % WORD = tick_count  BY <1>1, OwnRemainder
  <2>. QED  BY <1>2, <2>1, <2>2
<1>5. since' = IF from = "boot" \/ Due(tick_count') THEN 0 ELSE since + 1
  BY DEF timer_interrupt_handler, keventmanager_invoke
<1>6. tick_count' \in Nat /\ tick_count' % Period \in 0..(Period - 1)
  <2>1. tick_count' \in Nat  BY <1>1, <1>3
  <2>2. tick_count' % Period \in 0..(Period - 1)  BY ONLY <1>1, <2>1, Remainder
  <2>. QED  BY <2>1, <2>2
<1>7. CASE since' = 0  BY <1>3, <1>6, <1>7
<1>8. CASE since' = since + 1 /\ ~Due(tick_count')
  <2>1. tick_count' % Period # 0  BY <1>3, <1>8, DueAtPeriod
  <2>2. 0 % Period = 0  BY <1>1, OwnRemainder
  <2>3. tick_count' = tick_count + 1  BY <1>4, <2>1, <2>2
  <2>4. tick_count' % Period = (tick_count % Period) + 1
    <3>1. tick_count \in Nat  BY <1>1
    <3>2. (tick_count + 1) % Period = 0 \/ (tick_count + 1) % Period = (tick_count % Period) + 1
      BY ONLY <1>1, <3>1, Remainder
    <3>. QED  BY <2>1, <2>3, <3>2
  <2>5. tick_count % Period \in Nat  BY <1>1, Remainder
  <2>. QED  BY <1>3, <1>8, <2>4, <2>5
<1>. QED  BY <1>5, <1>7, <1>8

\* Only the timer counts.
LEMMA TickStep ==
  TickInv /\ [Next]_vars => TickInv'
<1> SUFFICES ASSUME TickInv, [Next]_vars PROVE TickInv'  OBVIOUS
<1>1. CASE timer_interrupt_handler  BY <1>1, TickHandler
<1>2. CASE UNCHANGED <<tick_count, since>>  BY <1>2 DEF TickInv
<1>. QED
  BY <1>1, <1>2
  DEF Next, Running, BootStep, timer_interrupt_end, mouse_interrupt_end, irq_7_handler,
      irq_15_handler, End, SyscallReturns, Accept, Spurious, Syscall, Request, cm_delay, DelayEnds,
      Resumes, vars

\* A running process is asked to yield before it has run for longer than its period, for
\* every width of the tick count, multiple of the period or not (keventmanager_invoke).
THEOREM YieldsCorrect == Spec => []YieldRequested
<1>1. Init => TickInv
  <2>1. WORD \in Nat /\ WORD > 0 /\ Period \in Nat /\ Period > 0  BY PeriodNumber
  <2>2. 0 % Period = 0  BY <2>1, OwnRemainder
  <2>. QED  BY <2>1, <2>2 DEF Init, TickInv
<1>2. TickInv => YieldRequested
  <2> SUFFICES ASSUME TickInv PROVE since * TICK_US < PROCESS_US  BY DEF YieldRequested
  <2>1. /\ Period \in Nat /\ Period > 0 /\ TICK_US \in Nat /\ TICK_US > 0
        /\ PROCESS_US = TICK_US * Period
    BY PeriodNumber
  <2>2. tick_count \in Nat /\ since \in Nat /\ since <= tick_count % Period
    BY PeriodNumber DEF TickInv
  <2>3. since < Period  BY <2>1, <2>2, Remainder
  <2>. QED  BY <2>1, <2>2, <2>3
<1>. QED  BY <1>1, <1>2, TickStep, PTL DEF Spec

-----------------------------------------------------------------------------
(* Delays *)

\* The thread in cm_delay has seen the ticks that the count has made since, or the count
\* has wrapped around; when it wakes up it has seen all that it asked for.
Sleepers == [state : {"awake", "asleep", "woke"}, ms : Delays \cup {0}, start : 0..(WORD - 1),
             end : Nat, elapsed : 0..WORD]
Deadline == sleeper.start + TicksOf(sleeper.ms)

DelayInv ==
  /\ tick_count \in 0..(WORD - 1)
  /\ sleeper \in Sleepers
  /\ sleeper.state = "asleep" =>
       /\ sleeper.end = Deadline % WORD
       /\ tick_count = sleeper.start + sleeper.elapsed \/ sleeper.elapsed >= WORD - sleeper.start
  /\ sleeper.state = "woke" /\ Deadline < WORD => sleeper.elapsed >= TicksOf(sleeper.ms)

\* A delay is a number of ticks.
LEMMA TicksNumber ==
  ASSUME NEW ms \in Delays \cup {0}
  PROVE  /\ ms \in Nat /\ TicksOf(ms) \in Nat
         /\ ms * MS_US < WORD => TicksOf(ms) * TICK_US >= ms * MS_US - (TICK_US - 1)
<1>1. WORD \in Nat /\ WORD > 0 /\ TICK_US \in Nat /\ TICK_US > 0 /\ MS_US \in Nat  BY PeriodNumber
<1>2. ms \in Nat  BY UnitsAssumption
<1> DEFINE us == ms * MS_US
<1>3. us \in Nat  BY <1>1, <1>2
<1> HIDE DEF us
<1> DEFINE w == us % WORD
<1>4. w \in Nat
  <2>1. us % WORD \in 0..(WORD - 1)  BY <1>1, <1>3, Remainder
  <2>. QED  BY <1>1, <2>1
<1> HIDE DEF w
<1>5. PICK q \in Nat, r \in 0..(TICK_US - 1) : q = w \div TICK_US /\ r = w % TICK_US /\ w = TICK_US * q + r
  BY <1>1, <1>4, DivMod
<1>6. TicksOf(ms) = q  BY <1>5 DEF TicksOf, w, us
<1>7. ASSUME us < WORD PROVE q * TICK_US >= us - (TICK_US - 1)
  <2>1. us \in 0..(WORD - 1)  BY <1>1, <1>3, <1>7
  <2>2. w = us  BY <1>1, <2>1, OwnRemainder DEF w
  <2>3. q * TICK_US = TICK_US * q  BY <1>1, <1>5
  <2>4. us = q * TICK_US + r  BY <1>5, <2>2, <2>3
  <2>5. q * TICK_US \in Nat  BY <1>1, <1>5
  <2>. QED  BY <1>1, <1>3, <1>5, <2>4, <2>5
<1>. QED  BY <1>2, <1>6, <1>7 DEF us

\* The count and the thread's own count of ticks stay together, or the count wraps.
LEMMA DelayTick ==
  ASSUME DelayInv, timer_interrupt_handler
  PROVE  DelayInv'
<1>1. WORD \in Nat /\ WORD > 0  BY PeriodNumber
<1>2. tick_count \in 0..(WORD - 1) /\ sleeper \in Sleepers  BY DEF DelayInv
<1>3. tick_count' = (tick_count + 1) % WORD  BY DEF timer_interrupt_handler
<1>4. tick_count' = IF tick_count + 1 = WORD THEN 0 ELSE tick_count + 1
  <2>1. CASE tick_count + 1 = WORD
    <3>1. tick_count + 1 = WORD * 1 + 0 /\ 0 \in 0..(WORD - 1) /\ tick_count + 1 \in Nat  BY <1>1, <2>1
    <3>2. (tick_count + 1) % WORD = 0  BY ONLY <1>1, <3>1, DivModUnique
    <3>. QED  BY <1>3, <2>1, <3>2
  <2>2. CASE tick_count + 1 # WORD
    <3>1. tick_count + 1 \in 0..(WORD - 1)  BY <1>1, <1>2, <2>2
    <3>2. (tick_count + 1) % WORD = tick_count + 1  BY ONLY <1>1, <3>1, OwnRemainder
    <3>. QED  BY <1>3, <2>2, <3>2
  <2>. QED  BY <2>1, <2>2
<1> DEFINE e == Min({sleeper.elapsed + 1, WORD})
<1>5. sleeper.elapsed \in 0..WORD /\ sleeper.start \in 0..(WORD - 1) /\ sleeper.ms \in Delays \cup {0}
  BY <1>2 DEF Sleepers
<1>6. e = IF sleeper.elapsed < WORD THEN sleeper.elapsed + 1 ELSE WORD
  <2>1. {sleeper.elapsed + 1, WORD} \subseteq Nat /\ {sleeper.elapsed + 1, WORD} # {}  BY <1>1, <1>5
  <2>2. e \in {sleeper.elapsed + 1, WORD} /\ \A x \in {sleeper.elapsed + 1, WORD} : e <= x
    BY ONLY <2>1, MinLeast
  <2> HIDE DEF e
  <2>. QED  BY <1>1, <1>5, <2>2
<1>7. sleeper' = [sleeper EXCEPT !.elapsed = e]  BY DEF timer_interrupt_handler
<1> HIDE DEF e
<1>8. e \in 0..WORD /\ e >= sleeper.elapsed  BY <1>1, <1>5, <1>6
<1>9. /\ sleeper' \in Sleepers /\ sleeper'.state = sleeper.state /\ sleeper'.ms = sleeper.ms
      /\ sleeper'.start = sleeper.start /\ sleeper'.end = sleeper.end /\ sleeper'.elapsed = e
  BY <1>2, <1>7, <1>8 DEF Sleepers
<1>10. Deadline' = Deadline  BY <1>9 DEF Deadline, TicksOf
<1>11. ASSUME sleeper.state = "asleep"
       PROVE  tick_count' = sleeper.start + e \/ e >= WORD - sleeper.start
  <2>1. tick_count = sleeper.start + sleeper.elapsed \/ sleeper.elapsed >= WORD - sleeper.start
    BY <1>11 DEF DelayInv
  <2>. QED  BY <1>1, <1>2, <1>4, <1>5, <1>6, <2>1
<1>12. ASSUME sleeper.state = "woke", Deadline < WORD PROVE e >= TicksOf(sleeper.ms)
  <2>1. sleeper.elapsed >= TicksOf(sleeper.ms)  BY <1>12 DEF DelayInv
  <2>2. TicksOf(sleeper.ms) \in Nat  BY <1>5, TicksNumber
  <2>. QED  BY <1>1, <1>5, <1>8, <2>1, <2>2
<1>13. tick_count' \in 0..(WORD - 1)  BY <1>1, <1>2, <1>4
<1>. QED  BY <1>9, <1>10, <1>11, <1>12, <1>13 DEF DelayInv, TicksOf

\* cm_delay's loop ends when the count is at the deadline or has passed it.
LEMMA DelayWakes ==
  ASSUME DelayInv, DelayEnds
  PROVE  DelayInv'
<1>1. WORD \in Nat /\ WORD > 0  BY PeriodNumber
<1>2. tick_count \in 0..(WORD - 1) /\ sleeper \in Sleepers  BY DEF DelayInv
<1>3. sleeper.elapsed \in 0..WORD /\ sleeper.start \in 0..(WORD - 1) /\ sleeper.ms \in Delays \cup {0}
  BY <1>2 DEF Sleepers
<1>4. /\ sleeper.state = "asleep" /\ tick_count >= sleeper.end
      /\ sleeper' = [sleeper EXCEPT !.state = "woke"] /\ tick_count' = tick_count
  BY DEF DelayEnds, Over
<1>5. /\ sleeper' \in Sleepers /\ sleeper'.state = "woke" /\ sleeper'.ms = sleeper.ms
      /\ sleeper'.start = sleeper.start /\ sleeper'.elapsed = sleeper.elapsed
  BY <1>2, <1>4 DEF Sleepers
<1>6. Deadline' = Deadline  BY <1>5 DEF Deadline, TicksOf
<1>7. TicksOf(sleeper.ms) \in Nat  BY <1>3, TicksNumber
<1>8. ASSUME Deadline < WORD PROVE sleeper.elapsed >= TicksOf(sleeper.ms)
  <2>1. Deadline \in 0..(WORD - 1)  BY <1>1, <1>3, <1>7, <1>8 DEF Deadline
  <2>2. Deadline % WORD = Deadline  BY ONLY <1>1, <2>1, OwnRemainder
  <2>3. tick_count >= Deadline  BY <1>4, <2>2 DEF DelayInv
  <2>4. tick_count = sleeper.start + sleeper.elapsed \/ sleeper.elapsed >= WORD - sleeper.start
    BY <1>4 DEF DelayInv
  <2>. QED  BY <1>1, <1>2, <1>3, <1>7, <1>8, <2>3, <2>4 DEF Deadline
<1>. QED  BY <1>2, <1>4, <1>5, <1>6, <1>8 DEF DelayInv, TicksOf

\* Every step keeps the account of the ticks.
LEMMA DelayStep ==
  DelayInv /\ [Next]_vars => DelayInv'
<1> SUFFICES ASSUME DelayInv, [Next]_vars PROVE DelayInv'  OBVIOUS
<1>0. WORD \in Nat /\ WORD > 0  BY PeriodNumber
<1>1. CASE timer_interrupt_handler  BY <1>1, DelayTick
<1>2. CASE DelayEnds  BY <1>2, DelayWakes
<1>3. ASSUME NEW ms \in Delays, cm_delay(ms) PROVE DelayInv'
  <2> DEFINE T == TicksOf(ms)
  <2>1. T \in Nat  BY TicksNumber
  <2>2. /\ sleeper' = [state |-> "asleep", ms |-> ms, start |-> tick_count,
                       end |-> (tick_count + T) % WORD, elapsed |-> 0]
        /\ tick_count' = tick_count
    BY <1>3 DEF cm_delay
  <2>3. tick_count \in 0..(WORD - 1)  BY DEF DelayInv
  <2>4. tick_count + T \in Nat  BY <1>0, <2>1, <2>3
  <2>5. (tick_count + T) % WORD \in 0..(WORD - 1)  BY ONLY <1>0, <2>4, Remainder
  <2>6. (tick_count + T) % WORD \in Nat  BY <1>0, <2>5
  <2>7. Deadline' = tick_count + T  BY <2>2 DEF Deadline, TicksOf
  <2> HIDE DEF T
  <2>8. sleeper' \in Sleepers  BY <1>0, <2>2, <2>3, <2>6 DEF Sleepers
  <2>. QED  BY <1>0, <2>2, <2>3, <2>7, <2>8 DEF DelayInv
<1>4. CASE Resumes
  <2>1. sleeper' \in Sleepers /\ sleeper'.state = "awake" /\ tick_count' = tick_count
    BY <1>0, <1>4 DEF Resumes, Sleepers
  <2>. QED  BY <2>1 DEF DelayInv
<1>5. CASE UNCHANGED <<tick_count, sleeper>>  BY <1>5 DEF DelayInv, Deadline, TicksOf
<1>. QED
  BY <1>1, <1>2, <1>3, <1>4, <1>5
  DEF Next, Running, BootStep, timer_interrupt_end, mouse_interrupt_end, irq_7_handler,
      irq_15_handler, End, SyscallReturns, Accept, Spurious, Syscall, Request, vars

\* A delay whose microseconds and whose deadline an unsigned integer can hold lasts as
\* many whole ticks as fit into it, for every tick and every width (cm_delay).
THEOREM DelaysCorrect == Spec => []DelayKept
<1>1. Init => DelayInv
  <2>1. WORD \in Nat /\ WORD > 0  BY PeriodNumber
  <2>. QED  BY <2>1 DEF Init, DelayInv, Sleepers
<1>2. DelayInv => DelayKept
  <2> SUFFICES ASSUME DelayInv, sleeper.state = "woke", sleeper.ms * MS_US < WORD, Deadline < WORD
               PROVE  sleeper.elapsed * TICK_US >= sleeper.ms * MS_US - (TICK_US - 1)
    BY DEF DelayKept, Deadline
  <2>1. WORD \in Nat /\ TICK_US \in Nat /\ TICK_US > 0 /\ MS_US \in Nat  BY PeriodNumber
  <2>2. sleeper.ms \in Delays \cup {0} /\ sleeper.elapsed \in 0..WORD  BY DEF DelayInv, Sleepers
  <2>3. sleeper.ms \in Nat  BY <2>2, TicksNumber
  <2> DEFINE T == TicksOf(sleeper.ms)
  <2>4. T \in Nat /\ T * TICK_US >= sleeper.ms * MS_US - (TICK_US - 1)  BY <2>2, TicksNumber
  <2>5. sleeper.elapsed >= T  BY DEF DelayInv
  <2> HIDE DEF T
  <2>6. sleeper.elapsed * TICK_US >= T * TICK_US  BY <2>1, <2>2, <2>4, <2>5
  <2>7. sleeper.elapsed * TICK_US \in Nat /\ T * TICK_US \in Nat /\ sleeper.ms * MS_US \in Nat
    BY <2>1, <2>2, <2>3, <2>4
  <2>. QED  BY <2>1, <2>4, <2>6, <2>7
<1>. QED  BY <1>1, <1>2, DelayStep, PTL DEF Spec

-----------------------------------------------------------------------------
(* The page fault handler and the kernel's half of the address space, which all page
   directories share: for any number of processes, page tables, pages and frames. *)

\* The inductive invariant.
KernelInv == TypeOK /\ Control /\ StaleIsKnown /\ LegalAccessServed

\* The invariant holds when the kernel starts.
LEMMA KernelInit == PageFaultInit => KernelInv
<1> USE NamesAssumption, TablesAssumption, FramesAssumption
<1> SUFFICES ASSUME PageFaultInit PROVE KernelInv
  OBVIOUS
<1>1. TypeOK
  BY DEF PageFaultInit, TypeOK, Statuses, Panics
<1>2. Control
  BY DEF PageFaultInit, Control, Creating, Dying, Directories
<1>3. StaleIsKnown
  BY DEF PageFaultInit, StaleIsKnown, Directories
<1>4. LegalAccessServed
  BY DEF PageFaultInit, LegalAccessServed
<1>. QED  BY <1>1, <1>2, <1>3, <1>4 DEF KernelInv

\* A page that is mapped is found through an up-to-date directory. So the fault of
\* a mapped page means that the current directory is stale.
LEMMA FaultOfMapped ==
  ASSUME KernelInv, Faults
  PROVE  /\ accessing \in mapped => entries[cr3] # entries[KERNEL]
         /\ accessing \in mapped => cr3 \in Procs /\ status[cr3] = "queued"
         /\ ~isPageDirectoryDirty => accessing \notin mapped
         /\ Dying = {}
<1> USE NamesAssumption, TablesAssumption, FramesAssumption
<1>1. accessing \in mapped => entries[cr3] # entries[KERNEL]
  BY DEF KernelInv, Control, Faults, Translates
<1>2. accessing \in mapped => cr3 \in Procs /\ status[cr3] = "queued"
  BY <1>1 DEF KernelInv, Control, TypeOK
<1>3. ~isPageDirectoryDirty => accessing \notin mapped
  BY <1>1, <1>2 DEF KernelInv, StaleIsKnown, Directories, Creating
<1>4. Dying = {}
  BY <1>1 DEF KernelInv, Control, Faults
<1>. QED  BY <1>1, <1>2, <1>3, <1>4

\* Every action keeps the invariant.
LEMMA KernelStep == KernelInv /\ [PageFaultNext]_pageFaultVars => KernelInv'
<1> USE NamesAssumption, TablesAssumption, FramesAssumption
<1> SUFFICES ASSUME KernelInv, [PageFaultNext]_pageFaultVars PROVE KernelInv'
  OBVIOUS
<1>. USE DEF KernelInv
<1>1. ASSUME NEW x \in Lazy, Access(x) PROVE KernelInv'
  BY <1>1 DEF Access, TypeOK, Control, StaleIsKnown, LegalAccessServed,
     Directories, Creating, Dying, Panics
<1>2. CASE AccessDone
  BY <1>2 DEF AccessDone, TypeOK, Control, StaleIsKnown, LegalAccessServed,
     Directories, Creating, Dying, Panics, Translates
<1>3. CASE PageFaultSync
  <2>1. Dying = {} /\ accessing \in Lazy
    BY <1>3, FaultOfMapped DEF PageFaultSync, Faults, Control
  <2>2. pc' = "access"
    BY <1>3, <2>1 DEF PageFaultSync, SyncOutcome
  <2>3. TypeOK'
    BY <1>3, <2>2 DEF PageFaultSync, TypeOK, kprocess_syncPD
  <2>4. entries'[KERNEL] = entries[KERNEL]
    BY <1>3 DEF PageFaultSync, kprocess_syncPD
  <2>5. \A d \in Procs : status[d] = "queued" => entries'[d] = entries[KERNEL]
    BY <1>3 DEF PageFaultSync, kprocess_syncPD, Control
  <2>6. \A d \in Procs : status[d] # "queued" => entries'[d] = entries[d]
    BY <1>3 DEF PageFaultSync, kprocess_syncPD
  <2>7. Control'
    BY <1>3, <2>1, <2>2, <2>4, <2>5, <2>6 DEF PageFaultSync, Control, Directories,
       Creating, Dying
  <2>8. StaleIsKnown'
    <3> SUFFICES ASSUME NEW d \in Directories', entries'[d] # entries'[KERNEL]
                 PROVE  /\ entries'[d] \subseteq entries'[KERNEL]
                        /\ d \in Creating' /\ accessing' \notin mapped'
      BY <2>2 DEF StaleIsKnown
    <3>1. d \in Creating /\ entries'[d] = entries[d] /\ d \in Directories
      BY <1>3, <2>4, <2>5, <2>6 DEF PageFaultSync, Directories, Creating
    <3>2. entries[d] \subseteq entries[KERNEL] /\ entries[d] # entries[KERNEL]
      BY <3>1, <2>4 DEF StaleIsKnown
    <3>3. accessing \notin mapped
      BY <3>1, <3>2, <1>3, FaultOfMapped
         DEF PageFaultSync, Control, Directories, Creating
    <3>. QED  BY <1>3, <2>4, <3>1, <3>2, <3>3 DEF PageFaultSync, Creating
  <2>9. LegalAccessServed'
    BY <2>2 DEF LegalAccessServed
  <2>. QED  BY <2>3, <2>7, <2>8, <2>9
<1>4. CASE PageFaultCommit
  <2>1. Dying = {} /\ accessing \in Lazy /\ accessing \notin mapped /\ TableOf[accessing] \in Tables
    BY <1>4, FaultOfMapped DEF PageFaultCommit, Faults, Control
  <2>2. /\ pc' = "access" /\ mapped' = mapped \cup {accessing} /\ isPageDirectoryDirty'
        /\ frames' = frames - FramesNeeded(accessing)
    BY <1>4, <2>1 DEF PageFaultCommit, commitVirtualPages, SyncOutcome
  <2>3. frames' \in Nat
    BY <1>4, <2>2 DEF PageFaultCommit, FramesNeeded, TypeOK
  <2>4. entries'[KERNEL] = entries[KERNEL] \cup {TableOf[accessing]}
    BY <1>4 DEF PageFaultCommit, kprocess_syncPD
  <2>5. \A d \in Procs : status[d] = "queued" => entries'[d] = entries'[KERNEL]
    BY <1>4, <2>4 DEF PageFaultCommit, kprocess_syncPD, Control
  <2>6. \A d \in Procs : status[d] # "queued" => entries'[d] = entries[d]
    BY <1>4 DEF PageFaultCommit, kprocess_syncPD
  <2>7. entries' \in [Procs \cup {KERNEL} -> SUBSET Tables]
    BY <1>4, <2>1 DEF PageFaultCommit, kprocess_syncPD, TypeOK
  <2>8. TypeOK'
    BY <1>4, <2>1, <2>2, <2>3, <2>7 DEF PageFaultCommit, TypeOK
  <2>9. Control'
    BY <1>4, <2>1, <2>2, <2>4, <2>5, <2>6 DEF PageFaultCommit, Control, Directories,
       Creating, Dying
  <2>10. StaleIsKnown'
    <3> SUFFICES ASSUME NEW d \in Directories'
                 PROVE  entries'[d] \subseteq entries'[KERNEL]
      BY <2>2 DEF StaleIsKnown
    <3>1. d = KERNEL \/ (d \in Procs /\ status[d] = "queued") \/ d \in Creating
      BY <1>4 DEF PageFaultCommit, Directories, Creating
    <3>2. d \in Creating => entries[d] \subseteq entries[KERNEL]
      BY DEF StaleIsKnown, Directories, Creating
    <3>. QED  BY <3>1, <3>2, <2>4, <2>5, <2>6 DEF Creating
  <2>11. LegalAccessServed'
    BY <2>2 DEF LegalAccessServed
  <2>. QED  BY <2>8, <2>9, <2>10, <2>11
<1>5. CASE PageFaultNoMemory
  BY <1>5, FaultOfMapped DEF PageFaultNoMemory, TypeOK, Control,
     StaleIsKnown, LegalAccessServed, Directories, Creating, Dying, Panics
<1>6. CASE KernelReady
  BY <1>6 DEF KernelReady, TypeOK, Control, StaleIsKnown, LegalAccessServed,
     Directories, Creating, Dying, Panics
<1>7. ASSUME NEW p \in Procs, CreatePageDirectory(p) PROVE KernelInv'
  BY <1>7 DEF CreatePageDirectory, kpg_setupPageDirectory, TypeOK, Control,
     StaleIsKnown, LegalAccessServed, Directories, Creating, Dying, Panics, Statuses
<1>8. ASSUME NEW p \in Procs, s_enqueue(p) PROVE KernelInv'
  BY <1>8 DEF s_enqueue, TypeOK, Control,
     StaleIsKnown, LegalAccessServed, Directories, Creating, Dying, Panics, Statuses
<1>9. ASSUME NEW p \in Procs, CreateFails(p) PROVE KernelInv'
  BY <1>9 DEF CreateFails, TypeOK, Control,
     StaleIsKnown, LegalAccessServed, Directories, Creating, Dying, Panics, Statuses
<1>10. ASSUME NEW p \in Procs, s_switchProcess(p) PROVE KernelInv'
  BY <1>10 DEF s_switchProcess, TypeOK, Control,
     StaleIsKnown, LegalAccessServed, Directories, Creating, Dying, Panics
<1>11. ASSUME NEW p \in Procs, KillDeletesContext(p) PROVE KernelInv'
  BY <1>11 DEF KillDeletesContext, TypeOK, Control,
     StaleIsKnown, LegalAccessServed, Directories, Creating, Dying, Panics, Statuses
<1>12. ASSUME NEW p \in Procs, KillUnqueues(p) PROVE KernelInv'
  BY <1>12 DEF KillUnqueues, TypeOK, Control,
     StaleIsKnown, LegalAccessServed, Directories, Creating, Dying, Panics, Statuses
<1>13. CASE UNCHANGED pageFaultVars
  BY <1>13 DEF pageFaultVars, TypeOK, Control, StaleIsKnown, LegalAccessServed,
     Directories, Creating, Dying
<1>. QED
  BY <1>1, <1>2, <1>3, <1>4, <1>5, <1>6, <1>7, <1>8, <1>9, <1>10, <1>11, <1>12, <1>13
     DEF PageFaultNext, PageFaultHandler, Halted

\* The inductive invariant holds in every reachable state.
THEOREM KernelInvariant == PageFaultSpec => []KernelInv
<1>1. PageFaultInit => KernelInv  BY KernelInit
<1>2. KernelInv /\ [PageFaultNext]_pageFaultVars => KernelInv'  BY KernelStep
<1>. QED  BY <1>1, <1>2, PTL DEF PageFaultSpec

\* Every variable keeps its type; in particular the handler never takes more page
\* frames than there are.
THEOREM KernelTypeCorrect == PageFaultSpec => []TypeOK
<1>1. KernelInv => TypeOK  BY DEF KernelInv
<1>. QED  BY <1>1, KernelInvariant, PTL

\* A page directory that lacks kernel page tables is known to be stale: the dirty
\* flag that the page fault handler looks at is set, or is about to be.
THEOREM SyncCorrect == PageFaultSpec => []StaleIsKnown
<1>1. KernelInv => StaleIsKnown  BY DEF KernelInv
<1>. QED  BY <1>1, KernelInvariant, PTL

\* The page fault handler never commits a page twice and kprocess_syncPD never
\* follows the context of a process that has none.
THEOREM AccessSafe == PageFaultSpec => []LegalAccessServed
<1>1. KernelInv => LegalAccessServed  BY DEF KernelInv
<1>. QED  BY <1>1, KernelInvariant, PTL

\* CR3 holds the kernel's directory or that of a queued process, one process is
\* being made at a time, and a queued directory is up to date while the one being
\* made is not.
THEOREM KernelControlCorrect == PageFaultSpec => []Control
<1>1. KernelInv => Control  BY DEF KernelInv
<1>. QED  BY <1>1, KernelInvariant, PTL

-----------------------------------------------------------------------------
(* The page frames *)

\* The page directories of processes.
Owners == {p \in Procs : status[p] \in {"new", "queued"}}

\* The kernel's directory keeps the tables it had at the start, so that a table
\* that is added is one that was paid for.
KernelFrames == FramesAccounted /\ BootTables \subseteq entries[KERNEL]

\* Each part of the sum that FramesAccounted takes is the size of a finite set.
LEMMA FiniteParts ==
  ASSUME TypeOK
  PROVE  /\ Directories \ {KERNEL} = Owners
         /\ IsFiniteSet(mapped) /\ Cardinality(mapped) \in Nat
         /\ IsFiniteSet(entries[KERNEL] \ BootTables)
         /\ Cardinality(entries[KERNEL] \ BootTables) \in Nat
         /\ IsFiniteSet(Owners) /\ Cardinality(Owners) \in Nat
<1> USE NamesAssumption, TablesAssumption, FramesAssumption
<1>0. IsFiniteSet(Procs) /\ IsFiniteSet(Tables) /\ IsFiniteSet(Lazy)
  BY NamesAssumption
<1>1. Directories \ {KERNEL} = Owners
  BY DEF Directories, Owners
<1>2. IsFiniteSet(mapped)
  BY <1>0, FS_Subset DEF TypeOK
<1>3. IsFiniteSet(entries[KERNEL] \ BootTables)
  <2>1. entries[KERNEL] \ BootTables \in SUBSET Tables
    BY DEF TypeOK
  <2>. QED  BY <1>0, <2>1, FS_Subset
<1>4. IsFiniteSet(Owners)
  <2>1. Owners \in SUBSET Procs
    BY DEF Owners
  <2>. QED  BY <1>0, <2>1, FS_Subset
<1>. QED  BY <1>1, <1>2, <1>3, <1>4, FS_CardinalityType

\* At the start no frame is in use.
LEMMA KernelFramesInit == PageFaultInit => KernelFrames
<1> USE NamesAssumption, TablesAssumption, FramesAssumption
<1> SUFFICES ASSUME PageFaultInit PROVE KernelFrames
  OBVIOUS
<1>1. entries[KERNEL] = BootTables
  BY DEF PageFaultInit
<1>2. mapped = {} /\ entries[KERNEL] \ BootTables = {} /\ Directories \ {KERNEL} = {}
  BY <1>1 DEF PageFaultInit, Directories
<1>3. frames = NumFrames
  BY DEF PageFaultInit
<1>. QED  BY <1>1, <1>2, <1>3, FS_EmptySet DEF KernelFrames, FramesAccounted

\* A step that leaves the sets and the frames alone.
LEMMA SameFrames ==
  ASSUME KernelInv, KernelFrames, pc \in {"run", "access"},
         UNCHANGED <<mapped, frames>>, entries'[KERNEL] = entries[KERNEL], Owners' = Owners,
         Directories' \ {KERNEL} = Owners'
  PROVE  KernelFrames'
BY FiniteParts DEF KernelInv, KernelFrames, FramesAccounted

\* Every action keeps the account, with the invariant above before and after it.
LEMMA KernelFramesStep ==
  KernelInv /\ KernelFrames /\ [PageFaultNext]_pageFaultVars /\ KernelInv' => KernelFrames'
<1> USE NamesAssumption, TablesAssumption, FramesAssumption
<1> SUFFICES ASSUME KernelInv, KernelFrames, [PageFaultNext]_pageFaultVars, KernelInv' PROVE KernelFrames'
  OBVIOUS
<1>0. /\ Directories' \ {KERNEL} = Owners'
      /\ Directories \ {KERNEL} = Owners
      /\ IsFiniteSet(mapped) /\ Cardinality(mapped) \in Nat
      /\ IsFiniteSet(entries[KERNEL] \ BootTables)
      /\ Cardinality(entries[KERNEL] \ BootTables) \in Nat
      /\ IsFiniteSet(Owners) /\ Cardinality(Owners) \in Nat
      /\ frames \in Nat /\ NumFrames \in Nat
  <2>1. Directories' \ {KERNEL} = Owners'
    BY DEF Directories, Owners
  <2>. QED  BY <2>1, FiniteParts DEF KernelInv, TypeOK
<1>1. ASSUME NEW x \in Lazy, Access(x) PROVE KernelFrames'
  BY <1>1, <1>0, SameFrames DEF Access, Owners
<1>2. CASE AccessDone
  BY <1>2, <1>0, SameFrames DEF AccessDone, Owners
<1>3. CASE PageFaultSync
  <2>1. entries'[KERNEL] = entries[KERNEL]
    BY <1>3 DEF PageFaultSync, kprocess_syncPD
  <2>. QED  BY <1>3, <2>1, <1>0, SameFrames DEF PageFaultSync, Faults, Owners
<1>4. CASE PageFaultCommit
  <2>1. accessing \notin mapped
    BY <1>4, FaultOfMapped DEF PageFaultCommit
  <2>2. /\ mapped' = mapped \cup {accessing} /\ frames' = frames - FramesNeeded(accessing)
        /\ entries'[KERNEL] = entries[KERNEL] \cup {TableOf[accessing]}
        /\ Owners' = Owners /\ pc = "access"
    BY <1>4 DEF PageFaultCommit, commitVirtualPages, kprocess_syncPD, Owners, Faults
  <2>3. Cardinality(mapped') = Cardinality(mapped) + 1
    BY <2>1, <2>2, <1>0, FS_AddElement
  <2>4. Cardinality(entries'[KERNEL] \ BootTables)
          = Cardinality(entries[KERNEL] \ BootTables) + (FramesNeeded(accessing) - 1)
    <3>1. CASE TableOf[accessing] \in entries[KERNEL]
      <4>1. entries'[KERNEL] = entries[KERNEL] /\ FramesNeeded(accessing) = 1
        BY <3>1, <2>2 DEF FramesNeeded
      <4>. QED  BY <4>1, <1>0
    <3>2. CASE TableOf[accessing] \notin entries[KERNEL]
      <4>1. /\ TableOf[accessing] \notin BootTables
            /\ entries'[KERNEL] \ BootTables
                 = (entries[KERNEL] \ BootTables) \cup {TableOf[accessing]}
            /\ TableOf[accessing] \notin entries[KERNEL] \ BootTables
        BY <3>2, <2>2 DEF KernelFrames
      <4>2. Cardinality(entries'[KERNEL] \ BootTables)
              = Cardinality(entries[KERNEL] \ BootTables) + 1
        BY <4>1, <1>0, FS_AddElement
      <4>3. FramesNeeded(accessing) = 2
        BY <3>2 DEF FramesNeeded
      <4>. QED  BY <4>2, <4>3, <1>0
    <3>. QED  BY <3>1, <3>2
  <2>5. BootTables \subseteq entries'[KERNEL]
    BY <2>2 DEF KernelFrames
  <2>6. FramesNeeded(accessing) \in Nat
    BY DEF FramesNeeded
  <2>7. frames + Cardinality(mapped) + Cardinality(entries[KERNEL] \ BootTables)
               + Cardinality(Owners) = NumFrames
    BY <1>0, <2>2 DEF KernelFrames, FramesAccounted
  <2>8. frames' + Cardinality(mapped') + Cardinality(entries'[KERNEL] \ BootTables)
                + Cardinality(Owners') = NumFrames
    BY <1>0, <2>2, <2>3, <2>4, <2>6, <2>7
  <2>. QED  BY <2>5, <2>8, <1>0 DEF KernelFrames, FramesAccounted
<1>5. CASE PageFaultNoMemory
  BY <1>5 DEF PageFaultNoMemory, KernelFrames, FramesAccounted
<1>6. CASE KernelReady
  BY <1>6, <1>0, SameFrames DEF KernelReady, Owners
<1>7. ASSUME NEW p \in Procs, CreatePageDirectory(p) PROVE KernelFrames'
  <2>1. Owners' = Owners \cup {p} /\ p \notin Owners
    BY <1>7 DEF CreatePageDirectory, Owners, KernelInv, TypeOK
  <2>2. Cardinality(Owners') = Cardinality(Owners) + 1
    BY <2>1, <1>0, FS_AddElement
  <2>3. /\ entries'[KERNEL] = entries[KERNEL] /\ mapped' = mapped
        /\ frames' = frames - 1 /\ pc = "run"
    BY <1>7 DEF CreatePageDirectory, kpg_setupPageDirectory, KernelInv, TypeOK
  <2>4. frames + Cardinality(mapped) + Cardinality(entries[KERNEL] \ BootTables)
               + Cardinality(Owners) = NumFrames
    BY <1>0, <2>3 DEF KernelFrames, FramesAccounted
  <2>5. frames' + Cardinality(mapped') + Cardinality(entries'[KERNEL] \ BootTables)
                + Cardinality(Owners') = NumFrames
    BY <1>0, <2>2, <2>3, <2>4
  <2>6. BootTables \subseteq entries'[KERNEL]
    BY <2>3 DEF KernelFrames
  <2>. QED  BY <2>5, <2>6, <1>0 DEF KernelFrames, FramesAccounted
<1>8. ASSUME NEW p \in Procs, s_enqueue(p) PROVE KernelFrames'
  <2>1. Owners' = Owners
    BY <1>8 DEF s_enqueue, Owners, KernelInv, TypeOK
  <2>. QED  BY <1>8, <2>1, <1>0, SameFrames DEF s_enqueue
<1>9. ASSUME NEW p \in Procs, CreateFails(p) PROVE KernelFrames'
  <2>1. Owners' = Owners \ {p} /\ p \in Owners
    BY <1>9 DEF CreateFails, Owners, KernelInv, TypeOK
  <2>2. Cardinality(Owners') = Cardinality(Owners) - 1
    BY <2>1, <1>0, FS_RemoveElement
  <2>3. /\ entries'[KERNEL] = entries[KERNEL] /\ mapped' = mapped
        /\ frames' = frames + 1 /\ pc = "run"
    BY <1>9 DEF CreateFails, KernelInv, TypeOK
  <2>4. frames + Cardinality(mapped) + Cardinality(entries[KERNEL] \ BootTables)
               + Cardinality(Owners) = NumFrames
    BY <1>0, <2>3 DEF KernelFrames, FramesAccounted
  <2>5. frames' + Cardinality(mapped') + Cardinality(entries'[KERNEL] \ BootTables)
                + Cardinality(Owners') = NumFrames
    BY <1>0, <2>2, <2>3, <2>4
  <2>6. BootTables \subseteq entries'[KERNEL]
    BY <2>3 DEF KernelFrames
  <2>. QED  BY <2>5, <2>6, <1>0 DEF KernelFrames, FramesAccounted
<1>10. ASSUME NEW p \in Procs, s_switchProcess(p) PROVE KernelFrames'
  BY <1>10, <1>0, SameFrames DEF s_switchProcess, Owners
<1>11. ASSUME NEW p \in Procs, KillDeletesContext(p) PROVE KernelFrames'
  <2>1. Owners' = Owners \ {p} /\ p \in Owners
    BY <1>11 DEF KillDeletesContext, Owners, KernelInv, TypeOK
  <2>2. Cardinality(Owners') = Cardinality(Owners) - 1
    BY <2>1, <1>0, FS_RemoveElement
  <2>3. /\ entries'[KERNEL] = entries[KERNEL] /\ mapped' = mapped
        /\ frames' = frames + 1 /\ pc = "run"
    BY <1>11 DEF KillDeletesContext, KernelInv, TypeOK
  <2>4. frames + Cardinality(mapped) + Cardinality(entries[KERNEL] \ BootTables)
               + Cardinality(Owners) = NumFrames
    BY <1>0, <2>3 DEF KernelFrames, FramesAccounted
  <2>5. frames' + Cardinality(mapped') + Cardinality(entries'[KERNEL] \ BootTables)
                + Cardinality(Owners') = NumFrames
    BY <1>0, <2>2, <2>3, <2>4
  <2>6. BootTables \subseteq entries'[KERNEL]
    BY <2>3 DEF KernelFrames
  <2>. QED  BY <2>5, <2>6, <1>0 DEF KernelFrames, FramesAccounted
<1>12. ASSUME NEW p \in Procs, KillUnqueues(p) PROVE KernelFrames'
  <2>1. Owners' = Owners
    BY <1>12 DEF KillUnqueues, Owners, KernelInv, TypeOK
  <2>. QED  BY <1>12, <2>1, <1>0, SameFrames DEF KillUnqueues
<1>13. CASE UNCHANGED pageFaultVars
  BY <1>13, <1>0 DEF pageFaultVars, KernelFrames, FramesAccounted, Directories
<1>. QED
  BY <1>1, <1>2, <1>3, <1>4, <1>5, <1>6, <1>7, <1>8, <1>9, <1>10, <1>11, <1>12, <1>13
     DEF PageFaultNext, PageFaultHandler, Halted

\* Until a panic no page frame is lost by the page fault handler or by creating and
\* killing page directories: every frame is free, a mapped page, a page table of
\* the kernel or a page directory.
THEOREM FramesCorrect == PageFaultSpec => []FramesAccounted
<1>1. PageFaultInit => KernelFrames  BY KernelFramesInit
<1>2. KernelInv /\ KernelFrames /\ [PageFaultNext]_pageFaultVars /\ KernelInv' => KernelFrames'  BY KernelFramesStep
<1>3. KernelFrames => FramesAccounted  BY DEF KernelFrames
<1>. QED  BY <1>1, <1>2, <1>3, KernelInvariant, PTL DEF PageFaultSpec

\* For any number of processes, pages and frames the kernel's half of memory is kept
\* in order: by page faults, and by page directories that come and go.
THEOREM KernelHalfCorrect == PageFaultSpec => []KernelHalfOK
<1>1. TypeOK /\ StaleIsKnown /\ Control /\ FramesAccounted => KernelHalfOK  BY DEF KernelHalfOK
<1>. QED  BY <1>1, KernelTypeCorrect, SyncCorrect, KernelControlCorrect, FramesCorrect, PTL

-----------------------------------------------------------------------------
(* The mouse: its set-up and the handler of its interrupt, for any movements, any number of
   them and any number of faults. *)

\* Bits put together to a byte are found there again.
LEMMA BitsOfByte ==
  ASSUME NEW S \in SUBSET (0..7)
  PROVE  Bits(Byte(S)) = S /\ Byte(S) \in Int
<1> DEFINE b == Byte(S)
<1>1. /\ (b \div 1) % 2 = 1 <=> 0 \in S
      /\ (b \div 2) % 2 = 1 <=> 1 \in S
      /\ (b \div 4) % 2 = 1 <=> 2 \in S
      /\ (b \div 8) % 2 = 1 <=> 3 \in S
  BY DEF Byte, Weight
<1>2. /\ (b \div 16) % 2 = 1 <=> 4 \in S
      /\ (b \div 32) % 2 = 1 <=> 5 \in S
      /\ (b \div 64) % 2 = 1 <=> 6 \in S
      /\ (b \div 128) % 2 = 1 <=> 7 \in S
  BY DEF Byte, Weight
<1>3. b \in Int  BY DEF Byte, Weight
<1> HIDE DEF b
<1>4. \A i \in 0..7 : i \in Bits(b) <=> i \in S
  <2> SUFFICES ASSUME NEW i \in 0..7 PROVE i \in Bits(b) <=> i \in S  OBVIOUS
  <2>1. i = 0 \/ i = 1 \/ i = 2 \/ i = 3 \/ i = 4 \/ i = 5 \/ i = 6 \/ i = 7  OBVIOUS
  <2>. QED  BY <1>1, <1>2, <2>1 DEF Bits, Weight
<1>. QED  BY <1>3, <1>4 DEF Bits, b

Hardware == [out : Seq(Int), config : SUBSET (0..7), expect : {"config", "mouse", "keyboard"},
             ports : SUBSET {1, 2}, reporting : BOOLEAN, rate : Int, arg : BOOLEAN, faults : Int]

\* The sample rate that was asked for.
RATE == CONFIG_PS2_MOUSE_SAMPLE_RATE

\* The last byte under way is like the sample rate.
Ends(s) == s # <<>> /\ s[Len(s)] = RATE

\* The first byte of the state that the mouse tells.
Status(h) == IF h.reporting THEN 32 ELSE 0

\* If the last byte is like the sample rate, then the mouse has told its state, and
\* nothing has changed since.
Telling(h) ==
  Ends(h.out) => /\ h.rate = RATE /\ CLOCK2_OFF \notin h.config /\ h.expect # "config" /\ ~h.arg
                 /\ Len(h.out) >= 2 => h.out[Len(h.out) - 1] = 2
                 /\ Len(h.out) >= 3 => h.out[Len(h.out) - 2] = Status(h)

\* Bytes that are sent follow the ones under way.
LEMMA PutLast ==
  ASSUME NEW s \in Seq(Int), NEW t \in Seq(Int), t # <<>>
  PROVE  /\ s \o t \in Seq(Int) /\ s \o t # <<>> /\ Len(s \o t) = Len(s) + Len(t)
         /\ \A i \in 1..Len(t) : (s \o t)[Len(s) + i] = t[i]
         /\ Ends(s \o t) <=> Ends(t)
BY DEF Ends

\* Reading the first byte leaves the last one where it is.
LEMMA TailLast ==
  ASSUME NEW s \in Seq(Int), s # <<>>
  PROVE  /\ Tail(s) \in Seq(Int) /\ Len(Tail(s)) = Len(s) - 1 /\ Head(s) \in Int /\ Head(s) = s[1]
         /\ \A i \in 1..(Len(s) - 1) : Tail(s)[i] = s[i + 1]
         /\ Ends(Tail(s)) => Ends(s)
BY DEF Ends

\* The fields of h other than the bytes under way and the number of faults are those of g.
SameState(h, g) ==
  /\ g.config = h.config /\ g.expect = h.expect /\ g.ports = h.ports
  /\ g.reporting = h.reporting /\ g.rate = h.rate /\ g.arg = h.arg

\* The parts of the hardware, and what a change of one of them leaves alone.
LEMMA HardwareFields ==
  ASSUME NEW h \in Hardware
  PROVE  /\ h.ports \in SUBSET {1, 2} /\ h.out \in Seq(Int) /\ h.config \in SUBSET (0..7)
         /\ h.expect \in {"config", "mouse", "keyboard"} /\ h.reporting \in BOOLEAN
         /\ h.rate \in Int /\ h.arg \in BOOLEAN /\ h.faults \in Int
BY DEF Hardware

\* Other bytes under way.
LEMMA SetOut ==
  ASSUME NEW h \in Hardware, NEW x \in Seq(Int)
  PROVE  LET g == [h EXCEPT !.out = x]
         IN g \in Hardware /\ g.out = x /\ SameState(h, g) /\ g.faults = h.faults
BY DEF Hardware, SameState

\* Another number of faults.
LEMMA SetFaults ==
  ASSUME NEW h \in Hardware, NEW x \in Int
  PROVE  LET g == [h EXCEPT !.faults = x]
         IN g \in Hardware /\ g.out = h.out /\ SameState(h, g)
BY DEF Hardware, SameState

\* Another configuration byte.
LEMMA SetConfig ==
  ASSUME NEW h \in Hardware, NEW x \in SUBSET (0..7)
  PROVE  LET g == [h EXCEPT !.config = x]
         IN /\ g \in Hardware /\ g.out = h.out /\ g.config = x /\ g.expect = h.expect
            /\ g.reporting = h.reporting /\ g.rate = h.rate /\ g.arg = h.arg
BY DEF Hardware

\* Another receiver of the next data byte.
LEMMA SetExpect ==
  ASSUME NEW h \in Hardware, NEW x \in {"config", "mouse", "keyboard"}
  PROVE  LET g == [h EXCEPT !.expect = x]
         IN /\ g \in Hardware /\ g.out = h.out /\ g.config = h.config /\ g.expect = x
            /\ g.reporting = h.reporting /\ g.rate = h.rate /\ g.arg = h.arg
            /\ g.ports = h.ports /\ g.faults = h.faults
BY DEF Hardware

\* Bytes that are sent change nothing else.
LEMMA PutHardware ==
  ASSUME NEW h \in Hardware, NEW t \in Seq(Int)
  PROVE  Put(h, t) \in Hardware /\ Put(h, t).out = h.out \o t /\ SameState(h, Put(h, t))
<1> DEFINE x == h.out \o t
<1>1. x \in Seq(Int)  BY HardwareFields
<1>2. Put(h, t) = [h EXCEPT !.out = x]  BY DEF Put
<1> HIDE DEF x
<1>3. Put(h, t) \in Hardware /\ Put(h, t).out = x /\ SameState(h, Put(h, t))
  BY <1>1, <1>2, SetOut
<1>. QED  BY <1>3 DEF x

\* A fault changes nothing else.
LEMMA FaultHardware ==
  ASSUME NEW h \in Hardware
  PROVE  Fault(h) \in Hardware /\ Fault(h).out = h.out /\ SameState(h, Fault(h))
<1> DEFINE x == h.faults - 1
<1>1. x \in Int  BY HardwareFields
<1>2. Fault(h) = [h EXCEPT !.faults = x]  BY DEF Fault
<1> HIDE DEF x
<1>. QED  BY <1>1, <1>2, SetFaults

\* What the mouse's settings become.
LEMMA SetMouse ==
  ASSUME NEW h \in Hardware, NEW x \in Int, NEW y \in BOOLEAN
  PROVE  /\ LET g == [h EXCEPT !.rate = x, !.arg = FALSE] IN g \in Hardware /\ g.out = h.out
         /\ LET g == [h EXCEPT !.reporting = FALSE, !.rate = x] IN g \in Hardware /\ g.out = h.out
         /\ LET g == [h EXCEPT !.reporting = y] IN g \in Hardware /\ g.out = h.out
         /\ LET g == [h EXCEPT !.arg = TRUE] IN g \in Hardware /\ g.out = h.out
BY DEF Hardware

----------------------------------------------------------------------------
\* Nothing like the sample rate was sent on the way from h to g.
Calm(h, g) == g \in Hardware /\ (Ends(g.out) => Ends(h.out))

\* Calm steps follow one another.
LEMMA CalmTrans ==
  ASSUME NEW f, NEW g, NEW h, Calm(f, g), Calm(g, h)
  PROVE  Calm(f, h)
BY DEF Calm

\* A byte unlike the sample rate, when it is sent, is the last one.
LEMMA PutOther ==
  ASSUME NEW h \in Hardware, NEW b \in Int, b # RATE
  PROVE  Put(h, <<b>>) \in Hardware /\ ~Ends(Put(h, <<b>>).out)
<1>1. <<b>> \in Seq(Int) /\ <<b>> # <<>> /\ ~Ends(<<b>>)  BY DEF Ends
<1>2. ~Ends(h.out \o <<b>>)  BY <1>1, PutLast, HardwareFields
<1>. QED  BY <1>1, <1>2, PutHardware

\* Sending such a byte is a calm step.
LEMMA PutCalm ==
  ASSUME NEW h \in Hardware, NEW g \in Hardware, g.out = h.out, NEW b \in Int, b # RATE
  PROVE  Calm(h, Put(g, <<b>>))
BY PutOther DEF Calm

\* The mouse sends its sample rate only when it is asked for its state.
LEMMA ToMouseCalm ==
  ASSUME NEW h \in Hardware, NEW b \in Int, b # 233 \/ h.arg
  PROVE  Calm(h, ToMouse(h, b))
<1>1. ACK \in Int /\ ACK # RATE /\ RESEND \in Int /\ RESEND # RATE /\ DEFAULT_RATE \in Int
  BY DEF ACK, RESEND, RATE, CONFIG_PS2_MOUSE_SAMPLE_RATE, DEFAULT_RATE
<1>2. h.arg \in BOOLEAN  BY HardwareFields
<1> DEFINE m1 == [h EXCEPT !.rate = b, !.arg = FALSE]
           m2 == [h EXCEPT !.reporting = FALSE, !.rate = DEFAULT_RATE]
           m3 == [h EXCEPT !.reporting = FALSE]
           m4 == [h EXCEPT !.reporting = TRUE]
           m5 == [h EXCEPT !.arg = TRUE]
<1>3. /\ m1 \in Hardware /\ m1.out = h.out /\ m2 \in Hardware /\ m2.out = h.out
      /\ m3 \in Hardware /\ m3.out = h.out /\ m4 \in Hardware /\ m4.out = h.out
      /\ m5 \in Hardware /\ m5.out = h.out
  BY <1>1, SetMouse
<1>4. ToMouse(h, b) \in {Put(m1, <<ACK>>), Put(m2, <<ACK>>), Put(m3, <<ACK>>), Put(m4, <<ACK>>),
                         Put(m5, <<ACK>>), Put(h, <<ACK, 0>>), Put(h, <<RESEND>>)}
  BY <1>2 DEF ToMouse
<1> HIDE DEF m1, m2, m3, m4, m5
<1>5. Calm(h, Put(m1, <<ACK>>))  BY <1>1, <1>3, PutCalm
<1>6. Calm(h, Put(m2, <<ACK>>))  BY <1>1, <1>3, PutCalm
<1>7. Calm(h, Put(m3, <<ACK>>))  BY <1>1, <1>3, PutCalm
<1>8. Calm(h, Put(m4, <<ACK>>))  BY <1>1, <1>3, PutCalm
<1>9. Calm(h, Put(m5, <<ACK>>))  BY <1>1, <1>3, PutCalm
<1>10. Calm(h, Put(h, <<RESEND>>))  BY <1>1, PutCalm
<1>11. Calm(h, Put(h, <<ACK, 0>>))
  <2>1. <<ACK, 0>> \in Seq(Int) /\ <<ACK, 0>> # <<>> /\ ~Ends(<<ACK, 0>>)
    BY <1>1 DEF Ends, RATE, CONFIG_PS2_MOUSE_SAMPLE_RATE
  <2>2. ~Ends(h.out \o <<ACK, 0>>)  BY <2>1, PutLast, HardwareFields
  <2>. QED  BY <2>1, <2>2, PutHardware DEF Calm
<1>. QED  BY ONLY <1>4, <1>5, <1>6, <1>7, <1>8, <1>9, <1>10, <1>11

\* Neither a fault nor a request to resend looks like the sample rate.
LEMMA FaultCalm ==
  ASSUME NEW h \in Hardware
  PROVE  Calm(h, Fault(h)) /\ Calm(h, Put(Fault(h), <<RESEND>>)) /\ Calm(h, h)
<1>1. RESEND \in Int /\ RESEND # RATE  BY DEF RESEND, RATE, CONFIG_PS2_MOUSE_SAMPLE_RATE
<1>. QED  BY <1>1, FaultHardware, PutCalm DEF Calm

\* So do the bytes for the mouse, garbled or lost ones too, unless they ask for its state.
LEMMA MouseBytesCalm ==
  ASSUME NEW h \in Hardware, NEW b \in Int, b # 233 \/ h.arg, NEW g \in MouseBytes(h, b)
  PROVE  Calm(h, g)
<1>1. g \in {h, ToMouse(h, b), Put(Fault(h), <<RESEND>>), Fault(h)}  BY DEF MouseBytes
<1>. QED  BY <1>1, FaultCalm, ToMouseCalm

\* The same for any byte written to the data port.
LEMMA DataPortCalm ==
  ASSUME NEW h \in Hardware, NEW b \in Int, b # 233 \/ h.arg, NEW g \in DataPort(h, b)
  PROVE  Calm(h, g)
<1> DEFINE f == [h EXCEPT !.expect = "keyboard"]
           k == [f EXCEPT !.config = Bits(b)]
<1>1. f \in Hardware /\ f.out = h.out /\ f.arg = h.arg  BY SetExpect
<1>2. Bits(b) \in SUBSET (0..7)  BY DEF Bits
<1>3. k \in Hardware /\ k.out = h.out  BY <1>1, <1>2, SetConfig
<1>4. Calm(h, f) /\ Calm(h, k)  BY <1>1, <1>3 DEF Calm
<1>5. g \in {k, f, Put(f, <<ACK>>)} \cup MouseBytes(f, b)  BY HardwareFields DEF DataPort
<1>6. ACK \in Int /\ ACK # RATE  BY DEF ACK, RATE, CONFIG_PS2_MOUSE_SAMPLE_RATE
<1> HIDE DEF f, k
<1>7. Calm(h, Put(f, <<ACK>>))  BY <1>1, <1>6, PutCalm
<1>8. ASSUME g \in MouseBytes(f, b) PROVE Calm(h, g)
  <2>1. Calm(f, g)  BY <1>1, <1>8, MouseBytesCalm
  <2>. QED  BY <1>4, <2>1, CalmTrans
<1>. QED  BY <1>4, <1>5, <1>7, <1>8

\* The commands that the driver gives the controller.
ControllerCommands == {173, 167, 174, 168, 32, 96, 212, 170, 171, 169}

\* Only a request for its configuration makes the controller send bytes it did not choose.
LEMMA CommandPortCalm ==
  ASSUME NEW h \in Hardware, NEW b \in ControllerCommands, b = 32 => Byte(h.config) # RATE,
         NEW g \in CommandPort(h, b)
  PROVE  Calm(h, g)
<1>1. h.config \in SUBSET (0..7)  BY HardwareFields
<1> DEFINE c1 == h.config \cup {CLOCK1_OFF}
           c2 == h.config \cup {CLOCK2_OFF}
           c3 == h.config \ {CLOCK1_OFF}
           c4 == h.config \ {CLOCK2_OFF}
           t1 == IF 1 \in h.ports THEN 0 ELSE 1
           t2 == IF 2 \in h.ports THEN 0 ELSE 1
<1>2. c1 \in SUBSET (0..7) /\ c2 \in SUBSET (0..7) /\ c3 \in SUBSET (0..7) /\ c4 \in SUBSET (0..7)
  BY <1>1 DEF CLOCK1_OFF, CLOCK2_OFF
<1>3. t1 \in Int /\ t1 # RATE /\ t2 \in Int /\ t2 # RATE /\ 85 \in Int /\ 85 # RATE
  BY DEF RATE, CONFIG_PS2_MOUSE_SAMPLE_RATE
<1>4. \/ g = [h EXCEPT !.config = c1] \/ g = [h EXCEPT !.config = c2]
      \/ g = [h EXCEPT !.config = c3] \/ g = [h EXCEPT !.config = c4]
      \/ b = 32 /\ g = Put(h, <<Byte(h.config)>>)
      \/ g = [h EXCEPT !.expect = "config"] \/ g = [h EXCEPT !.expect = "mouse"]
      \/ g = Put(h, <<85>>) \/ g = Put(h, <<t1>>) \/ g = Put(h, <<t2>>)
  BY DEF CommandPort, ControllerCommands
<1> HIDE DEF c1, c2, c3, c4, t1, t2
<1>5. CASE \E c \in {c1, c2, c3, c4} : g = [h EXCEPT !.config = c]
  <2>1. \A c \in SUBSET (0..7) : Calm(h, [h EXCEPT !.config = c])  BY SetConfig DEF Calm
  <2>. QED  BY <1>2, <1>5, <2>1
<1>6. CASE b = 32 /\ g = Put(h, <<Byte(h.config)>>)
  <2> DEFINE x == Byte(h.config)
  <2>1. x \in Int /\ x # RATE  BY <1>1, <1>6, BitsOfByte
  <2> HIDE DEF x
  <2>2. g = Put(h, <<x>>)  BY <1>6 DEF x
  <2>. QED  BY <2>1, <2>2, PutCalm
<1>7. CASE g = [h EXCEPT !.expect = "config"] \/ g = [h EXCEPT !.expect = "mouse"]
  <2>1. \A e \in {"config", "mouse", "keyboard"} : Calm(h, [h EXCEPT !.expect = e])
    BY SetExpect DEF Calm
  <2>. QED  BY <1>7, <2>1
<1>8. CASE g = Put(h, <<85>>) \/ g = Put(h, <<t1>>) \/ g = Put(h, <<t2>>)
  BY <1>3, <1>8, PutCalm
<1>. QED  BY <1>4, <1>5, <1>6, <1>7, <1>8

\* The same for ps2_wait_write.
LEMMA WriteCalm ==
  ASSUME NEW h \in Hardware, NEW port, NEW b \in Int,
         IF port = "command" THEN b \in ControllerCommands /\ (b = 32 => Byte(h.config) # RATE)
                             ELSE b # 233 \/ h.arg,
         NEW o \in ps2_wait_write(h, port, b)
  PROVE  Calm(h, o.hw)
<1>1. \/ o = Outcome(FALSE, Fault(h), UNREAD)
      \/ \E g \in IF port = "command" THEN CommandPort(h, b) ELSE DataPort(h, b) :
           o = Outcome(TRUE, g, UNREAD)
  BY DEF ps2_wait_write
<1>2. CASE o = Outcome(FALSE, Fault(h), UNREAD)
  BY <1>2, FaultCalm DEF Outcome
<1>3. CASE \E g \in IF port = "command" THEN CommandPort(h, b) ELSE DataPort(h, b) :
             o = Outcome(TRUE, g, UNREAD)
  <2>1. PICK g \in IF port = "command" THEN CommandPort(h, b) ELSE DataPort(h, b) :
               o = Outcome(TRUE, g, UNREAD)
    BY <1>3
  <2>2. o.hw = g  BY <2>1 DEF Outcome
  <2>3. Calm(h, g)  BY <2>1, CommandPortCalm, DataPortCalm
  <2>. QED  BY <2>2, <2>3
<1>. QED  BY <1>1, <1>2, <1>3

\* What a read may do.
LEMMA ReadOutcome ==
  ASSUME NEW h \in Hardware, NEW o \in ps2_wait_read(h)
  PROVE  \/ o.ok = FALSE /\ o.byte = UNREAD /\ o.hw = h /\ h.out = <<>>
         \/ o.ok = FALSE /\ o.byte = UNREAD /\ o.hw = Fault(h) /\ h.out # <<>>
         \/ /\ o.ok = TRUE /\ h.out # <<>> /\ o.byte = Head(h.out)
            /\ o.hw = [h EXCEPT !.out = Tail(h.out)]
<1>1. \/ o = Outcome(FALSE, h, UNREAD) /\ h.out = <<>>
      \/ o = Outcome(FALSE, Fault(h), UNREAD) /\ h.out # <<>>
      \/ h.out # <<>> /\ o = Outcome(TRUE, [h EXCEPT !.out = Tail(h.out)], Head(h.out))
  BY DEF ps2_wait_read
<1>. QED  BY <1>1 DEF Outcome

\* A read changes nothing but the bytes under way, and takes the first of them.
LEMMA ReadHardware ==
  ASSUME NEW h \in Hardware, NEW o \in ps2_wait_read(h)
  PROVE  /\ o.hw \in Hardware /\ SameState(h, o.hw) /\ o.byte \in Int /\ o.ok \in BOOLEAN
         /\ o.hw.out = IF o.ok THEN Tail(h.out) ELSE h.out
         /\ o.ok => h.out # <<>> /\ o.byte = Head(h.out)
<1>1. ASSUME h.out # <<>> PROVE Tail(h.out) \in Seq(Int) /\ Head(h.out) \in Int
  BY <1>1, HardwareFields, TailLast
<1>2. h \in Hardware /\ SameState(h, h)  BY DEF SameState
<1>3. UNREAD \in Int  BY DEF UNREAD
<1>4. CASE o.ok = FALSE /\ o.byte = UNREAD /\ o.hw = h  BY <1>2, <1>3, <1>4
<1>5. CASE o.ok = FALSE /\ o.byte = UNREAD /\ o.hw = Fault(h)  BY <1>3, <1>5, FaultHardware
<1>6. CASE /\ o.ok = TRUE /\ h.out # <<>> /\ o.byte = Head(h.out)
           /\ o.hw = [h EXCEPT !.out = Tail(h.out)]
  <2> DEFINE x == Tail(h.out)
  <2>1. x \in Seq(Int)  BY <1>1, <1>6
  <2>2. o.hw = [h EXCEPT !.out = x]  BY <1>6
  <2> HIDE DEF x
  <2>3. o.hw \in Hardware /\ SameState(h, o.hw) /\ o.hw.out = x  BY <2>1, <2>2, SetOut
  <2>. QED  BY <1>1, <1>6, <2>3 DEF x
<1>. QED  BY <1>4, <1>5, <1>6, ReadOutcome

\* A read is a calm step.
LEMMA ReadCalm ==
  ASSUME NEW h \in Hardware, NEW o \in ps2_wait_read(h)
  PROVE  Calm(h, o.hw)
BY ReadHardware, HardwareFields, TailLast DEF Calm

\* Commands other than the request for the state are calm steps.
LEMMA NoWaitCalm ==
  ASSUME NEW h \in Hardware, NEW b \in Int, b # 233, NEW g \in ps2_write_device_data_no_wait(h, b)
  PROVE  Calm(h, g)
<1>1. PICK d4 \in ps2_wait_write(h, "command", 212) :
        \E w \in ps2_wait_write(d4.hw, "data", b) : g = w.hw
  BY DEF ps2_write_device_data_no_wait
<1>2. PICK w \in ps2_wait_write(d4.hw, "data", b) : g = w.hw  BY <1>1
<1>3. 212 \in ControllerCommands /\ 212 \in Int  BY DEF ControllerCommands
<1>4. Calm(h, d4.hw)  BY <1>3, WriteCalm
<1>5. d4.hw \in Hardware  BY <1>4 DEF Calm
<1>6. Calm(d4.hw, w.hw)  BY <1>5, WriteCalm
<1>. QED  BY <1>2, <1>4, <1>6, CalmTrans

\* And so are the attempts to send one and to read the acknowledgement.
LEMMA AttemptCalm ==
  ASSUME NEW h \in Hardware, NEW b \in Int, b # 233, NEW o \in Attempt(h, b)
  PROVE  Calm(h, o.hw) /\ o.byte \in Int /\ o.ok \in BOOLEAN
<1>1. PICK g \in ps2_write_device_data_no_wait(h, b) : o \in ps2_wait_read(g)  BY DEF Attempt
<1>2. Calm(h, g)  BY <1>1, NoWaitCalm
<1>3. g \in Hardware  BY <1>2 DEF Calm
<1>. QED  BY <1>1, <1>2, <1>3, ReadCalm, ReadHardware, CalmTrans

\* The byte that ps2_configuration writes for the byte it has read.
NewConfig(b, enabled, disabled) == Byte((Bits(b) \ disabled) \cup enabled)

\* How far ps2_configuration gets.
LEMMA ConfigurationSteps ==
  ASSUME NEW h, NEW enabled, NEW disabled, NEW o \in ps2_configuration(h, enabled, disabled)
  PROVE  \E w \in ps2_wait_write(h, "command", 32) :
           \/ ~w.ok /\ o = w
           \/ /\ w.ok
              /\ \E r \in ps2_wait_read(w.hw) :
                   \/ ~r.ok /\ o = r
                   \/ /\ r.ok
                      /\ \E c \in ps2_wait_write(r.hw, "command", 96) :
                           \/ ~c.ok /\ o.hw = c.hw /\ o.byte = r.byte
                           \/ /\ c.ok
                              /\ \E x \in ps2_wait_write(c.hw, "data",
                                                         NewConfig(r.byte, enabled, disabled)) :
                                   o.hw = x.hw /\ o.byte = r.byte
<1> DEFINE Inner(r) == Then(ps2_wait_write(r.hw, "command", 96), LAMBDA c :
                         ps2_wait_write(c.hw, "data", NewConfig(r.byte, enabled, disabled)))
           Middle(w) == Then(ps2_wait_read(w.hw), LAMBDA r :
                          {Outcome(i.ok, i.hw, r.byte) : i \in Inner(r)})
<1>1. o \in Then(ps2_wait_write(h, "command", 32), Middle)  BY DEF ps2_configuration, NewConfig
<1>2. PICK w \in ps2_wait_write(h, "command", 32) : o \in IF w.ok THEN Middle(w) ELSE {w}
  BY <1>1 DEF Then
<1>3. ASSUME w.ok
      PROVE  \E r \in ps2_wait_read(w.hw) :
               \/ ~r.ok /\ o = r
               \/ r.ok /\ \E i \in Inner(r) : o = Outcome(i.ok, i.hw, r.byte)
  BY <1>2, <1>3 DEF Then
<1>4. \A r : \A i \in Inner(r) : \E c \in ps2_wait_write(r.hw, "command", 96) :
        \/ ~c.ok /\ i = c
        \/ c.ok /\ i \in ps2_wait_write(c.hw, "data", NewConfig(r.byte, enabled, disabled))
  BY DEF Then
<1>5. \A i, r : o = Outcome(i.ok, i.hw, r.byte) => o.hw = i.hw /\ o.byte = r.byte  BY DEF Outcome
<1> HIDE DEF Inner, Middle
<1>6. CASE ~w.ok  BY <1>2, <1>6
<1>7. CASE w.ok
  <2>1. PICK r \in ps2_wait_read(w.hw) :
               \/ ~r.ok /\ o = r
               \/ r.ok /\ \E i \in Inner(r) : o = Outcome(i.ok, i.hw, r.byte)
    BY <1>3, <1>7
  <2>2. CASE ~r.ok /\ o = r  BY <1>7, <2>2
  <2>3. CASE r.ok /\ \E i \in Inner(r) : o = Outcome(i.ok, i.hw, r.byte)
    <3>1. PICK i \in Inner(r) : o = Outcome(i.ok, i.hw, r.byte)  BY <2>3
    <3>2. o.hw = i.hw /\ o.byte = r.byte  BY <1>5, <3>1
    <3>3. PICK c \in ps2_wait_write(r.hw, "command", 96) :
            \/ ~c.ok /\ i = c
            \/ c.ok /\ i \in ps2_wait_write(c.hw, "data", NewConfig(r.byte, enabled, disabled))
      BY <1>4, <3>1
    <3>. QED  BY <1>7, <2>3, <3>2, <3>3
  <2>. QED  BY <2>1, <2>2, <2>3
<1>. QED  BY <1>6, <1>7

\* Successful outcomes of the writes of ps2_configuration.
LEMMA AskedConfig ==
  ASSUME NEW h \in Hardware, NEW w \in ps2_wait_write(h, "command", 32)
  PROVE  \/ w.ok = FALSE /\ w.hw = Fault(h) /\ w.byte = UNREAD
         \/ w.ok = TRUE /\ w.hw = Put(h, <<Byte(h.config)>>)
<1> DEFINE g == Put(h, <<Byte(h.config)>>)
<1>1. CommandPort(h, 32) = {g}  BY DEF CommandPort
<1> HIDE DEF g
<1>2. w = Outcome(FALSE, Fault(h), UNREAD) \/ w = Outcome(TRUE, g, UNREAD)
  BY <1>1 DEF ps2_wait_write
<1>3. CASE w = Outcome(FALSE, Fault(h), UNREAD)  BY <1>3 DEF Outcome
<1>4. CASE w = Outcome(TRUE, g, UNREAD)  BY <1>4 DEF Outcome, g
<1>. QED  BY <1>2, <1>3, <1>4

\* The command that announces a new configuration byte.
LEMMA ToldConfig ==
  ASSUME NEW h \in Hardware, NEW c \in ps2_wait_write(h, "command", 96)
  PROVE  \/ c.ok = FALSE /\ c.hw = Fault(h)
         \/ c.ok = TRUE /\ c.hw = [h EXCEPT !.expect = "config"]
<1> DEFINE g == [h EXCEPT !.expect = "config"]
<1>1. CommandPort(h, 96) = {g}  BY DEF CommandPort
<1> HIDE DEF g
<1>2. c = Outcome(FALSE, Fault(h), UNREAD) \/ c = Outcome(TRUE, g, UNREAD)
  BY <1>1 DEF ps2_wait_write
<1>3. CASE c = Outcome(FALSE, Fault(h), UNREAD)  BY <1>3 DEF Outcome
<1>4. CASE c = Outcome(TRUE, g, UNREAD)  BY <1>4 DEF Outcome, g
<1>. QED  BY <1>2, <1>3, <1>4

\* The configuration byte itself.
LEMMA WroteConfig ==
  ASSUME NEW h \in Hardware, h.expect = "config", NEW b, NEW x \in ps2_wait_write(h, "data", b)
  PROVE  \/ x.hw = Fault(h)
         \/ x.hw = [[h EXCEPT !.expect = "keyboard"] EXCEPT !.config = Bits(b)]
<1>1. x \in {Outcome(FALSE, Fault(h), UNREAD),
             Outcome(TRUE, [[h EXCEPT !.expect = "keyboard"] EXCEPT !.config = Bits(b)], UNREAD)}
  BY DEF ps2_wait_write, DataPort
<1>. QED  BY <1>1 DEF Outcome

\* A configuration byte like the sample rate is the only one that ps2_configuration
\* may have sent.
LEMMA ConfigurationCalm ==
  ASSUME NEW h \in Hardware, NEW enabled, NEW disabled, NEW o \in ps2_configuration(h, enabled, disabled)
  PROVE  /\ o.hw \in Hardware /\ o.byte \in Int
         /\ Byte(h.config) # RATE => Calm(h, o.hw)
<1>1. PICK w \in ps2_wait_write(h, "command", 32) :
           \/ ~w.ok /\ o = w
           \/ /\ w.ok
              /\ \E r \in ps2_wait_read(w.hw) :
                   \/ ~r.ok /\ o = r
                   \/ /\ r.ok
                      /\ \E c \in ps2_wait_write(r.hw, "command", 96) :
                           \/ ~c.ok /\ o.hw = c.hw /\ o.byte = r.byte
                           \/ /\ c.ok
                              /\ \E x \in ps2_wait_write(c.hw, "data",
                                                         NewConfig(r.byte, enabled, disabled)) :
                                   o.hw = x.hw /\ o.byte = r.byte
  BY ConfigurationSteps
<1> DEFINE quiet == Byte(h.config) # RATE
<1>2. w.hw \in Hardware /\ (quiet => Calm(h, w.hw)) /\ (w.ok = FALSE => w.byte = UNREAD) /\ w.ok \in BOOLEAN
  <2> DEFINE b == Byte(h.config)
  <2>1. b \in Int  BY BitsOfByte, HardwareFields
  <2>2. \/ w.ok = FALSE /\ w.hw = Fault(h) /\ w.byte = UNREAD
        \/ w.ok = TRUE /\ w.hw = Put(h, <<b>>)
    BY AskedConfig
  <2> HIDE DEF b
  <2>3. Fault(h) \in Hardware /\ Calm(h, Fault(h))  BY FaultHardware, FaultCalm
  <2>4. Put(h, <<b>>) \in Hardware
    <3>1. <<b>> \in Seq(Int)  BY <2>1
    <3>. QED  BY <3>1, PutHardware
  <2>5. b # RATE => Calm(h, Put(h, <<b>>))  BY <2>1, PutCalm
  <2>. QED  BY <2>2, <2>3, <2>4, <2>5 DEF b
<1> HIDE DEF quiet
<1>3. UNREAD \in Int  BY DEF UNREAD
<1>4. CASE ~w.ok /\ o = w  BY <1>2, <1>3, <1>4 DEF quiet
<1>5. CASE /\ w.ok
           /\ \E r \in ps2_wait_read(w.hw) :
                \/ ~r.ok /\ o = r
                \/ /\ r.ok
                   /\ \E c \in ps2_wait_write(r.hw, "command", 96) :
                        \/ ~c.ok /\ o.hw = c.hw /\ o.byte = r.byte
                        \/ /\ c.ok
                           /\ \E x \in ps2_wait_write(c.hw, "data",
                                                      NewConfig(r.byte, enabled, disabled)) :
                                o.hw = x.hw /\ o.byte = r.byte
  <2>1. PICK r \in ps2_wait_read(w.hw) :
                \/ ~r.ok /\ o = r
                \/ /\ r.ok
                   /\ \E c \in ps2_wait_write(r.hw, "command", 96) :
                        \/ ~c.ok /\ o.hw = c.hw /\ o.byte = r.byte
                        \/ /\ c.ok
                           /\ \E x \in ps2_wait_write(c.hw, "data",
                                                      NewConfig(r.byte, enabled, disabled)) :
                                o.hw = x.hw /\ o.byte = r.byte
    BY <1>5
  <2>2. r.hw \in Hardware /\ r.byte \in Int /\ Calm(w.hw, r.hw)  BY <1>2, ReadHardware, ReadCalm
  <2>3. quiet => Calm(h, r.hw)  BY <1>2, <2>2, CalmTrans
  <2>4. CASE ~r.ok /\ o = r  BY <2>2, <2>3, <2>4 DEF quiet
  <2>5. CASE \E c \in ps2_wait_write(r.hw, "command", 96) :
               \/ ~c.ok /\ o.hw = c.hw /\ o.byte = r.byte
               \/ /\ c.ok
                  /\ \E x \in ps2_wait_write(c.hw, "data", NewConfig(r.byte, enabled, disabled)) :
                       o.hw = x.hw /\ o.byte = r.byte
    <3>1. PICK c \in ps2_wait_write(r.hw, "command", 96) :
               \/ ~c.ok /\ o.hw = c.hw /\ o.byte = r.byte
               \/ /\ c.ok
                  /\ \E x \in ps2_wait_write(c.hw, "data", NewConfig(r.byte, enabled, disabled)) :
                       o.hw = x.hw /\ o.byte = r.byte
      BY <2>5
    <3>2. Calm(r.hw, c.hw)
      <4>1. 96 \in ControllerCommands /\ 96 \in Int /\ 96 # 32  BY DEF ControllerCommands
      <4>. QED  BY <2>2, <4>1, WriteCalm
    <3>3. c.hw \in Hardware  BY <3>2 DEF Calm
    <3>4. quiet => Calm(h, c.hw)  BY <2>3, <3>2, CalmTrans
    <3>5. CASE ~c.ok /\ o.hw = c.hw /\ o.byte = r.byte  BY <2>2, <3>3, <3>4, <3>5 DEF quiet
    <3>6. CASE /\ c.ok
               /\ \E x \in ps2_wait_write(c.hw, "data", NewConfig(r.byte, enabled, disabled)) :
                    o.hw = x.hw /\ o.byte = r.byte
      <4>1. PICK x \in ps2_wait_write(c.hw, "data", NewConfig(r.byte, enabled, disabled)) :
                   o.hw = x.hw /\ o.byte = r.byte
        BY <3>6
      <4>2. c.hw = [r.hw EXCEPT !.expect = "config"]  BY <2>2, <3>6, ToldConfig
      <4>3. c.hw.expect = "config"  BY <2>2, <4>2, SetExpect
      <4> DEFINE n == NewConfig(r.byte, enabled, disabled)
                 k == [c.hw EXCEPT !.expect = "keyboard"]
      <4>4. x.hw = Fault(c.hw) \/ x.hw = [k EXCEPT !.config = Bits(n)]  BY <3>3, <4>1, <4>3, WroteConfig
      <4>5. k \in Hardware /\ k.out = c.hw.out  BY <3>3, SetExpect
      <4>6. Bits(n) \in SUBSET (0..7)  BY DEF Bits
      <4> HIDE DEF n, k
      <4>7. ASSUME x.hw = [k EXCEPT !.config = Bits(n)] PROVE x.hw \in Hardware /\ x.hw.out = c.hw.out
        BY <4>5, <4>6, <4>7, SetConfig
      <4>8. Calm(c.hw, x.hw)  BY <3>3, <4>4, <4>7, FaultCalm DEF Calm
      <4>9. x.hw \in Hardware  BY <4>8 DEF Calm
      <4>. QED  BY <2>2, <3>4, <4>1, <4>8, <4>9, CalmTrans DEF quiet
    <3>. QED  BY <3>1, <3>5, <3>6
  <2>. QED  BY <2>1, <2>4, <2>5
<1>. QED  BY <1>1, <1>4, <1>5

\* What ps2_configuration leaves alone when it leaves nothing behind.
Kept(h, g) == g.out = <<>> => /\ h.out = <<>> /\ g.reporting = h.reporting /\ g.rate = h.rate
                              /\ CLOCK2_OFF \in g.config => CLOCK2_OFF \in h.config

\* Switching on the interrupt of the mouse disturbs nothing else, or leaves a byte behind.
LEMMA MouseInterruptsOn ==
  ASSUME NEW h \in Hardware, NEW o \in ps2_configuration(h, {INT2}, {})
  PROVE  Kept(h, o.hw)
<1> DEFINE on == {INT2}
           off == {}
<1>1. PICK w \in ps2_wait_write(h, "command", 32) :
           \/ ~w.ok /\ o = w
           \/ /\ w.ok
              /\ \E r \in ps2_wait_read(w.hw) :
                   \/ ~r.ok /\ o = r
                   \/ /\ r.ok
                      /\ \E c \in ps2_wait_write(r.hw, "command", 96) :
                           \/ ~c.ok /\ o.hw = c.hw /\ o.byte = r.byte
                           \/ /\ c.ok
                              /\ \E x \in ps2_wait_write(c.hw, "data", NewConfig(r.byte, on, off)) :
                                   o.hw = x.hw /\ o.byte = r.byte
  BY ConfigurationSteps
<1> DEFINE b == Byte(h.config)
<1>2. b \in Int /\ Bits(b) = h.config  BY BitsOfByte, HardwareFields
<1>3. NewConfig(b, on, off) = Byte(h.config \cup {INT2})
  <2>1. (Bits(b) \ off) \cup on = h.config \cup {INT2}  BY <1>2
  <2>. QED  BY <2>1 DEF NewConfig
<1>4. Bits(Byte(h.config \cup {INT2})) = h.config \cup {INT2}
  <2>1. h.config \cup {INT2} \in SUBSET (0..7)  BY HardwareFields DEF INT2
  <2>. QED  BY <2>1, BitsOfByte
<1>5. \/ w.ok = FALSE /\ w.hw = Fault(h)
      \/ w.ok = TRUE /\ w.hw = Put(h, <<b>>)
  BY AskedConfig
<1> HIDE DEF b, on, off
<1>6. CASE ~w.ok /\ o = w
  <2>1. o.hw = Fault(h)  BY <1>5, <1>6
  <2>. QED  BY <2>1, FaultHardware DEF Kept, SameState
<1>7. CASE /\ w.ok
           /\ \E r \in ps2_wait_read(w.hw) :
                \/ ~r.ok /\ o = r
                \/ /\ r.ok
                   /\ \E c \in ps2_wait_write(r.hw, "command", 96) :
                        \/ ~c.ok /\ o.hw = c.hw /\ o.byte = r.byte
                        \/ /\ c.ok
                           /\ \E x \in ps2_wait_write(c.hw, "data", NewConfig(r.byte, on, off)) :
                                o.hw = x.hw /\ o.byte = r.byte
  <2>1. PICK r \in ps2_wait_read(w.hw) :
                \/ ~r.ok /\ o = r
                \/ /\ r.ok
                   /\ \E c \in ps2_wait_write(r.hw, "command", 96) :
                        \/ ~c.ok /\ o.hw = c.hw /\ o.byte = r.byte
                        \/ /\ c.ok
                           /\ \E x \in ps2_wait_write(c.hw, "data", NewConfig(r.byte, on, off)) :
                                o.hw = x.hw /\ o.byte = r.byte
    BY <1>7
  <2>2. w.hw \in Hardware /\ w.hw.out = h.out \o <<b>> /\ SameState(h, w.hw)
    <3>1. <<b>> \in Seq(Int) /\ w.hw = Put(h, <<b>>)  BY <1>2, <1>5, <1>7
    <3>. QED  BY <3>1, PutHardware
  <2>3. /\ r.hw \in Hardware /\ SameState(h, r.hw) /\ r.ok \in BOOLEAN
        /\ r.hw.out = (IF r.ok THEN Tail(w.hw.out) ELSE w.hw.out)
        /\ r.ok => r.byte = Head(w.hw.out)
    BY <2>2, ReadHardware DEF SameState
  <2>4. h.out \in Seq(Int)  BY HardwareFields
  <2>5. w.hw.out \in Seq(Int) /\ Len(w.hw.out) = Len(h.out) + 1  BY <1>2, <2>2, <2>4
  <2>6. ASSUME r.ok, r.hw.out = <<>> PROVE h.out = <<>> /\ r.byte = b
    <3>1. Len(Tail(w.hw.out)) = Len(h.out)  BY <2>5
    <3>2. Tail(w.hw.out) = <<>>  BY <2>3, <2>6
    <3>2a. Len(h.out) = 0  BY <3>1, <3>2
    <3>3. h.out = <<>>  BY <2>4, <3>2a
    <3>4. w.hw.out = <<b>>  BY <1>2, <2>2, <3>3
    <3>. QED  BY <2>3, <2>6, <3>3, <3>4
  <2>7. CASE ~r.ok /\ o = r
    <3>1. o.hw.out # <<>>  BY <2>3, <2>5, <2>7
    <3>. QED  BY <3>1 DEF Kept
  <2>8. CASE r.ok /\ \E c \in ps2_wait_write(r.hw, "command", 96) :
               \/ ~c.ok /\ o.hw = c.hw /\ o.byte = r.byte
               \/ /\ c.ok
                  /\ \E x \in ps2_wait_write(c.hw, "data", NewConfig(r.byte, on, off)) :
                       o.hw = x.hw /\ o.byte = r.byte
    <3>1. PICK c \in ps2_wait_write(r.hw, "command", 96) :
               \/ ~c.ok /\ o.hw = c.hw /\ o.byte = r.byte
               \/ /\ c.ok
                  /\ \E x \in ps2_wait_write(c.hw, "data", NewConfig(r.byte, on, off)) :
                       o.hw = x.hw /\ o.byte = r.byte
      BY <2>8
    <3>2. Kept(h, r.hw)  BY <2>3, <2>6, <2>8 DEF Kept, SameState
    <3>3. \/ c.ok = FALSE /\ c.hw = Fault(r.hw)
          \/ c.ok = TRUE /\ c.hw = [r.hw EXCEPT !.expect = "config"]
      BY <2>3, ToldConfig
    <3>4. CASE ~c.ok /\ o.hw = c.hw
      <4>1. o.hw = Fault(r.hw)  BY <3>3, <3>4
      <4>2. o.hw.out = r.hw.out /\ SameState(r.hw, o.hw)  BY <2>3, <4>1, FaultHardware
      <4>. QED  BY <3>2, <4>2 DEF Kept, SameState
    <3>5. CASE /\ c.ok
               /\ \E x \in ps2_wait_write(c.hw, "data", NewConfig(r.byte, on, off)) :
                    o.hw = x.hw /\ o.byte = r.byte
      <4>1. PICK x \in ps2_wait_write(c.hw, "data", NewConfig(r.byte, on, off)) : o.hw = x.hw
        BY <3>5
      <4>2. /\ c.hw \in Hardware /\ c.hw.expect = "config" /\ c.hw.out = r.hw.out
            /\ c.hw.config = r.hw.config /\ c.hw.reporting = r.hw.reporting /\ c.hw.rate = r.hw.rate
        <5>1. c.hw = [r.hw EXCEPT !.expect = "config"]  BY <3>3, <3>5
        <5> DEFINE q == r.hw
                   g == c.hw
        <5>2. q \in Hardware /\ g = [q EXCEPT !.expect = "config"]  BY <2>3, <5>1
        <5> HIDE DEF q, g
        <5>3. /\ g \in Hardware /\ g.expect = "config" /\ g.out = q.out
              /\ g.config = q.config /\ g.reporting = q.reporting /\ g.rate = q.rate
          BY <5>2, SetExpect
        <5>. QED  BY <5>3 DEF g, q
      <4>3. Kept(h, c.hw)  BY <3>2, <4>2 DEF Kept
      <4> DEFINE n == NewConfig(r.byte, on, off)
                 k == [c.hw EXCEPT !.expect = "keyboard"]
      <4>4. x.hw = Fault(c.hw) \/ x.hw = [k EXCEPT !.config = Bits(n)]
        <5> HIDE DEF n
        <5>1. x \in ps2_wait_write(c.hw, "data", n)  BY <4>1 DEF n
        <5>. QED  BY <4>2, <5>1, WroteConfig
      <4>5. /\ k \in Hardware /\ k.out = c.hw.out /\ k.reporting = c.hw.reporting
            /\ k.rate = c.hw.rate
        BY <4>2, SetExpect
      <4>6. Bits(n) \in SUBSET (0..7)  BY DEF Bits
      <4>7. r.hw.out = <<>> => Bits(n) = h.config \cup {INT2}  BY <1>3, <1>4, <2>6, <2>8
      <4> HIDE DEF n, k
      <4>8. CASE x.hw = Fault(c.hw)
        BY <4>1, <4>2, <4>3, <4>8, FaultHardware DEF Kept, SameState
      <4>9. CASE x.hw = [k EXCEPT !.config = Bits(n)]
        <5>1. /\ x.hw.out = c.hw.out /\ x.hw.reporting = c.hw.reporting /\ x.hw.rate = c.hw.rate
              /\ x.hw.config = Bits(n)
          BY <4>5, <4>6, <4>9, SetConfig
        <5>2. CLOCK2_OFF # INT2  BY DEF CLOCK2_OFF, INT2
        <5>. QED  BY <4>1, <4>2, <4>3, <4>7, <5>1, <5>2 DEF Kept
      <4>. QED  BY <4>4, <4>8, <4>9
    <3>. QED  BY <3>1, <3>4, <3>5
  <2>. QED  BY <2>1, <2>7, <2>8
<1>. QED  BY <1>1, <1>6, <1>7

----------------------------------------------------------------------------
(* The request for its state: what the mouse answers ends with its sample rate. *)

\* Changes of the next receiver do not matter.
LEMMA TellingSame ==
  ASSUME NEW h \in Hardware, NEW g \in Hardware, Telling(h), g.out = h.out, g.rate = h.rate,
         g.arg = h.arg, g.config = h.config, g.reporting = h.reporting, g.expect # "config"
  PROVE  Telling(g)
BY DEF Telling, Status

\* Without a last byte like the sample rate there is nothing to say.
LEMMA TellingCalm ==
  ASSUME NEW h, NEW g, Calm(h, g), ~Ends(h.out)
  PROVE  g \in Hardware /\ Telling(g)
BY DEF Calm, Telling

\* What the mouse answers is its state.
LEMMA Answer ==
  ASSUME NEW h \in Hardware, ~h.arg, CLOCK2_OFF \notin h.config, h.expect # "config"
  PROVE  ToMouse(h, 233) \in Hardware /\ Telling(ToMouse(h, 233))
<1> DEFINE t == <<ACK, Status(h), 2, h.rate>>
           g == Put(h, t)
<1>1. ToMouse(h, 233) = g  BY DEF ToMouse, Status
<1>2. t \in Seq(Int) /\ t # <<>> /\ Len(t) = 4 /\ t[2] = Status(h) /\ t[3] = 2 /\ t[4] = h.rate
  BY HardwareFields DEF ACK, Status
<1> HIDE DEF t
<1>3. g \in Hardware /\ g.out = h.out \o t /\ SameState(h, g)  BY <1>2, PutHardware
<1>4. /\ Len(h.out \o t) = Len(h.out) + 4 /\ Len(h.out) \in Nat
      /\ (h.out \o t)[Len(h.out) + 2] = Status(h) /\ (h.out \o t)[Len(h.out) + 3] = 2
      /\ (h.out \o t)[Len(h.out) + 4] = h.rate
  <2> DEFINE s == h.out
  <2>1. s \in Seq(Int)  BY HardwareFields
  <2> HIDE DEF s
  <2>2. Len(s \o t) = Len(s) + Len(t)  BY <1>2, <2>1, PutLast
  <2>2a. Len(s) \in Nat  BY <2>1
  <2>3. \A i \in 1..Len(t) : (s \o t)[Len(s) + i] = t[i]  BY <1>2, <2>1, PutLast
  <2>4. 2 \in 1..Len(t) /\ 3 \in 1..Len(t) /\ 4 \in 1..Len(t)  BY <1>2
  <2>5. /\ (s \o t)[Len(s) + 2] = t[2] /\ (s \o t)[Len(s) + 3] = t[3]
        /\ (s \o t)[Len(s) + 4] = t[4]
    BY <2>3, <2>4
  <2>. QED  BY <1>2, <2>2, <2>2a, <2>5 DEF s
<1> HIDE DEF g
<1>5. Status(g) = Status(h)  BY <1>3 DEF Status, SameState
<1> DEFINE o == g.out
           n == Len(h.out)
<1>6. Len(o) = n + 4 /\ n \in Nat /\ o[n + 2] = Status(g) /\ o[n + 3] = 2 /\ o[n + 4] = g.rate
  BY <1>3, <1>4, <1>5 DEF SameState
<1>7. ~g.arg /\ CLOCK2_OFF \notin g.config /\ g.expect # "config"  BY <1>3 DEF SameState
<1> HIDE DEF n
<1>8. Telling(g)
  <2>1. Len(o) - 1 = n + 3 /\ Len(o) - 2 = n + 2  BY <1>6
  <2>. QED  BY <1>6, <1>7, <2>1 DEF Telling, Ends
<1>. QED  BY <1>1, <1>3, <1>8

\* Whatever becomes of a request for the state, a last byte like the sample rate is an answer.
LEMMA MouseTelling ==
  ASSUME NEW h \in Hardware, h.expect = "keyboard", NEW g \in MouseBytes(h, 233)
  PROVE  g \in Hardware /\ (Telling(h) => Telling(g))
<1>1. \/ g = h \/ g = Fault(h) \/ g = Put(Fault(h), <<RESEND>>)
      \/ g = ToMouse(h, 233) /\ CLOCK2_OFF \notin h.config
  <2>1. CASE CLOCK2_OFF \in h.config
    <3>1. MouseBytes(h, 233) = {h}  BY <2>1 DEF MouseBytes
    <3>2. g = h  BY <3>1
    <3>. QED  BY <3>2
  <2>2. CASE CLOCK2_OFF \notin h.config
    <3>1. g \in {h, ToMouse(h, 233), Put(Fault(h), <<RESEND>>), Fault(h)}  BY DEF MouseBytes
    <3>. QED  BY <2>2, <3>1
  <2>. QED  BY <2>1, <2>2
<1>2. CASE g = h  BY <1>2
<1>3. CASE g = Fault(h)
  <2>1. g \in Hardware /\ g.out = h.out /\ SameState(h, g)  BY <1>3, FaultHardware
  <2>2. g.expect # "config"  BY <2>1 DEF SameState
  <2>. QED  BY <2>1, <2>2, TellingSame DEF SameState
<1>4. CASE g = Put(Fault(h), <<RESEND>>)
  <2>1. Fault(h) \in Hardware  BY FaultHardware
  <2>2. RESEND \in Int /\ RESEND # RATE  BY DEF RESEND, RATE, CONFIG_PS2_MOUSE_SAMPLE_RATE
  <2>3. g \in Hardware /\ ~Ends(g.out)  BY <1>4, <2>1, <2>2, PutOther
  <2>. QED  BY <2>3 DEF Telling
<1>5. CASE g = ToMouse(h, 233) /\ CLOCK2_OFF \notin h.config
  <2>1. CASE h.arg
    <3>1. Calm(h, g)  BY <1>5, <2>1, ToMouseCalm
    <3>2. Telling(h) => ~Ends(h.out)  BY <2>1 DEF Telling
    <3>. QED  BY <3>1, <3>2, TellingCalm DEF Calm
  <2>2. CASE ~h.arg  BY <1>5, <2>2, Answer
  <2>. QED  BY <2>1, <2>2
<1>. QED  BY <1>1, <1>2, <1>3, <1>4, <1>5

\* The same for the data port, wherever the byte goes.
LEMMA DataTelling ==
  ASSUME NEW h \in Hardware, NEW g \in DataPort(h, 233)
  PROVE  g \in Hardware /\ (Telling(h) => Telling(g))
<1> DEFINE f == [h EXCEPT !.expect = "keyboard"]
           k == [f EXCEPT !.config = Bits(233)]
<1>1. /\ f \in Hardware /\ f.out = h.out /\ f.arg = h.arg /\ f.rate = h.rate /\ f.config = h.config
      /\ f.reporting = h.reporting /\ f.expect = "keyboard"
  BY SetExpect
<1>2. Bits(233) \in SUBSET (0..7)  BY DEF Bits
<1>3. k \in Hardware /\ k.out = h.out  BY <1>1, <1>2, SetConfig
<1>4. \/ h.expect = "config" /\ g = k
      \/ g = f \/ g = Put(f, <<ACK>>)
      \/ g \in MouseBytes(f, 233)
  BY HardwareFields DEF DataPort
<1> HIDE DEF f, k
<1>5. Telling(h) => Telling(f)  BY <1>1, TellingSame
<1>6. CASE h.expect = "config" /\ g = k
  <2>1. Telling(h) => ~Ends(h.out)  BY <1>6 DEF Telling
  <2>. QED  BY <1>3, <1>6, <2>1 DEF Telling
<1>7. CASE g = Put(f, <<ACK>>)
  <2>1. ACK \in Int /\ ACK # RATE  BY DEF ACK, RATE, CONFIG_PS2_MOUSE_SAMPLE_RATE
  <2>2. g \in Hardware /\ ~Ends(g.out)  BY <1>1, <1>7, <2>1, PutOther
  <2>. QED  BY <2>2 DEF Telling
<1>8. CASE g \in MouseBytes(f, 233)
  <2>1. g \in Hardware /\ (Telling(f) => Telling(g))  BY <1>1, <1>8, MouseTelling
  <2>. QED  BY <1>5, <2>1
<1>. QED  BY <1>1, <1>4, <1>5, <1>6, <1>7, <1>8

\* A fault changes nothing of that.
LEMMA FaultTelling ==
  ASSUME NEW h \in Hardware
  PROVE  Fault(h) \in Hardware /\ (Telling(h) => Telling(Fault(h)))
<1>1. Fault(h) \in Hardware /\ Fault(h).out = h.out /\ SameState(h, Fault(h))  BY FaultHardware
<1>2. Status(Fault(h)) = Status(h)  BY <1>1 DEF Status, SameState
<1>. QED  BY <1>1, <1>2 DEF Telling, SameState

\* Nor does reading the first byte.
LEMMA ReadTelling ==
  ASSUME NEW h \in Hardware, NEW o \in ps2_wait_read(h)
  PROVE  o.hw \in Hardware /\ (Telling(h) => Telling(o.hw))
<1> DEFINE g == o.hw
<1>1. /\ g \in Hardware /\ SameState(h, g) /\ o.ok \in BOOLEAN
      /\ g.out = (IF o.ok THEN Tail(h.out) ELSE h.out)
      /\ o.ok => h.out # <<>>
  BY ReadHardware
<1>2. h.out \in Seq(Int)  BY HardwareFields
<1> HIDE DEF g
<1>3. Status(g) = Status(h)  BY <1>1 DEF Status, SameState
<1>4. CASE ~o.ok  BY <1>1, <1>3, <1>4 DEF Telling, SameState, g
<1>5. CASE o.ok
  <2> DEFINE s == h.out
             t == g.out
  <2>1. t = Tail(s) /\ s # <<>> /\ s \in Seq(Int)  BY <1>1, <1>2, <1>5
  <2>2. /\ Len(t) = Len(s) - 1
        /\ Ends(t) => Ends(s)
        /\ \A i \in 1..(Len(s) - 1) : t[i] = s[i + 1]
    BY <2>1, TailLast
  <2>3. Len(s) \in Nat  BY <2>1
  <2> HIDE DEF s, t
  <2>4. Len(t) >= 2 => t[Len(t) - 1] = s[Len(s) - 1] /\ Len(s) >= 2
    <3>1. Len(t) >= 2 => (Len(t) - 1) \in 1..(Len(s) - 1) /\ (Len(t) - 1) + 1 = Len(s) - 1  BY <2>2, <2>3
    <3>. QED  BY <2>2, <2>3, <3>1
  <2>5. Len(t) >= 3 => t[Len(t) - 2] = s[Len(s) - 2] /\ Len(s) >= 3
    <3>1. Len(t) >= 3 => (Len(t) - 2) \in 1..(Len(s) - 1) /\ (Len(t) - 2) + 1 = Len(s) - 2  BY <2>2, <2>3
    <3>. QED  BY <2>2, <2>3, <3>1
  <2>6. Telling(h) => Telling(g)  BY <1>1, <1>3, <2>2, <2>4, <2>5 DEF Telling, SameState, s, t
  <2>. QED  BY <1>1, <2>6 DEF g
<1>. QED  BY <1>1, <1>4, <1>5

\* So an attempt to ask for the state leaves its answer, or no byte like the sample rate, last.
LEMMA AttemptTelling ==
  ASSUME NEW h \in Hardware, NEW o \in Attempt(h, 233)
  PROVE  o.hw \in Hardware /\ (Telling(h) => Telling(o.hw))
<1>1. PICK g \in ps2_write_device_data_no_wait(h, 233) : o \in ps2_wait_read(g)  BY DEF Attempt
<1>2. PICK d4 \in ps2_wait_write(h, "command", 212) :
        \E w \in ps2_wait_write(d4.hw, "data", 233) : g = w.hw
  BY DEF ps2_write_device_data_no_wait
<1>3. PICK w \in ps2_wait_write(d4.hw, "data", 233) : g = w.hw  BY <1>2
<1>4. d4.hw \in Hardware /\ (Telling(h) => Telling(d4.hw))
  <2> DEFINE f == [h EXCEPT !.expect = "mouse"]
  <2>1. f \in Hardware /\ f.out = h.out /\ f.arg = h.arg /\ f.rate = h.rate /\ f.config = h.config
        /\ f.reporting = h.reporting /\ f.expect # "config"
    BY SetExpect
  <2>2. CommandPort(h, 212) = {f}  BY DEF CommandPort
  <2> HIDE DEF f
  <2>3. d4 = Outcome(FALSE, Fault(h), UNREAD) \/ d4 = Outcome(TRUE, f, UNREAD)
    BY <2>2 DEF ps2_wait_write
  <2>4. d4.hw = Fault(h) \/ d4.hw = f  BY <2>3 DEF Outcome
  <2>5. Telling(h) => Telling(f)  BY <2>1, TellingSame
  <2>. QED  BY <2>1, <2>4, <2>5, FaultTelling
<1>5. g \in Hardware /\ (Telling(d4.hw) => Telling(g))
  <2>1. \/ w = Outcome(FALSE, Fault(d4.hw), UNREAD)
        \/ \E f \in DataPort(d4.hw, 233) : w = Outcome(TRUE, f, UNREAD)
    BY DEF ps2_wait_write
  <2>2. w.hw = Fault(d4.hw) \/ w.hw \in DataPort(d4.hw, 233)  BY <2>1 DEF Outcome
  <2>. QED  BY <1>3, <1>4, <2>2, FaultTelling, DataTelling
<1>6. o.hw \in Hardware /\ (Telling(g) => Telling(o.hw))  BY <1>1, <1>5, ReadTelling
<1>. QED  BY <1>4, <1>5, <1>6

----------------------------------------------------------------------------
\* The local variables.
Memory == [config : Int, byte0 : Int, byte1 : Int, status : Int, rate : Int, id : Int, res : Int]

\* The steps after the mouse's state was read, from its first byte, its second and its
\* third on.
Checked == {"check", "interrupts", "unmask_irq", "running", "panic"}
StatusRead == {"res", "rate"} \cup Checked
Asked == {"status_req", "status"} \cup StatusRead

\* The mouse is what its state, as far as it was read, says.
Promised == /\ hw.rate = RATE /\ CLOCK2_OFF \notin hw.config
            /\ 5 \in Bits(mem.status) => hw.reporting

\* What is known at each step, unless a byte looked like the sample rate.
Stage ==
  /\ step \notin Asked => ~Ends(hw.out)
  /\ step \in {"status_req", "status"} => Telling(hw)
  /\ step \notin StatusRead => mem.status = 0
  /\ step \notin Checked => mem.rate = 0
  /\ step = "res" /\ Ends(hw.out) /\ Len(hw.out) <= 2 => Promised
  /\ step = "rate" /\ Ends(hw.out) /\ Len(hw.out) = 1 => Promised
  /\ step \in {"check", "interrupts", "unmask_irq"} /\ hw.out = <<>> /\ mem.rate = RATE => Promised
  /\ step \in {"interrupts", "unmask_irq"} => StatusOK
  /\ step = "running" /\ ~stray => /\ hw.reporting /\ hw.rate = RATE /\ CLOCK2_OFF \notin hw.config

\* The inductive invariant of the set-up.
SetupInv == /\ hw \in Hardware /\ mem \in Memory /\ lookalike \in BOOLEAN
            /\ lookalike \/ Stage

\* A packet has three bytes.
LEMMA PacketBytes ==
  ASSUME NEW d \in Int \X Int
  PROVE  /\ PacketOf(d) \in Seq(Int) /\ Len(PacketOf(d)) = 3 /\ PacketOf(d) # <<>>
         /\ \A i \in 1..3 : PacketOf(d)[i] \in Int
<1> DEFINE S == {3} \cup {i \in 4..5 : d[i - 3] < 0} \cup {i \in 6..7 : Large(d[i - 5])}
<1>1. S \in SUBSET (0..7)  OBVIOUS
<1>2. Byte(S) \in Int  BY <1>1, BitsOfByte
<1>3. PacketOf(d) = <<Byte(S), d[1] % 256, d[2] % 256>>  BY DEF PacketOf
<1> HIDE DEF S
<1>4. d[1] % 256 \in Int /\ d[2] % 256 \in Int  OBVIOUS
<1>. QED  BY <1>2, <1>3, <1>4

\* The invariant holds when kernel_main calls ps2_init.
LEMMA SetupInit ==
  ASSUME Ps2Init
  PROVE  SetupInv
<1>1. mem \in Memory /\ mem.status = 0 /\ mem.rate = 0  BY DEF Ps2Init, Memory, UNREAD
<1>2. /\ hw.config = {INT1, TRANSLATION} /\ hw.expect = "keyboard" /\ hw.rate = DEFAULT_RATE
      /\ hw.arg = FALSE /\ hw.faults = MaxFaults /\ hw.ports \in SUBSET {1, 2} /\ hw.reporting \in BOOLEAN
  BY DEF Ps2Init
<1>3. hw.out = <<>> \/ \E d \in Moves : hw.out = <<PacketOf(d)[3]>>  BY DEF Ps2Init
<1>3a. \A d \in Moves : PacketOf(d)[3] \in Int  BY PacketBytes, MouseAssumption
<1>3b. hw.out = <<>> \/ \E b \in Int : hw.out = <<b>>  BY <1>3, <1>3a
<1>3c. hw.out \in Seq(Int)
  <2>1. \A b \in Int : <<b>> \in Seq(Int)  OBVIOUS
  <2>2. <<>> \in Seq(Int)  OBVIOUS
  <2>. QED  BY <1>3b, <2>1, <2>2
<1>4. hw \in Hardware
  <2>1. hw = [out |-> hw.out, config |-> hw.config, expect |-> hw.expect, ports |-> hw.ports,
              reporting |-> hw.reporting, rate |-> hw.rate, arg |-> hw.arg, faults |-> hw.faults]
    BY DEF Ps2Init
  <2>2. hw.config \in SUBSET (0..7)  BY <1>2 DEF INT1, TRANSLATION
  <2>3. hw.rate \in Int /\ hw.faults \in Int
    <3>1. MaxFaults \in Int /\ DEFAULT_RATE \in Int  BY MouseAssumption DEF DEFAULT_RATE
    <3>. QED  BY <1>2, <3>1
  <2>3a. hw.arg \in BOOLEAN  BY <1>2
  <2>4. hw.expect \in {"config", "mouse", "keyboard"}  BY <1>2
  <2>. QED  BY <1>2, <1>3c, <2>1, <2>2, <2>3, <2>3a, <2>4 DEF Hardware
<1>5. lookalike \/ ~Ends(hw.out)
  <2>1. \A b \in Int : Ends(<<b>>) => <<b>> = <<RATE>>  BY DEF Ends
  <2>2. ~Ends(<<>>)  BY DEF Ends
  <2>3. lookalike = (hw.out = <<RATE>>)  BY DEF Ps2Init, RATE
  <2>. QED  BY <1>3b, <2>1, <2>2, <2>3
<1>6. lookalike \in BOOLEAN  BY DEF Ps2Init
<1>. QED  BY <1>1, <1>4, <1>5, <1>6 DEF Ps2Init, SetupInv, Stage, Asked, StatusRead, Checked

\* The steps before the mouse is asked for its state.
LEMMA EarlyStep ==
  ASSUME SetupInv, step \notin Asked, step' \notin Asked \/ step' = "status_req" \/ step' = "panic",
         hw' \in Hardware, lookalike' \in BOOLEAN, lookalike => lookalike',
         lookalike' \/ Calm(hw, hw'),
         mem' \in Memory, mem'.status = mem.status, mem'.rate = mem.rate
  PROVE  SetupInv'
<1>1. CASE lookalike'  BY <1>1 DEF SetupInv
<1>2. CASE ~lookalike'
  <2>1. Stage /\ ~Ends(hw.out) /\ mem.status = 0 /\ mem.rate = 0
    BY <1>2 DEF SetupInv, Stage, Asked, StatusRead
  <2>2. ~Ends(hw'.out)  BY <1>2, <2>1 DEF Calm
  <2>. QED  BY <1>2, <2>1, <2>2 DEF SetupInv, Stage, Asked, StatusRead, Checked, Telling
<1>. QED  BY <1>1, <1>2

\* Steps 1 and 6 of ps2_init.
LEMMA CommandStep ==
  ASSUME SetupInv, ControllerCommand
  PROVE  SetupInv'
<1>1. DOMAIN Writes = {"disable_first", "disable_second", "enable_first", "enable_second"}
  BY DEF Writes
<1>2. PICK o \in ps2_wait_write(hw, "command", Writes[step][1]) :
        hw' = o.hw /\ step' = IF o.ok THEN Writes[step][2] ELSE Writes[step][3]
  BY DEF ControllerCommand, Goto
<1>3. step \in DOMAIN Writes  BY DEF ControllerCommand
<1>4. step \notin Asked  BY <1>1, <1>3 DEF Asked, StatusRead, Checked
<1>5. Writes[step][1] \in ControllerCommands /\ Writes[step][1] \in Int /\ Writes[step][1] # 32
  BY <1>1, <1>3 DEF Writes, ControllerCommands
<1>6. /\ Writes[step][2] \in {"disable_second", "flush", "enable_second", "mask_irq"}
      /\ Writes[step][3] \in {"mask_irq", "enable_second"}
  BY <1>1, <1>3 DEF Writes, INIT_RETURNS
<1>7. step' \notin Asked  BY <1>2, <1>6 DEF Asked, StatusRead, Checked
<1>8. hw \in Hardware /\ mem \in Memory /\ lookalike \in BOOLEAN  BY DEF SetupInv
<1>9. Calm(hw, o.hw)  BY <1>2, <1>5, <1>8, WriteCalm
<1>10. mem' = mem /\ lookalike' = lookalike  BY DEF ControllerCommand, Unchanged
<1>11. hw' \in Hardware  BY <1>2, <1>9 DEF Calm
<1>. QED  BY <1>2, <1>4, <1>7, <1>8, <1>9, <1>10, <1>11, EarlyStep

\* Step 2 of ps2_init.
LEMMA FlushStep ==
  ASSUME SetupInv, Flush
  PROVE  SetupInv'
<1>1. PICK o \in ps2_wait_read(hw) : hw' = o.hw /\ step' = IF o.ok THEN "flush" ELSE "configure"
  BY DEF Flush, Goto
<1>2. step \notin Asked /\ step' \notin Asked  BY <1>1 DEF Flush, Asked, StatusRead, Checked
<1>3. hw \in Hardware /\ mem \in Memory /\ lookalike \in BOOLEAN  BY DEF SetupInv
<1>4. Calm(hw, o.hw)  BY <1>3, ReadCalm
<1>5. mem' = mem /\ lookalike' = lookalike  BY DEF Flush, Unchanged
<1>6. hw' \in Hardware  BY <1>1, <1>4 DEF Calm
<1>. QED  BY <1>1, <1>2, <1>3, <1>4, <1>5, <1>6, EarlyStep

\* Step 4 of ps2_init.
LEMMA TestControllerStep ==
  ASSUME SetupInv, TestController
  PROVE  SetupInv'
<1>1. PICK w \in ps2_wait_write(hw, "command", 170) : \E r \in ps2_wait_read(w.hw) :
        hw' = r.hw /\ step' = IF r.ok /\ r.byte = 85 THEN "test_first" ELSE "mask_irq"
  BY DEF TestController, Goto, INIT_RETURNS
<1>2. PICK r \in ps2_wait_read(w.hw) :
        hw' = r.hw /\ step' = IF r.ok /\ r.byte = 85 THEN "test_first" ELSE "mask_irq"
  BY <1>1
<1>3. step \notin Asked /\ step' \notin Asked  BY <1>2 DEF TestController, Asked, StatusRead, Checked
<1>4. hw \in Hardware /\ mem \in Memory /\ lookalike \in BOOLEAN  BY DEF SetupInv
<1>5. 170 \in ControllerCommands /\ 170 \in Int /\ 170 # 32  BY DEF ControllerCommands
<1>6. Calm(hw, w.hw)  BY <1>4, <1>5, WriteCalm
<1>7. w.hw \in Hardware  BY <1>6 DEF Calm
<1>8. Calm(w.hw, r.hw)  BY <1>7, ReadCalm
<1>9. Calm(hw, hw')  BY <1>2, <1>6, <1>8, CalmTrans
<1>10. mem' = mem /\ lookalike' = lookalike  BY DEF TestController, Unchanged
<1>11. hw' \in Hardware  BY <1>9 DEF Calm
<1>. QED  BY <1>3, <1>4, <1>9, <1>10, <1>11, EarlyStep

\* Step 5 of ps2_init.
LEMMA TestPortStep ==
  ASSUME SetupInv, TestPort
  PROVE  SetupInv'
<1>1. DOMAIN Tests = {"test_first", "test_second"} /\ step \in DOMAIN Tests  BY DEF Tests, TestPort
<1>2. PICK w \in ps2_wait_write(hw, "command", Tests[step][1]) : \E r \in ps2_wait_read(w.hw) :
        hw' = r.hw /\ step' \in {INIT_RETURNS, Tests[step][3]}
  BY DEF TestPort, Goto
<1>3. PICK r \in ps2_wait_read(w.hw) : hw' = r.hw /\ step' \in {INIT_RETURNS, Tests[step][3]}  BY <1>2
<1>4. step \notin Asked  BY <1>1 DEF Asked, StatusRead, Checked
<1>5. Tests[step][3] \in {"test_second", "enable_first"}  BY <1>1 DEF Tests
<1>6. step' \notin Asked  BY <1>3, <1>5 DEF INIT_RETURNS, Asked, StatusRead, Checked
<1>7. Tests[step][1] \in ControllerCommands /\ Tests[step][1] \in Int /\ Tests[step][1] # 32
  BY <1>1 DEF Tests, ControllerCommands
<1>8. hw \in Hardware /\ mem \in Memory /\ lookalike \in BOOLEAN  BY DEF SetupInv
<1>9. Calm(hw, w.hw)  BY <1>7, <1>8, WriteCalm
<1>10. w.hw \in Hardware  BY <1>9 DEF Calm
<1>11. Calm(w.hw, r.hw)  BY <1>10, ReadCalm
<1>12. Calm(hw, hw')  BY <1>3, <1>9, <1>11, CalmTrans
<1>13. mem' = mem /\ lookalike' = lookalike  BY DEF TestPort, Unchanged
<1>14. hw' \in Hardware  BY <1>12 DEF Calm
<1>. QED  BY <1>4, <1>6, <1>8, <1>12, <1>13, <1>14, EarlyStep

\* What Other(b) makes of lookalike.
LEMMA OtherByte ==
  ASSUME NEW b, lookalike \in BOOLEAN, Other(b)
  PROVE  lookalike' \in BOOLEAN /\ (lookalike => lookalike') /\ (lookalike' \/ b # RATE)
BY DEF Other, RATE

\* ps2_configuration, before the mouse is asked for its state and after it was checked.
LEMMA ConfigureStep ==
  ASSUME SetupInv, Configure
  PROVE  SetupInv'
<1>1. DOMAIN Configurations = {"configure", "quiet", "interrupts"} /\ step \in DOMAIN Configurations
  BY DEF Configurations, Configure
<1> DEFINE on == Configurations[step][1]
           off == Configurations[step][2]
<1>2. PICK o \in ps2_configuration(hw, on, off) :
        hw' = o.hw /\ mem' = IF step = "quiet" THEN [mem EXCEPT !.config = o.byte] ELSE mem
  BY DEF Configure
<1>3. hw \in Hardware /\ mem \in Memory /\ lookalike \in BOOLEAN  BY DEF SetupInv
<1>4. o.hw \in Hardware /\ o.byte \in Int /\ (Byte(hw.config) # RATE => Calm(hw, o.hw))
  BY <1>3, ConfigurationCalm
<1>5. lookalike' \in BOOLEAN /\ (lookalike => lookalike') /\ (lookalike' \/ Byte(hw.config) # RATE)
  BY <1>3, OtherByte DEF Configure
<1>6. mem' \in Memory /\ mem'.status = mem.status /\ mem'.rate = mem.rate
  <2>1. CASE step = "quiet"
    <3>1. mem' = [mem EXCEPT !.config = o.byte]  BY <1>2, <2>1
    <3>. QED  BY <1>3, <1>4, <3>1 DEF Memory
  <2>2. CASE step # "quiet"  BY <1>2, <1>3, <2>2
  <2>. QED  BY <2>1, <2>2
<1>7. hw' \in Hardware /\ (lookalike' \/ Calm(hw, hw'))  BY <1>2, <1>4, <1>5
<1>8. step' = Configurations[step][3]  BY DEF Configure, Goto
<1>9. CASE step \in {"configure", "quiet"}
  <2>1. Configurations[step][3] \in {"test_controller", "disable_scanning"}  BY <1>9 DEF Configurations
  <2>2. step \notin Asked /\ step' \notin Asked  BY <1>8, <1>9, <2>1 DEF Asked, StatusRead, Checked
  <2>. QED  BY <1>5, <1>6, <1>7, <2>2, EarlyStep
<1>10. CASE step = "interrupts"
  <2>1. on = {INT2} /\ off = {} /\ step' = "unmask_irq"  BY <1>8, <1>10 DEF Configurations
  <2>2. Kept(hw, hw')
    <3>1. o \in ps2_configuration(hw, {INT2}, {})  BY <1>2, <2>1
    <3>. QED  BY <1>2, <1>3, <3>1, MouseInterruptsOn
  <2>3. mem' = mem  BY <1>2, <1>10
  <2>4. CASE lookalike'  BY <1>5, <1>6, <1>7, <2>4 DEF SetupInv
  <2>5. CASE ~lookalike'
    <3>1. StatusOK /\ (hw.out = <<>> /\ mem.rate = RATE => Promised)
      BY <1>5, <1>10, <2>5 DEF SetupInv, Stage
    <3>2. StatusOK'  BY <2>3, <3>1 DEF StatusOK
    <3>3. hw'.out = <<>> /\ mem'.rate = RATE => Promised'  BY <2>2, <2>3, <3>1 DEF Kept, Promised
    <3>4. Stage'  BY <2>1, <3>2, <3>3 DEF Stage, Asked, StatusRead, Checked
    <3>. QED  BY <1>5, <1>6, <1>7, <3>4 DEF SetupInv
  <2>. QED  BY <2>4, <2>5
<1>. QED  BY <1>1, <1>9, <1>10

\* The end of ps2_identify_device, with whatever configuration it writes back.
LEMMA IdentifiedStep ==
  ASSUME SetupInv, Identified
  PROVE  SetupInv'
<1>1. PICK config : \E o \in ps2_configuration(hw, Bits(config), {}) : hw' = o.hw  BY DEF Identified
<1> DEFINE on == Bits(config)
           off == {}
<1>2. PICK o \in ps2_configuration(hw, on, off) : hw' = o.hw  BY <1>1
<1>3. hw \in Hardware /\ mem \in Memory /\ lookalike \in BOOLEAN  BY DEF SetupInv
<1> HIDE DEF on, off
<1>4. o.hw \in Hardware /\ (Byte(hw.config) # RATE => Calm(hw, o.hw))  BY <1>3, ConfigurationCalm
<1>5. lookalike' \in BOOLEAN /\ (lookalike => lookalike') /\ (lookalike' \/ Byte(hw.config) # RATE)
  BY <1>3, OtherByte DEF Identified
<1>6. mem' = mem /\ step = "restore" /\ step' \in {"set_default", "panic"}  BY DEF Identified, Goto
<1>7. hw' \in Hardware /\ (lookalike' \/ Calm(hw, hw'))  BY <1>2, <1>4, <1>5
<1>8. step \notin Asked /\ (step' \notin Asked \/ step' = "panic")  BY <1>6 DEF Asked, StatusRead, Checked
<1>. QED  BY <1>3, <1>5, <1>6, <1>7, <1>8, EarlyStep

\* The beginning of ps2_mouse_init.
LEMMA MaskStep ==
  ASSUME SetupInv, MaskIrq
  PROVE  SetupInv'
<1>1. hw' = hw /\ mem' = mem /\ lookalike' = lookalike /\ step = "mask_irq" /\ step' = "quiet"
  BY DEF MaskIrq, Unchanged, Goto
<1>2. hw \in Hardware /\ mem \in Memory /\ lookalike \in BOOLEAN  BY DEF SetupInv
<1>3. step \notin Asked /\ step' \notin Asked  BY <1>1 DEF Asked, StatusRead, Checked
<1>4. Calm(hw, hw')  BY <1>1, <1>2 DEF Calm
<1>. QED  BY <1>1, <1>2, <1>3, <1>4, EarlyStep

\* Nothing is promised after a panic.
LEMMA PanicStep ==
  ASSUME SetupInv, DeviceNotReady
  PROVE  SetupInv'
<1>1. hw' = hw /\ mem' = mem /\ lookalike' = lookalike /\ step' = "panic"
  BY DEF DeviceNotReady, Unchanged, Goto
<1>2. Stage'  BY <1>1 DEF Stage, Asked, StatusRead, Checked
<1>. QED  BY <1>1, <1>2 DEF SetupInv

\* The comparison of the state with what was asked for.
LEMMA CheckStep ==
  ASSUME SetupInv, CheckState
  PROVE  SetupInv'
<1>1. /\ hw' = hw /\ mem' = mem /\ lookalike' = lookalike /\ step = "check"
      /\ step' = IF StatusOK THEN "interrupts" ELSE "panic"
  BY DEF CheckState, Unchanged, Goto
<1>2. CASE lookalike  BY <1>1, <1>2 DEF SetupInv
<1>3. CASE ~lookalike
  <2>1. hw.out = <<>> /\ mem.rate = RATE => Promised  BY <1>1, <1>3 DEF SetupInv, Stage
  <2>2. hw'.out = <<>> /\ mem'.rate = RATE => Promised'  BY <1>1, <2>1 DEF Promised
  <2>3. StatusOK => StatusOK'  BY <1>1 DEF StatusOK
  <2>4. CASE StatusOK
    <3>1. step' = "interrupts" /\ StatusOK'  BY <1>1, <2>3, <2>4
    <3>2. Stage'  BY <2>2, <3>1 DEF Stage, Asked, StatusRead, Checked
    <3>. QED  BY <1>1, <3>2 DEF SetupInv
  <2>5. CASE ~StatusOK
    <3>1. step' = "panic"  BY <1>1, <2>5
    <3>2. Stage'  BY <3>1 DEF Stage, Asked, StatusRead, Checked
    <3>. QED  BY <1>1, <3>2 DEF SetupInv
  <2>. QED  BY <2>4, <2>5
<1>. QED  BY <1>2, <1>3

\* The end of ps2_mouse_init: the mouse is ready, or bytes are in the way.
LEMMA UnmaskStep ==
  ASSUME SetupInv, UnmaskIrq
  PROVE  SetupInv'
<1>1. /\ hw' = hw /\ mem' = mem /\ lookalike' = lookalike /\ step = "unmask_irq" /\ step' = "running"
      /\ stray' = (hw.out # <<>>)
  BY DEF UnmaskIrq, Goto
<1>2. CASE lookalike  BY <1>1, <1>2 DEF SetupInv
<1>3. CASE ~lookalike
  <2>1. StatusOK /\ (hw.out = <<>> /\ mem.rate = RATE => Promised)
    BY <1>1, <1>3 DEF SetupInv, Stage
  <2>2. hw.out = <<>> => hw.reporting /\ hw.rate = RATE /\ CLOCK2_OFF \notin hw.config
    BY <2>1 DEF StatusOK, Promised, RATE
  <2>3. Stage'  BY <1>1, <2>2 DEF Stage, Asked, StatusRead, Checked
  <2>. QED  BY <1>1, <2>3 DEF SetupInv
<1>. QED  BY <1>2, <1>3

\* The handler only takes bytes.
LEMMA HandlerStep ==
  ASSUME SetupInv, ps2_mouse_interrupt_handler
  PROVE  SetupInv'
<1>1. /\ step = "running" /\ step' = "running" /\ mem' = mem /\ lookalike' = lookalike /\ stray' = stray
      /\ hw.out # <<>> /\ hw' = [hw EXCEPT !.out = Tail(hw.out)]
  BY DEF ps2_mouse_interrupt_handler
<1>2. hw \in Hardware  BY DEF SetupInv
<1> DEFINE t == Tail(hw.out)
<1>3. t \in Seq(Int) /\ hw' = [hw EXCEPT !.out = t]  BY <1>1, <1>2, HardwareFields
<1> HIDE DEF t
<1>4. hw' \in Hardware /\ SameState(hw, hw')  BY <1>2, <1>3, SetOut
<1>5. CASE lookalike  BY <1>1, <1>4, <1>5 DEF SetupInv
<1>6. CASE ~lookalike
  <2>1. Stage  BY <1>6 DEF SetupInv
  <2>2. Stage'  BY <1>1, <1>4, <2>1 DEF Stage, Asked, StatusRead, Checked, SameState
  <2>. QED  BY <1>1, <1>4, <2>2 DEF SetupInv
<1>. QED  BY <1>5, <1>6

\* The mouse may move at any time; its packet ends unlike the sample rate, or lookalike says so.
LEMMA MoveStep ==
  ASSUME SetupInv, Move
  PROVE  SetupInv'
<1>1. PICK d \in Moves :
        /\ hw' = Put(hw, PacketOf(d))
        /\ IF step = "running" THEN lookalike' = lookalike ELSE Other(PacketOf(d)[3])
  BY DEF Move
<1>2. step' = step /\ mem' = mem /\ stray' = stray  BY DEF Move
<1>3. hw \in Hardware /\ mem \in Memory /\ lookalike \in BOOLEAN  BY DEF SetupInv
<1> DEFINE p == PacketOf(d)
<1>4. p \in Seq(Int) /\ Len(p) = 3 /\ p # <<>>  BY PacketBytes, MouseAssumption
<1> HIDE DEF p
<1>5. hw' \in Hardware /\ hw'.out = hw.out \o p /\ SameState(hw, hw')
  <2>1. hw' = Put(hw, p)  BY <1>1 DEF p
  <2>. QED  BY <1>3, <1>4, <2>1, PutHardware
<1>6. CASE step = "running"
  <2>1. lookalike' = lookalike  BY <1>1, <1>6
  <2>2. Stage => Stage'  BY <1>2, <1>5, <1>6 DEF Stage, Asked, StatusRead, Checked, SameState
  <2>. QED  BY <1>2, <1>3, <1>5, <2>1, <2>2 DEF SetupInv
<1>7. CASE step # "running"
  <2>1. lookalike' \in BOOLEAN /\ (lookalike => lookalike') /\ (lookalike' \/ p[3] # RATE)
    <3>1. Other(p[3])  BY <1>1, <1>7 DEF p
    <3>. QED  BY <1>3, <3>1, OtherByte
  <2>2. CASE lookalike'  BY <1>2, <1>3, <1>5, <2>2 DEF SetupInv
  <2>3. CASE ~lookalike'
    <3>1. ~Ends(p)  BY <1>4, <2>1, <2>3 DEF Ends
    <3>2. hw.out \in Seq(Int)  BY <1>3, HardwareFields
    <3>3. ~Ends(hw'.out) /\ hw'.out # <<>>  BY <1>4, <1>5, <3>1, <3>2, PutLast
    <3>4. Stage  BY <2>1, <2>3 DEF SetupInv
    <3>5. Telling(hw')  BY <3>3 DEF Telling
    <3>6. StatusOK => StatusOK'  BY <1>2 DEF StatusOK
    <3>7. Stage'  BY <1>2, <1>7, <3>3, <3>4, <3>5, <3>6 DEF Stage
    <3>. QED  BY <1>2, <1>3, <1>5, <2>1, <3>7 DEF SetupInv
  <2>. QED  BY <2>2, <2>3
<1>. QED  BY <1>6, <1>7

\* Nothing happens.
LEMMA StillStep ==
  ASSUME SetupInv, UNCHANGED ps2Vars
  PROVE  SetupInv'
<1>1. hw' = hw /\ mem' = mem /\ lookalike' = lookalike /\ step' = step /\ stray' = stray  BY DEF ps2Vars
<1>2. Promised => Promised'  BY <1>1 DEF Promised
<1>3. StatusOK => StatusOK'  BY <1>1 DEF StatusOK
<1>4. Stage => Stage'  BY <1>1, <1>2, <1>3 DEF Stage
<1>. QED  BY <1>1, <1>4 DEF SetupInv

\* A command to the mouse, sent once or again.
LEMMA AckStep ==
  ASSUME SetupInv, ps2_write_device_data_wait_ack
  PROVE  SetupInv'
<1>1. DOMAIN Commands = {"disable_scanning", "identify", "set_default", "set_rate", "rate_value",
                         "enable_scanning", "get_id", "status_req"}
  BY DEF Commands
<1>2. step \in DOMAIN Commands /\ mem' = mem /\ lookalike' = lookalike
  BY DEF ps2_write_device_data_wait_ack, Unchanged
<1>3. PICK o \in Attempt(hw, Commands[step][1]) :
        hw' = o.hw /\ step' \in {step, Commands[step][2], Commands[step][3]}
  <2>1. PICK o \in Attempt(hw, Commands[step][1]) :
          /\ hw' = o.hw
          /\ step' = CASE Again(o) -> step
                     [] ~Again(o) /\ o.ok /\ o.byte = ACK -> Commands[step][2]
                     [] OTHER -> Commands[step][3]
    BY DEF ps2_write_device_data_wait_ack, Goto
  <2>2. step' \in {step, Commands[step][2], Commands[step][3]}  BY <2>1
  <2>. QED  BY <2>1, <2>2
<1>4. hw \in Hardware /\ mem \in Memory /\ lookalike \in BOOLEAN  BY DEF SetupInv
<1>5. CASE step # "status_req"
  <2>1. step \notin Asked  BY <1>1, <1>2, <1>5 DEF Asked, StatusRead, Checked
  <2>2. Commands[step][1] \in Int /\ Commands[step][1] # 233
    BY <1>1, <1>2, <1>5 DEF Commands, CONFIG_PS2_MOUSE_SAMPLE_RATE
  <2>3. /\ Commands[step][2] \in {"identify", "byte0", "set_rate", "rate_value", "enable_scanning",
                                "get_id", "id"}
        /\ Commands[step][3] \in {"panic", "id"}
    BY <1>1, <1>2, <1>5 DEF Commands
  <2>4. step' \notin Asked \/ step' = "panic"  BY <1>3, <2>1, <2>3 DEF Asked, StatusRead, Checked
  <2> DEFINE c == Commands[step][1]
  <2> HIDE DEF c
  <2>5. Calm(hw, o.hw)
    <3>1. o \in Attempt(hw, c) /\ c \in Int /\ c # 233  BY <2>2 DEF c
    <3>. QED  BY <1>4, <3>1, AttemptCalm
  <2>6. hw' \in Hardware /\ Calm(hw, hw')  BY <1>3, <2>5 DEF Calm
  <2>. QED  BY <1>2, <1>4, <2>1, <2>4, <2>6, EarlyStep
<1>6. CASE step = "status_req"
  <2>1. Commands[step][1] = 233 /\ Commands[step][2] = "status" /\ Commands[step][3] = "status"
    BY <1>6 DEF Commands
  <2>2. step' \in {"status_req", "status"}  BY <1>3, <1>6, <2>1
  <2>3. hw' \in Hardware /\ (Telling(hw) => Telling(hw'))
    <3>1. o \in Attempt(hw, 233)  BY <2>1
    <3>. QED  BY <1>3, <1>4, <3>1, AttemptTelling
  <2>4. CASE lookalike  BY <1>2, <1>4, <2>3, <2>4 DEF SetupInv
  <2>5. CASE ~lookalike
    <3>1. Telling(hw) /\ mem.status = 0 /\ mem.rate = 0
      BY <1>6, <2>5 DEF SetupInv, Stage, StatusRead, Checked
    <3>2. Stage'  BY <1>2, <2>2, <2>3, <3>1 DEF Stage, Asked, StatusRead, Checked
    <3>. QED  BY <1>2, <1>4, <2>3, <3>2 DEF SetupInv
  <2>. QED  BY <2>4, <2>5
<1>. QED  BY <1>5, <1>6

\* Bytes read into the local variables.
LEMMA SetMemory ==
  ASSUME NEW m \in Memory, NEW b \in Int
  PROVE  /\ [m EXCEPT !["byte0"] = b] \in Memory /\ [m EXCEPT !["byte1"] = b] \in Memory
         /\ [m EXCEPT !["id"] = b] \in Memory /\ [m EXCEPT !["status"] = b] \in Memory
         /\ [m EXCEPT !["res"] = b] \in Memory /\ [m EXCEPT !["rate"] = b] \in Memory
BY DEF Memory

\* Bit 5 of the bytes that the state of the mouse may begin with.
LEMMA StatusBits == 5 \notin Bits(0) /\ 5 \notin Bits(2)
<1>1. (0 \div 32) % 2 = 0 /\ (2 \div 32) % 2 = 0  BY Z3
<1>. QED  BY <1>1 DEF Bits, Weight

\* The bytes of the mouse's state, read one after the other, each perhaps too late.
LEMMA ReadStep ==
  ASSUME SetupInv, ReadByte
  PROVE  SetupInv'
<1>1. DOMAIN Reads = {"byte0", "byte1", "id", "status", "res", "rate"} /\ step \in DOMAIN Reads
  BY DEF Reads, ReadByte
<1>2. PICK o \in ps2_wait_read(hw) :
        /\ hw' = o.hw
        /\ mem' = IF o.ok THEN [mem EXCEPT ![step] = o.byte] ELSE mem
        /\ step' = Reads[step][IF o.ok THEN 1 ELSE 2]
  BY DEF ReadByte, Goto
<1>3. lookalike' = lookalike  BY DEF ReadByte, Unchanged
<1>4. hw \in Hardware /\ mem \in Memory /\ lookalike \in BOOLEAN  BY DEF SetupInv
<1>5. /\ hw' \in Hardware /\ SameState(hw, hw') /\ o.byte \in Int /\ o.ok \in BOOLEAN
      /\ hw'.out = (IF o.ok THEN Tail(hw.out) ELSE hw.out)
      /\ o.ok => hw.out # <<>> /\ o.byte = Head(hw.out)
  BY <1>2, <1>4, ReadHardware
<1>6. hw.out \in Seq(Int)  BY <1>4, HardwareFields
<1>7. mem' \in Memory
  <2>1. CASE ~o.ok  BY <1>2, <1>4, <2>1
  <2>2. CASE o.ok
    <3>1. mem' = [mem EXCEPT ![step] = o.byte]  BY <1>2, <2>2
    <3>. QED  BY <1>1, <1>4, <1>5, <3>1, SetMemory
  <2>. QED  BY <1>5, <2>1, <2>2
<1>8. CASE lookalike  BY <1>3, <1>5, <1>7, <1>8 DEF SetupInv
<1>9. CASE step \in {"byte0", "byte1", "id"}
  <2>1. step \notin Asked  BY <1>9 DEF Asked, StatusRead, Checked
  <2>2. step' \in {"byte1", "restore", "status_req", "panic"}  BY <1>2, <1>9 DEF Reads
  <2>3. mem'.status = mem.status /\ mem'.rate = mem.rate  BY <1>2, <1>4, <1>9 DEF Memory
  <2>4. Calm(hw, hw')  BY <1>2, <1>4, ReadCalm
  <2>5. step' \notin Asked \/ step' = "status_req" \/ step' = "panic"  BY <2>2 DEF Asked, StatusRead, Checked
  <2>. QED  BY <1>3, <1>4, <1>5, <1>7, <2>1, <2>3, <2>4, <2>5, EarlyStep
<1>10. CASE ~lookalike /\ step = "status"
  <2>1. step' = "res"  BY <1>2, <1>10 DEF Reads
  <2>2. Telling(hw) /\ mem.status = 0 /\ mem.rate = 0
    BY <1>10 DEF SetupInv, Stage, StatusRead, Checked
  <2>3. mem'.rate = mem.rate /\ mem'.status = IF o.ok THEN o.byte ELSE mem.status
    BY <1>2, <1>4, <1>10 DEF Memory
  <2>4. ASSUME Ends(hw'.out), Len(hw'.out) <= 2 PROVE Promised'
    <3> DEFINE s == hw.out
               t == hw'.out
    <3>1. s \in Seq(Int) /\ Len(s) \in Nat  BY <1>6
    <3>2. CASE ~o.ok
      <4>1. Ends(hw.out) /\ mem'.status = 0  BY <1>5, <2>2, <2>3, <2>4, <3>2
      <4>. QED  BY <1>5, <2>2, <4>1, StatusBits DEF Promised, Telling, SameState
    <3>3. CASE o.ok
      <4>1. s # <<>> /\ t = Tail(s) /\ o.byte = Head(s)  BY <1>5, <3>3
      <4>2. Ends(s) /\ Len(t) = Len(s) - 1 /\ Head(s) = s[1]  BY <2>4, <3>1, <4>1, TailLast
      <4>3. Len(t) >= 1  BY <2>4, <3>1, <4>1 DEF Ends
      <4>4. Len(s) = 2 \/ Len(s) = 3
        <5> DEFINE m == Len(t)
                   n == Len(s)
        <5>1. m <= 2 /\ m >= 1 /\ m = n - 1 /\ n \in Nat  BY <2>4, <3>1, <4>2, <4>3
        <5> HIDE DEF m, n
        <5>2. n = 2 \/ n = 3  BY <5>1
        <5>. QED  BY <5>2 DEF n
      <4>5. mem'.status = s[1]  BY <2>3, <3>3, <4>1, <4>2
      <4>6. s[1] = 2 \/ s[1] = Status(hw)
        <5>1. /\ Len(s) >= 2 => s[Len(s) - 1] = 2
              /\ Len(s) >= 3 => s[Len(s) - 2] = Status(hw)
          BY <2>2, <4>2 DEF Telling
        <5> HIDE DEF s
        <5>2. CASE Len(s) = 2
          <6>1. Len(s) - 1 = 1 /\ Len(s) >= 2  BY <5>2
          <6>. QED  BY <5>1, <6>1
        <5>3. CASE Len(s) = 3
          <6>1. Len(s) - 2 = 1 /\ Len(s) >= 3  BY <5>3
          <6>. QED  BY <5>1, <6>1
        <5>. QED  BY <4>4, <5>2, <5>3
      <4>7. 5 \in Bits(mem'.status) => hw.reporting
        BY <4>5, <4>6, StatusBits DEF Status
      <4>. QED  BY <1>5, <2>2, <4>2, <4>7 DEF Promised, Telling, SameState
    <3>. QED  BY <1>5, <3>2, <3>3
  <2>5. Stage'  BY <2>1, <2>2, <2>3, <2>4 DEF Stage, Asked, StatusRead, Checked
  <2>. QED  BY <1>3, <1>4, <1>5, <1>7, <2>5 DEF SetupInv
<1>11. CASE ~lookalike /\ step = "res"
  <2>1. step' = "rate"  BY <1>2, <1>11 DEF Reads
  <2>2. (Ends(hw.out) /\ Len(hw.out) <= 2 => Promised) /\ mem.rate = 0
    BY <1>11 DEF SetupInv, Stage, Checked
  <2>3. mem'.rate = mem.rate /\ mem'.status = mem.status  BY <1>2, <1>4, <1>11 DEF Memory
  <2>4. ASSUME Ends(hw'.out), Len(hw'.out) = 1 PROVE Promised'
    <3>1. Ends(hw.out) /\ Len(hw.out) <= 2
      <4>1. CASE ~o.ok
        <5>1. hw'.out = hw.out  BY <1>5, <4>1
        <5>2. Ends(hw.out) /\ Len(hw.out) = 1  BY <2>4, <5>1
        <5>. QED  BY <5>2
      <4>2. CASE o.ok
        <5>1. Ends(hw.out) /\ Len(hw'.out) = Len(hw.out) - 1 /\ Len(hw.out) \in Nat
          BY <1>5, <1>6, <2>4, <4>2, TailLast
        <5> DEFINE n == Len(hw.out)
        <5>2. 1 = n - 1 /\ n \in Nat  BY <2>4, <5>1
        <5> HIDE DEF n
        <5>3. n <= 2  BY <5>2
        <5>. QED  BY <5>1, <5>3 DEF n
      <4>. QED  BY <1>5, <4>1, <4>2
    <3>. QED  BY <1>5, <2>2, <2>3, <3>1 DEF Promised, SameState
  <2>5. Stage'  BY <2>1, <2>2, <2>3, <2>4 DEF Stage, Asked, StatusRead, Checked
  <2>. QED  BY <1>3, <1>4, <1>5, <1>7, <2>5 DEF SetupInv
<1>12. CASE ~lookalike /\ step = "rate"
  <2>1. step' = "check"  BY <1>2, <1>12 DEF Reads
  <2>2. (Ends(hw.out) /\ Len(hw.out) = 1 => Promised) /\ mem.rate = 0
    BY <1>12 DEF SetupInv, Stage, Checked
  <2>3. mem'.status = mem.status /\ mem'.rate = IF o.ok THEN o.byte ELSE mem.rate
    BY <1>2, <1>4, <1>12 DEF Memory
  <2>4. ASSUME hw'.out = <<>>, mem'.rate = RATE PROVE Promised'
    <3>1. o.ok  BY <2>2, <2>3, <2>4 DEF RATE, CONFIG_PS2_MOUSE_SAMPLE_RATE
    <3> DEFINE s == hw.out
    <3>2. s # <<>> /\ Tail(s) = <<>> /\ s \in Seq(Int) /\ Head(s) = RATE
      BY <1>5, <1>6, <2>3, <2>4, <3>1
    <3> HIDE DEF s
    <3>3. Len(s) = 1 /\ s[1] = RATE
      <4>1. Len(Tail(s)) = Len(s) - 1 /\ Head(s) = s[1] /\ Len(s) \in Nat  BY <3>2, TailLast
      <4>2. Len(Tail(s)) = 0
        <5> DEFINE t == Tail(s)
        <5>1. t = <<>>  BY <3>2
        <5> HIDE DEF t
        <5>2. Len(t) = 0  BY ONLY <5>1
        <5>. QED  BY <5>2 DEF t
      <4> DEFINE n == Len(s)
      <4>3. 0 = n - 1 /\ n \in Nat  BY <4>1, <4>2
      <4> HIDE DEF n
      <4>4. n = 1  BY <4>3
      <4>. QED  BY <3>2, <4>1, <4>4 DEF n
    <3>4. Ends(hw.out) /\ Len(hw.out) = 1  BY <3>2, <3>3 DEF Ends, s
    <3>. QED  BY <1>5, <2>2, <2>3, <3>4 DEF Promised, SameState
  <2>5. Stage'  BY <2>1, <2>4 DEF Stage, Asked, StatusRead, Checked
  <2>. QED  BY <1>3, <1>4, <1>5, <1>7, <2>5 DEF SetupInv
<1>. QED  BY <1>1, <1>4, <1>8, <1>9, <1>10, <1>11, <1>12

\* Every step keeps the invariant.
LEMMA SetupNext ==
  ASSUME SetupInv, [Ps2Next]_ps2Vars
  PROVE  SetupInv'
BY CommandStep, FlushStep, ConfigureStep, TestControllerStep, TestPortStep, AckStep, PanicStep,
   ReadStep, IdentifiedStep, MaskStep, CheckStep, UnmaskStep, HandlerStep, MoveStep, StillStep
   DEF Ps2Next, Driver, Rest

\* When ps2_mouse_init reports success and nothing else is under way, the mouse reports its
\* movements at the rate asked for, however the answers were lost, late or mixed up: the
\* state that the driver checks can only be the one the mouse told.
THEOREM MouseReadyCorrect == Ps2Spec => []MouseReady
<1>1. Ps2Init => SetupInv  BY SetupInit
<1>2. SetupInv /\ [Ps2Next]_ps2Vars => SetupInv'  BY SetupNext
<1>3. SetupInv => MouseReady  BY DEF SetupInv, Stage, MouseReady, RATE
<1>. QED  BY <1>1, <1>2, <1>3, PTL DEF Ps2Spec
----------------------------------------------------------------------------
\* A packet says how the mouse has moved, unless it was too far.
LEMMA PacketMovement ==
  ASSUME NEW d \in Int \X Int, NEW p, p[1] = PacketOf(d)[1], p[2] = PacketOf(d)[2], p[3] = PacketOf(d)[3]
  PROVE  /\ Overflow(p) <=> Large(d[1]) \/ Large(d[2])
         /\ ~Overflow(p) => Movement(p) = d
<1> DEFINE S == {3} \cup {i \in 4..5 : d[i - 3] < 0} \cup {i \in 6..7 : Large(d[i - 5])}
<1>1. S \in SUBSET (0..7)  OBVIOUS
<1>2. Bits(Byte(S)) = S  BY <1>1, BitsOfByte
<1>3. p[1] = Byte(S) /\ p[2] = d[1] % 256 /\ p[3] = d[2] % 256  BY DEF PacketOf
<1>4. (4 \in S <=> d[1] < 0) /\ (5 \in S <=> d[2] < 0)
  <2>1. 4 - 3 = 1 /\ 5 - 3 = 2  OBVIOUS
  <2>. QED  BY <2>1
<1>5. (6 \in S <=> Large(d[1])) /\ (7 \in S <=> Large(d[2]))
  <2>1. 6 - 5 = 1 /\ 7 - 5 = 2  OBVIOUS
  <2>. QED  BY <2>1
<1> HIDE DEF S
<1>6. Bits(p[1]) = S  BY <1>2, <1>3
<1>7. Overflow(p) <=> Large(d[1]) \/ Large(d[2])  BY <1>5, <1>6 DEF Overflow
<1>8. ASSUME NEW n \in Int, ~Large(n) PROVE Delta(n % 256, n < 0) = n
  <2>1. n \in -256..255  BY <1>8 DEF Large
  <2>2. n % 256 = IF n < 0 THEN n + 256 ELSE n  BY <2>1
  <2>. QED  BY <2>2 DEF Delta
<1>9. ASSUME ~Overflow(p) PROVE Movement(p) = d
  <2>1. ~Large(d[1]) /\ ~Large(d[2])  BY <1>7, <1>9
  <2>2. Delta(p[2], 4 \in Bits(p[1])) = d[1]
    <3>1. Delta(d[1] % 256, d[1] < 0) = d[1]  BY <1>8, <2>1
    <3>2. (4 \in Bits(p[1])) <=> d[1] < 0  BY <1>4, <1>6
    <3>. QED  BY <1>3, <3>1, <3>2 DEF Delta
  <2>3. Delta(p[3], 5 \in Bits(p[1])) = d[2]
    <3>1. Delta(d[2] % 256, d[2] < 0) = d[2]  BY <1>8, <2>1
    <3>2. (5 \in Bits(p[1])) <=> d[2] < 0  BY <1>4, <1>6
    <3>. QED  BY <1>3, <3>1, <3>2 DEF Delta
  <2>4. d = <<d[1], d[2]>>  OBVIOUS
  <2>. QED  BY <2>2, <2>3, <2>4 DEF Movement
<1>. QED  BY <1>7, <1>9

\* Where the movement d leads from a.
After(a, d) == IF Large(d[1]) \/ Large(d[2]) THEN a ELSE Plus(a, d)

\* s holds the packets of the movements ds, which lead from a to z by way of the places at.
PendingMoves(s, ds, at, a, z) ==
  /\ s \in Seq(Int) /\ ds \in Seq(Int \X Int) /\ at \in Seq(Int \X Int)
  /\ Len(s) = 3 * Len(ds) /\ Len(at) = Len(ds) + 1
  /\ \A k \in 1..Len(ds) : \A j \in 1..3 : s[3 * (k - 1) + j] = PacketOf(ds[k])[j]
  /\ at[1] = a /\ at[Len(at)] = z
  /\ \A k \in 1..Len(ds) : at[k + 1] = After(at[k], ds[k])

\* Nothing is pending, and the mouse is where the pointer is.
LEMMA PendingNone ==
  ASSUME NEW a \in Int \X Int
  PROVE  PendingMoves(<<>>, <<>>, <<a>>, a, a)
BY DEF PendingMoves

\* One more movement.
LEMMA PendingMore ==
  ASSUME NEW s, NEW ds, NEW at, NEW a, NEW z, PendingMoves(s, ds, at, a, z), NEW d \in Int \X Int
  PROVE  PendingMoves(s \o PacketOf(d), Append(ds, d), Append(at, After(z, d)), a, After(z, d))
<1> DEFINE p == PacketOf(d)
           t == s \o p
           es == Append(ds, d)
           y == After(z, d)
           bt == Append(at, y)
           n == Len(ds)
<1>1. p \in Seq(Int) /\ Len(p) = 3 /\ p # <<>>  BY PacketBytes
<1>2. /\ s \in Seq(Int) /\ ds \in Seq(Int \X Int) /\ at \in Seq(Int \X Int)
      /\ Len(s) = 3 * n /\ Len(at) = n + 1 /\ n \in Nat
      /\ at[1] = a /\ at[n + 1] = z
  BY DEF PendingMoves
<1>3. \A k \in 1..n : \A j \in 1..3 : s[3 * (k - 1) + j] = PacketOf(ds[k])[j]  BY DEF PendingMoves
<1>4. \A k \in 1..n : at[k + 1] = After(at[k], ds[k])  BY DEF PendingMoves
<1>5. z \in Int \X Int  BY <1>2
<1>6. y \in Int \X Int  BY <1>5 DEF After, Plus
<1> HIDE DEF p, y
<1>7. /\ es \in Seq(Int \X Int) /\ Len(es) = n + 1 /\ es[n + 1] = d
      /\ \A k \in 1..n : es[k] = ds[k]
  BY <1>2
<1>8. /\ bt \in Seq(Int \X Int) /\ Len(bt) = n + 2 /\ bt[n + 2] = y
      /\ \A k \in 1..(n + 1) : bt[k] = at[k]
  BY <1>2, <1>6
<1>9. /\ t \in Seq(Int) /\ Len(t) = 3 * n + 3
      /\ \A i \in 1..(3 * n) : t[i] = s[i]
      /\ \A j \in 1..3 : t[3 * n + j] = p[j]
  <2>1. t \in Seq(Int) /\ Len(t) = Len(s) + Len(p) /\ \A i \in 1..Len(p) : t[Len(s) + i] = p[i]
    BY <1>1, <1>2, PutLast
  <2>2. \A i \in 1..Len(s) : t[i] = s[i]  BY <1>1, <1>2
  <2> HIDE DEF t, n
  <2>. QED  BY <1>1, <1>2, <2>1, <2>2
<1> HIDE DEF t, es, bt, n
<1>10. \A k \in 1..(n + 1) : \A j \in 1..3 : t[3 * (k - 1) + j] = PacketOf(es[k])[j]
  <2> SUFFICES ASSUME NEW k \in 1..(n + 1), NEW j \in 1..3 PROVE t[3 * (k - 1) + j] = PacketOf(es[k])[j]
    OBVIOUS
  <2>1. CASE k = n + 1
    <3>1. 3 * (k - 1) + j = 3 * n + j  BY <1>2, <2>1
    <3>2. t[3 * n + j] = p[j] /\ es[k] = d  BY <1>7, <1>9, <2>1
    <3>. QED  BY <3>1, <3>2 DEF p
  <2>2. CASE k # n + 1
    <3>1. k \in 1..n /\ (3 * (k - 1) + j) \in 1..(3 * n)
      <4>1. n \in Nat  BY <1>2
      <4>. QED  BY ONLY <2>2, <4>1, k \in 1..(n + 1), j \in 1..3
    <3>2. t[3 * (k - 1) + j] = s[3 * (k - 1) + j] /\ es[k] = ds[k]  BY <1>7, <1>9, <3>1
    <3>. QED  BY <1>3, <3>1, <3>2
  <2>. QED  BY <2>1, <2>2
<1>11. \A k \in 1..(n + 1) : bt[k + 1] = After(bt[k], es[k])
  <2> SUFFICES ASSUME NEW k \in 1..(n + 1) PROVE bt[k + 1] = After(bt[k], es[k])  OBVIOUS
  <2>1. CASE k = n + 1
    <3>1. k + 1 = n + 2 /\ bt[k] = z /\ es[k] = d  BY <1>2, <1>7, <1>8, <2>1
    <3>. QED  BY <1>8, <3>1 DEF y
  <2>2. CASE k # n + 1
    <3>1. k \in 1..n /\ (k + 1) \in 1..(n + 1)  BY <1>2, <2>2
    <3>2. bt[k + 1] = at[k + 1] /\ bt[k] = at[k] /\ es[k] = ds[k]  BY <1>7, <1>8, <3>1
    <3>. QED  BY <1>4, <3>1, <3>2
  <2>. QED  BY <2>1, <2>2
<1>12. bt[1] = a /\ bt[Len(bt)] = y /\ Len(t) = 3 * Len(es) /\ Len(bt) = Len(es) + 1
  BY <1>2, <1>7, <1>8, <1>9
<1>13. PendingMoves(t, es, bt, a, y)  BY <1>7, <1>8, <1>9, <1>10, <1>11, <1>12 DEF PendingMoves
<1>. QED  BY <1>13 DEF t, es, bt, y, p

\* Sequences without their first element.
LEMMA TailOf ==
  ASSUME NEW T, NEW q \in Seq(T), q # <<>>
  PROVE  /\ Tail(q) \in Seq(T) /\ Len(Tail(q)) = Len(q) - 1
         /\ \A k \in 1..(Len(q) - 1) : Tail(q)[k] = q[k + 1]
OBVIOUS

\* Sequences are equal if their elements are.
LEMMA SameBytes ==
  ASSUME NEW v \in Seq(Int), NEW w \in Seq(Int), Len(v) = Len(w), \A i \in 1..Len(w) : v[i] = w[i]
  PROVE  v = w
OBVIOUS

\* Sequences are joined in any order.
LEMMA JoinThree ==
  ASSUME NEW u \in Seq(Int), NEW v \in Seq(Int), NEW w \in Seq(Int)
  PROVE  (u \o v) \o w = u \o (v \o w)
OBVIOUS

\* The first packet, and what is left without it.
LEMMA PendingFirst ==
  ASSUME NEW s, NEW ds, NEW at, NEW a, NEW z, PendingMoves(s, ds, at, a, z), NEW t \in Seq(Int),
         Len(s) = Len(t) + 3, \A i \in 1..Len(t) : t[i] = s[i + 3]
  PROVE  /\ \A j \in 1..3 : s[j] = PacketOf(ds[1])[j]
         /\ ds[1] \in Int \X Int
         /\ PendingMoves(t, Tail(ds), Tail(at), After(a, ds[1]), z)
<1> DEFINE n == Len(ds)
           es == Tail(ds)
           bt == Tail(at)
           y == After(a, ds[1])
<1>1. /\ s \in Seq(Int) /\ ds \in Seq(Int \X Int) /\ at \in Seq(Int \X Int)
      /\ Len(s) = 3 * n /\ Len(at) = n + 1 /\ n \in Nat
      /\ at[1] = a /\ at[n + 1] = z
  BY DEF PendingMoves
<1>2. \A k \in 1..n : \A j \in 1..3 : s[3 * (k - 1) + j] = PacketOf(ds[k])[j]  BY DEF PendingMoves
<1>3. \A k \in 1..n : at[k + 1] = After(at[k], ds[k])  BY DEF PendingMoves
<1>4. Len(t) \in Nat  OBVIOUS
<1>5. n >= 1 /\ Len(t) = 3 * (n - 1)
  <2>1. \A p, m \in Nat : p + 3 = 3 * m => m >= 1 /\ p = 3 * (m - 1)  OBVIOUS
  <2>2. Len(t) + 3 = 3 * n /\ n \in Nat  BY <1>1
  <2> HIDE DEF n
  <2>. QED  BY ONLY <1>4, <2>1, <2>2
<1>6. ds # <<>> /\ at # <<>>  BY <1>1, <1>5
<1>7. /\ es \in Seq(Int \X Int) /\ Len(es) = n - 1 /\ \A k \in 1..(n - 1) : es[k] = ds[k + 1]
  BY <1>1, <1>6
<1>8. /\ bt \in Seq(Int \X Int) /\ Len(bt) = n /\ \A k \in 1..n : bt[k] = at[k + 1]
  <2>1. bt \in Seq(Int \X Int) /\ Len(bt) = Len(at) - 1 /\ \A k \in 1..(Len(at) - 1) : bt[k] = at[k + 1]
    BY <1>1, <1>6, TailOf
  <2>2. Len(at) - 1 = n  BY <1>1
  <2>. QED  BY <2>1, <2>2
<1>9. 1 \in 1..n /\ ds[1] \in Int \X Int  BY <1>1, <1>5
<1> HIDE DEF n, es, bt
<1>10. \A j \in 1..3 : s[j] = PacketOf(ds[1])[j]
  <2> SUFFICES ASSUME NEW j \in 1..3 PROVE s[j] = PacketOf(ds[1])[j]  OBVIOUS
  <2>1. 3 * (1 - 1) + j = j  OBVIOUS
  <2>2. s[3 * (1 - 1) + j] = PacketOf(ds[1])[j]  BY <1>2, <1>9
  <2>. QED  BY <2>1, <2>2
<1>11. \A k \in 1..(n - 1) : \A j \in 1..3 : t[3 * (k - 1) + j] = PacketOf(es[k])[j]
  <2> SUFFICES ASSUME NEW k \in 1..(n - 1), NEW j \in 1..3 PROVE t[3 * (k - 1) + j] = PacketOf(es[k])[j]
    OBVIOUS
  <2> DEFINE i == 3 * (k - 1) + j
  <2>1. /\ k + 1 \in 1..n /\ i \in 1..(3 * (n - 1)) /\ i + 3 = 3 * ((k + 1) - 1) + j
    <3>1. n \in Nat  BY <1>1
    <3>. QED  BY ONLY <3>1, k \in 1..(n - 1), j \in 1..3
  <2>2. s[3 * ((k + 1) - 1) + j] = PacketOf(ds[k + 1])[j]  BY <1>2, <2>1
  <2> HIDE DEF i
  <2>3. t[i] = s[i + 3]  BY <1>5, <2>1
  <2>4. t[i] = PacketOf(es[k])[j]  BY <1>7, <2>1, <2>2, <2>3
  <2>. QED  BY <2>4 DEF i
<1>12. \A k \in 1..(n - 1) : bt[k + 1] = After(bt[k], es[k])
  <2> SUFFICES ASSUME NEW k \in 1..(n - 1) PROVE bt[k + 1] = After(bt[k], es[k])  OBVIOUS
  <2>1. k \in 1..n /\ k + 1 \in 1..n  BY <1>1
  <2>2. bt[k + 1] = at[(k + 1) + 1] /\ bt[k] = at[k + 1] /\ es[k] = ds[k + 1]  BY <1>7, <1>8, <2>1
  <2>. QED  BY <1>3, <2>1, <2>2
<1>13. bt[1] = y /\ bt[Len(bt)] = z
  <2>1. bt[1] = at[1 + 1] /\ at[1 + 1] = After(at[1], ds[1])  BY <1>3, <1>8, <1>9
  <2>2. bt[n] = at[n + 1]  BY <1>1, <1>5, <1>8
  <2>. QED  BY <1>1, <1>8, <2>1, <2>2
<1>14. Len(t) = 3 * Len(es) /\ Len(bt) = Len(es) + 1  BY <1>1, <1>5, <1>7, <1>8
<1> HIDE DEF y
<1>15. PendingMoves(t, es, bt, y, z)  BY <1>7, <1>8, <1>11, <1>12, <1>13, <1>14 DEF PendingMoves
<1>. QED  BY <1>9, <1>10, <1>15 DEF es, bt, y

\* The packet that is being received and the ones under way are those of movements which
\* lead from where the pointer is to where the mouse is.
TrackInv ==
  /\ mpacket \in Seq(Int) /\ Len(mpacket) <= 2
  /\ step # "running" => mpacket = <<>> /\ position = <<0, 0>> /\ moved = <<0, 0>>
  /\ step = "running" /\ ~stray =>
       \E ds, at : PendingMoves(mpacket \o hw.out, ds, at, position, moved)

\* Before the set-up the pointer is where it was put.
LEMMA TrackInit == Ps2Init => TrackInv
BY DEF Ps2Init, TrackInv

\* The byte that the handler takes goes from the bytes under way to the packet.
LEMMA Received ==
  ASSUME NEW m \in Seq(Int), NEW s \in Seq(Int), s # <<>>
  PROVE  LET p == Append(m, Head(s))
             w == m \o s
             t == Tail(s)
         IN /\ p \in Seq(Int) /\ Len(p) = Len(m) + 1 /\ p \o t = w
            /\ t \in Seq(Int) /\ Len(w) = Len(t) + Len(p)
            /\ \A i \in 1..Len(p) : w[i] = p[i]
            /\ \A i \in 1..Len(t) : t[i] = w[i + Len(p)]
<1> DEFINE p == Append(m, Head(s))
           w == m \o s
           t == Tail(s)
           k == Len(m)
           n == Len(s)
<1>1. t \in Seq(Int) /\ Len(t) = n - 1 /\ Head(s) = s[1] /\ s[1] \in Int /\ n \in Nat /\ n >= 1 /\ k \in Nat
  OBVIOUS
<1>2. \A i \in 1..(n - 1) : t[i] = s[i + 1]  OBVIOUS
<1>3. p \in Seq(Int) /\ Len(p) = k + 1 /\ p[k + 1] = s[1] /\ \A i \in 1..k : p[i] = m[i]  BY <1>1
<1>4. w \in Seq(Int) /\ Len(w) = k + n /\ \A i \in 1..k : w[i] = m[i]  OBVIOUS
<1>5. \A i \in 1..n : w[k + i] = s[i]
  <2>1. \A i \in 1..Len(s) : (m \o s)[Len(m) + i] = s[i]  BY PutLast
  <2>. QED  BY <2>1
<1> HIDE DEF p, w, t, k, n
<1>6. \A i \in 1..(k + 1) : w[i] = p[i]
  <2>1. w[k + 1] = s[1]  BY <1>1, <1>5
  <2> SUFFICES ASSUME NEW i \in 1..(k + 1) PROVE w[i] = p[i]  OBVIOUS
  <2>2. i = k + 1 \/ i \in 1..k  BY <1>1
  <2>. QED  BY <1>3, <1>4, <2>1, <2>2
<1>7. \A i \in 1..Len(t) : t[i] = w[i + (k + 1)]
  <2> SUFFICES ASSUME NEW i \in 1..Len(t) PROVE t[i] = w[i + (k + 1)]  OBVIOUS
  <2>1. i \in 1..(n - 1) /\ i + 1 \in 1..n /\ i + (k + 1) = k + (i + 1)  BY <1>1
  <2>. QED  BY <1>2, <1>5, <2>1
<1>8. Len(w) = Len(t) + Len(p)  BY <1>1, <1>3, <1>4
<1>9. p \o t = w
  <2> DEFINE v == p \o t
  <2>1. v \in Seq(Int) /\ Len(v) = Len(p) + Len(t)
    <3>1. p \in Seq(Int) /\ t \in Seq(Int)  BY <1>1, <1>3
    <3>. QED  BY ONLY <3>1
  <2>2. \A i \in 1..Len(p) : v[i] = p[i]  BY <1>1, <1>3
  <2>3. \A i \in (Len(p) + 1)..(Len(p) + Len(t)) : v[i] = t[i - Len(p)]  BY <1>1, <1>3
  <2> HIDE DEF v
  <2>4. Len(v) = Len(w) /\ Len(w) \in Nat  BY <1>1, <1>3, <1>4, <2>1
  <2>5. ASSUME NEW i \in 1..Len(w) PROVE v[i] = w[i]
    <3>1. CASE i <= k + 1  BY <1>1, <1>3, <1>6, <2>2, <3>1
    <3>2. CASE i > k + 1
      <4>1. /\ i \in (Len(p) + 1)..(Len(p) + Len(t)) /\ i - (k + 1) \in 1..Len(t)
            /\ (i - (k + 1)) + (k + 1) = i
        BY <1>1, <1>3, <1>4, <3>2
      <4>. QED  BY <1>3, <1>7, <2>3, <4>1
    <3>. QED  BY <1>1, <1>4, <3>1, <3>2
  <2>6. v = w  BY <1>4, <2>1, <2>4, <2>5, SameBytes
  <2>. QED  BY <2>6 DEF v
<1>. QED  BY <1>1, <1>3, <1>6, <1>7, <1>8, <1>9 DEF p, w, t, k

\* The handler adds the first pending movement once it has its third byte.
LEMMA TrackHandler ==
  ASSUME hw \in Hardware, TrackInv, ps2_mouse_interrupt_handler
  PROVE  TrackInv'
<1> DEFINE s == hw.out
           b == Head(s)
           p == Append(mpacket, b)
<1>1. /\ step = "running" /\ step' = "running" /\ stray' = stray /\ moved' = moved
      /\ s # <<>> /\ hw' = [hw EXCEPT !.out = Tail(s)]
      /\ mpacket' = (IF Len(p) = 3 THEN <<>> ELSE p)
      /\ position' = IF Len(p) = 3 /\ ~Overflow(p) THEN Plus(position, Movement(p)) ELSE position
  BY DEF ps2_mouse_interrupt_handler
<1>2. s \in Seq(Int) /\ mpacket \in Seq(Int) /\ Len(mpacket) <= 2  BY HardwareFields DEF TrackInv
<1>3. /\ p \in Seq(Int) /\ Len(p) = Len(mpacket) + 1 /\ p \o Tail(s) = mpacket \o s
      /\ Tail(s) \in Seq(Int) /\ Len(mpacket \o s) = Len(Tail(s)) + Len(p)
      /\ \A i \in 1..Len(p) : (mpacket \o s)[i] = p[i]
      /\ \A i \in 1..Len(Tail(s)) : Tail(s)[i] = (mpacket \o s)[i + Len(p)]
  BY <1>1, <1>2, Received
<1>4. hw'.out = Tail(s)
  <2> DEFINE t == Tail(s)
  <2>1. t \in Seq(Int) /\ hw' = [hw EXCEPT !.out = t]  BY <1>1, <1>3
  <2> HIDE DEF t
  <2>2. hw'.out = t  BY <2>1, SetOut
  <2>. QED  BY <2>2 DEF t
<1>5. Len(mpacket) \in Nat  BY <1>2
<1> HIDE DEF b, p
<1>6. CASE Len(p) # 3
  <2>1. mpacket' = p /\ position' = position  BY <1>1, <1>6
  <2>2. mpacket' \o hw'.out = mpacket \o hw.out  BY <1>3, <1>4, <2>1
  <2>3. Len(p) <= 2  BY <1>2, <1>3, <1>5, <1>6
  <2>. QED  BY <1>1, <1>3, <2>1, <2>2, <2>3 DEF TrackInv
<1>7. CASE Len(p) = 3
  <2> DEFINE w == mpacket \o s
             t == Tail(s)
  <2>1. mpacket' = <<>> /\ mpacket' \in Seq(Int) /\ Len(mpacket') <= 2  BY <1>1, <1>7
  <2>2. CASE stray  BY <1>1, <2>1, <2>2 DEF TrackInv
  <2>3. CASE ~stray
    <3>1. PICK ds, at : PendingMoves(w, ds, at, position, moved)  BY <1>1, <2>3 DEF TrackInv
    <3>7. w[1] = p[1] /\ w[2] = p[2] /\ w[3] = p[3]
      <4>1. 1 \in 1..Len(p) /\ 2 \in 1..Len(p) /\ 3 \in 1..Len(p)  BY <1>7
      <4>. QED  BY <1>3, <4>1
    <3>8. Len(w) = Len(t) + 3  BY <1>3, <1>7
    <3>9. \A i \in 1..Len(t) : t[i] = w[i + 3]  BY <1>3, <1>7
    <3>10. t \in Seq(Int)  BY <1>3
    <3> DEFINE d == ds[1]
    <3> HIDE DEF w, t
    <3>11. /\ \A j \in 1..3 : w[j] = PacketOf(ds[1])[j]
           /\ ds[1] \in Int \X Int
           /\ PendingMoves(t, Tail(ds), Tail(at), After(position, ds[1]), moved)
      BY <3>1, <3>8, <3>9, <3>10, PendingFirst
    <3>12. d \in Int \X Int /\ p[1] = PacketOf(d)[1] /\ p[2] = PacketOf(d)[2] /\ p[3] = PacketOf(d)[3]
      BY <3>7, <3>11
    <3> HIDE DEF d
    <3>13. (Overflow(p) <=> Large(d[1]) \/ Large(d[2])) /\ (~Overflow(p) => Movement(p) = d)
      BY <3>12, PacketMovement
    <3>14. position' = After(position, d)  BY <1>1, <1>7, <3>13 DEF After, p
    <3>15. mpacket' \o hw'.out = t  BY <1>4, <2>1, <3>10 DEF t
    <3>16. PendingMoves(mpacket' \o hw'.out, Tail(ds), Tail(at), position', moved')
      BY <1>1, <3>11, <3>14, <3>15 DEF d
    <3>. QED  BY <1>1, <2>1, <3>16 DEF TrackInv
  <2>. QED  BY <2>2, <2>3
<1>. QED  BY <1>6, <1>7

\* A movement of the mouse becomes the last pending one.
LEMMA TrackMove ==
  ASSUME hw \in Hardware, TrackInv, Move
  PROVE  TrackInv'
<1>1. PICK d \in Moves :
        /\ hw' = Put(hw, PacketOf(d))
        /\ moved' = IF step = "running" /\ ~Large(d[1]) /\ ~Large(d[2]) THEN Plus(moved, d) ELSE moved
  BY DEF Move
<1>2. step' = step /\ stray' = stray /\ mpacket' = mpacket /\ position' = position  BY DEF Move
<1>3. d \in Int \X Int  BY MouseAssumption
<1> DEFINE p == PacketOf(d)
           s == hw.out
<1>4. p \in Seq(Int)  BY <1>3, PacketBytes
<1>5. hw'.out = s \o p /\ s \in Seq(Int)
  <2> HIDE DEF p
  <2>1. hw' = Put(hw, p)  BY <1>1 DEF p
  <2>. QED  BY <1>4, <2>1, PutHardware, HardwareFields
<1>6. CASE step # "running"
  <2>1. moved' = moved  BY <1>1, <1>6
  <2>. QED  BY <1>2, <1>6, <2>1 DEF TrackInv
<1>7. CASE step = "running"
  <2>1. moved' = After(moved, d)  BY <1>1, <1>7 DEF After
  <2>2. CASE stray  BY <1>2, <1>7, <2>2 DEF TrackInv
  <2>3. CASE ~stray
    <3>1. PICK ds, at : PendingMoves(mpacket \o s, ds, at, position, moved)  BY <1>7, <2>3 DEF TrackInv
    <3>2. mpacket \in Seq(Int)  BY DEF TrackInv
    <3>3. (mpacket \o s) \o p = mpacket \o (s \o p)  BY <1>4, <1>5, <3>2, JoinThree
    <3>4. PendingMoves((mpacket \o s) \o p, Append(ds, d), Append(at, After(moved, d)), position,
                  After(moved, d))
      BY <1>3, <3>1, PendingMore
    <3> HIDE DEF p, s
    <3>5. PendingMoves(mpacket' \o hw'.out, Append(ds, d), Append(at, After(moved, d)), position', moved')
      BY <1>2, <1>5, <2>1, <3>3, <3>4
    <3>. QED  BY <1>2, <1>7, <3>5 DEF TrackInv
  <2>. QED  BY <2>2, <2>3
<1>. QED  BY <1>6, <1>7

\* When the set-up ends nothing is pending, or stray says so.
LEMMA TrackUnmask ==
  ASSUME TrackInv, UnmaskIrq
  PROVE  TrackInv'
<1>1. /\ step = "unmask_irq" /\ step' = "running" /\ stray' = (hw.out # <<>>) /\ hw' = hw
      /\ mpacket' = mpacket /\ position' = position /\ moved' = moved
  BY DEF UnmaskIrq, Goto
<1>2. mpacket = <<>> /\ position = <<0, 0>> /\ moved = <<0, 0>>  BY <1>1 DEF TrackInv
<1>3. ASSUME ~stray' PROVE \E ds, at : PendingMoves(mpacket' \o hw'.out, ds, at, position', moved')
  <2> DEFINE o == <<0, 0>>
  <2>1. o \in Int \X Int  OBVIOUS
  <2>2. mpacket' \o hw'.out = <<>>
    <3>1. hw'.out = <<>>  BY <1>1, <1>3
    <3>2. mpacket' = <<>>  BY <1>1, <1>2
    <3>3. <<>> \o <<>> = <<>>  OBVIOUS
    <3>. QED  BY <3>1, <3>2, <3>3
  <2>3. position' = o /\ moved' = o  BY <1>1, <1>2
  <2> HIDE DEF o
  <2>4. PendingMoves(<<>>, <<>>, <<o>>, o, o)  BY <2>1, PendingNone
  <2>. QED  BY <2>2, <2>3, <2>4
<1>. QED  BY <1>1, <1>2, <1>3 DEF TrackInv

\* The other steps of the set-up do not touch the packets.
LEMMA TrackSetup ==
  ASSUME TrackInv, step # "running", step' # "running", Untouched
  PROVE  TrackInv'
BY DEF TrackInv, Untouched

\* Nothing happens.
LEMMA TrackStill ==
  ASSUME TrackInv, UNCHANGED ps2Vars
  PROVE  TrackInv'
BY DEF TrackInv, ps2Vars

\* Only UnmaskIrq ends the set-up.
LEMMA SetupLabels ==
  ASSUME \/ ControllerCommand \/ Flush \/ Configure \/ TestController \/ TestPort
         \/ ps2_write_device_data_wait_ack \/ DeviceNotReady \/ ReadByte \/ Identified
         \/ MaskIrq \/ CheckState
  PROVE  step # "running" /\ step' # "running" /\ Untouched
<1>1. CASE ControllerCommand
  <2>1. step \in {"disable_first", "disable_second", "enable_first", "enable_second"}
    BY <1>1 DEF ControllerCommand, Writes
  <2>2. step' \in {Writes[step][2], Writes[step][3]}  BY <1>1 DEF ControllerCommand, Goto
  <2>3. Writes[step][2] # "running" /\ Writes[step][3] # "running"  BY <2>1 DEF Writes, INIT_RETURNS
  <2>. QED  BY <1>1, <2>1, <2>2, <2>3 DEF ControllerCommand, Unchanged
<1>2. CASE Flush  BY <1>2 DEF Flush, Goto, Unchanged
<1>3. CASE Configure
  <2>1. step \in {"configure", "quiet", "interrupts"}  BY <1>3 DEF Configure, Configurations
  <2>2. step' = Configurations[step][3]  BY <1>3 DEF Configure, Goto
  <2>3. Configurations[step][3] # "running"  BY <2>1 DEF Configurations
  <2>. QED  BY <1>3, <2>1, <2>2, <2>3 DEF Configure
<1>4. CASE TestController  BY <1>4 DEF TestController, Goto, INIT_RETURNS, Unchanged
<1>5. CASE TestPort
  <2>1. step \in {"test_first", "test_second"}  BY <1>5 DEF TestPort, Tests
  <2>2. step' \in {INIT_RETURNS, Tests[step][3]}  BY <1>5 DEF TestPort, Goto
  <2>3. Tests[step][3] # "running" /\ INIT_RETURNS # "running"  BY <2>1 DEF Tests, INIT_RETURNS
  <2>. QED  BY <1>5, <2>1, <2>2, <2>3 DEF TestPort, Unchanged
<1>6. CASE ps2_write_device_data_wait_ack
  <2>1. step \in {"disable_scanning", "identify", "set_default", "set_rate", "rate_value",
                "enable_scanning", "get_id", "status_req"}
    BY <1>6 DEF ps2_write_device_data_wait_ack, Commands
  <2>2. step' \in {step, Commands[step][2], Commands[step][3]}
    <3>1. PICK o \in Attempt(hw, Commands[step][1]) :
            step' = CASE Again(o) -> step
                    [] ~Again(o) /\ o.ok /\ o.byte = ACK -> Commands[step][2]
                    [] OTHER -> Commands[step][3]
      BY <1>6 DEF ps2_write_device_data_wait_ack, Goto
    <3>. QED  BY <3>1
  <2>3. Commands[step][2] # "running" /\ Commands[step][3] # "running"  BY <2>1 DEF Commands
  <2>. QED  BY <1>6, <2>1, <2>2, <2>3 DEF ps2_write_device_data_wait_ack, Unchanged
<1>7. CASE DeviceNotReady
  <2>1. step \in {"disable_scanning", "identify", "set_default", "set_rate", "rate_value",
                "enable_scanning", "get_id", "status_req"}
    BY <1>7 DEF DeviceNotReady, Commands
  <2>. QED  BY <1>7, <2>1 DEF DeviceNotReady, Goto, Unchanged
<1>8. CASE ReadByte
  <2>1. step \in {"byte0", "byte1", "id", "status", "res", "rate"}  BY <1>8 DEF ReadByte, Reads
  <2>2. step' \in {Reads[step][1], Reads[step][2]}  BY <1>8 DEF ReadByte, Goto
  <2>3. Reads[step][1] # "running" /\ Reads[step][2] # "running"  BY <2>1 DEF Reads
  <2>. QED  BY <1>8, <2>1, <2>2, <2>3 DEF ReadByte, Unchanged
<1>9. CASE Identified  BY <1>9 DEF Identified, Goto
<1>10. CASE MaskIrq  BY <1>10 DEF MaskIrq, Goto, Unchanged
<1>11. CASE CheckState  BY <1>11 DEF CheckState, Goto, Unchanged
<1>. QED  BY <1>1, <1>2, <1>3, <1>4, <1>5, <1>6, <1>7, <1>8, <1>9, <1>10, <1>11

\* Every step keeps the invariant.
LEMMA TrackNext ==
  ASSUME hw \in Hardware, TrackInv, [Ps2Next]_ps2Vars
  PROVE  TrackInv'
<1>1. CASE UNCHANGED ps2Vars  BY <1>1, TrackStill
<1>2. CASE Move  BY <1>2, TrackMove
<1>3. CASE ps2_mouse_interrupt_handler  BY <1>3, TrackHandler
<1>4. CASE UnmaskIrq  BY <1>4, TrackUnmask
<1>5. CASE \/ ControllerCommand \/ Flush \/ Configure \/ TestController \/ TestPort
           \/ ps2_write_device_data_wait_ack \/ DeviceNotReady \/ ReadByte \/ Identified
           \/ MaskIrq \/ CheckState
  <2>1. step # "running" /\ step' # "running" /\ Untouched  BY <1>5, SetupLabels
  <2>. QED  BY <2>1, TrackSetup
<1>. QED  BY <1>1, <1>2, <1>3, <1>4, <1>5 DEF Ps2Next, Driver, Rest

\* Without bytes under way fewer than three are left, so nothing is pending.
LEMMA TrackPosition ==
  ASSUME hw \in Hardware, TrackInv
  PROVE  PositionTracks
<1> SUFFICES ASSUME step = "running", ~stray, hw.out = <<>>
             PROVE  mpacket = <<>> /\ position = moved
  BY DEF PositionTracks
<1>1. PICK ds, at : PendingMoves(mpacket \o hw.out, ds, at, position, moved)  BY DEF TrackInv
<1>2. mpacket \in Seq(Int) /\ Len(mpacket) <= 2  BY DEF TrackInv
<1>3. mpacket \o hw.out = mpacket  BY <1>2
<1>4. /\ Len(mpacket) = 3 * Len(ds) /\ Len(ds) \in Nat /\ Len(at) = Len(ds) + 1
      /\ at[1] = position /\ at[Len(at)] = moved
  BY <1>1, <1>3 DEF PendingMoves
<1> DEFINE n == Len(ds)
           k == Len(mpacket)
<1>5. k = 3 * n /\ n \in Nat /\ k <= 2 /\ k \in Nat  BY <1>2, <1>4
<1> HIDE DEF n, k
<1>6. n = 0 /\ k = 0  BY <1>5
<1>. QED  BY <1>2, <1>4, <1>6 DEF n, k

\* Unless bytes nobody asked for were in the way when the handler was installed, the position
\* is the sum of the movements that the mouse has sent.
THEOREM PositionCorrect == Ps2Spec => []PositionTracks
<1>1. Ps2Init => SetupInv /\ TrackInv  BY SetupInit, TrackInit
<1>2. SetupInv /\ TrackInv /\ [Ps2Next]_ps2Vars => SetupInv' /\ TrackInv'
  BY SetupNext, TrackNext DEF SetupInv
<1>3. SetupInv /\ TrackInv => PositionTracks  BY TrackPosition DEF SetupInv
<1>. QED  BY <1>1, <1>2, <1>3, PTL DEF Ps2Spec
=============================================================================

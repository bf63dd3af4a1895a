----------------------------- MODULE Interrupts -----------------------------
(* Hardware interrupts: the two 8259 controllers as 8259_pic.c programs them, the
   gates and masks that kernel_main sets up, the handlers of timer, mouse and spurious
   interrupts, the tick count, the yield requests made from it (keventmanager_invoke)
   and the delays measured with it (cm_delay).  Handlers run behind interrupt gates,
   so that they do not nest; devices raise requests between any two of their steps. *)
EXTENDS Integers, FiniteSetsExt

CONSTANTS
  WORD,         \* unsigned integers are counted modulo WORD (2^32)
  TICK_US,      \* CONFIG_TICK_PERIOD_MICROSEC
  PROCESS_US,   \* CONFIG_PROCESS_PERIOD_US
  MS_US,        \* microseconds in a millisecond
  Delays,       \* arguments of cm_delay
  MaxGlitches   \* how often a request disappears while the CPU takes it

ASSUME UnitsAssumption == /\ {WORD, TICK_US, PROCESS_US, MS_US} \subseteq Nat \ {0}
                          /\ PROCESS_US % TICK_US = 0 /\ Delays \subseteq Nat

VARIABLES
  boot,      \* how many of the boot steps are done
  idt,       \* the IRQs whose gate is set
  mask, irr, isr,    \* the controllers' registers, as sets of IRQs
  cpu,       \* what runs: a handler with the step it is at, or "boot", "process", "syscall"
  from,      \* what a handler has interrupted
  tick_count,
  since,     \* ticks since the running process was last asked to yield
  sleeper,   \* a thread in cm_delay
  glitches

vars == <<boot, idt, mask, irr, isr, cpu, from, tick_count, since, sleeper, glitches>>

TIMER == 0
CASCADE == 2
MOUSE == 12
Lines == {TIMER, 1, CASCADE, 7, MOUSE, 15}
Master == {l \in Lines : l < 8}
Slave == Lines \ Master
----------------------------------------------------------------------------
(* The controllers. *)

Blocked(chip, l) == \E i \in isr \cap chip : i <= l
Ready(chip) == {l \in (irr \cap chip) \ mask : ~Blocked(chip, l)}
Pending == (Ready(Master) \ {CASCADE})
           \cup IF Ready(Slave) # {} /\ CASCADE \notin mask /\ ~Blocked(Master, CASCADE)
                THEN {CASCADE} ELSE {}

\* A non-specific end of interrupt: the request of the highest priority in service.
Eoi(service, chip) == service \ {l \in service \cap chip : \A i \in service \cap chip : l <= i}

pic_send_eoi(irq, service) ==
  LET s == IF irq >= 8 THEN Eoi(service, Slave) ELSE service IN Eoi(s, Master)

\* ICW1 forgets requests and interrupts in service, OCW1 masks all but the cascade.
Mut_pic_init == irr' = {} /\ isr' = {} /\ mask' = mask
pic_init ==
  /\ irr' = {} /\ isr' = {} /\ mask' = Lines \ {CASCADE}

pic_enable_disable_irq(irq, enable) == mask' = IF enable THEN mask \ {irq} ELSE mask \cup {irq}

\* Gates: kidt_init clears the table, kidt_edit makes one present.
kidt_init == idt' = {}
kidt_edit(lines) == idt' = idt \cup lines
----------------------------------------------------------------------------
Init ==
  /\ boot = 0 /\ idt = Lines
  /\ mask \in SUBSET Lines /\ irr \in SUBSET {TIMER, 1, MOUSE} /\ isr = {}
  /\ cpu = "boot" /\ from = "boot"
  /\ tick_count = 0 /\ since = 0 /\ glitches = 0
  /\ sleeper = [state |-> "awake", ms |-> 0, start |-> 0, end |-> 0, elapsed |-> 0]

\* kernel_main: controllers and gates, the timer, interrupts on; then ps2_mouse_init:
\* the mouse masked, its gate, the mouse unmasked; then the first process.
ENABLE_INTERRUPTS == 3
BOOTED == 7

BootStep ==
  /\ cpu = "boot"
  /\ boot' = boot + 1
  /\ \/ boot = 0 /\ kidt_init /\ pic_init /\ UNCHANGED cpu
     \/ boot = 1 /\ kidt_edit({TIMER, 7, 15}) /\ UNCHANGED <<mask, irr, isr, cpu>>
     \/ boot = 2 /\ pic_enable_disable_irq(TIMER, TRUE) /\ UNCHANGED <<idt, irr, isr, cpu>>
     \/ boot = ENABLE_INTERRUPTS /\ UNCHANGED <<idt, mask, irr, isr, cpu>>
     \/ boot = 4 /\ pic_enable_disable_irq(MOUSE, FALSE) /\ UNCHANGED <<idt, irr, isr, cpu>>
     \/ boot = 5 /\ kidt_edit({MOUSE}) /\ UNCHANGED <<mask, irr, isr, cpu>>
     \/ boot = 6 /\ pic_enable_disable_irq(MOUSE, TRUE) /\ cpu' = "process" /\ UNCHANGED <<idt, irr, isr>>
  /\ UNCHANGED <<from, tick_count, since, sleeper, glitches>>

\* A device raises its request; while one is waiting another is lost.
Request(l) ==
  /\ l \in {TIMER, 1, MOUSE} \ irr
  /\ irr' = irr \cup {l}
  /\ UNCHANGED <<boot, idt, mask, isr, cpu, from, tick_count, since, sleeper, glitches>>

InterruptsOn == cpu = "process" \/ (cpu = "boot" /\ boot > ENABLE_INTERRUPTS)

Handler(l) == CASE l = TIMER -> "timer" [] l = MOUSE -> "mouse" [] l = 7 -> "irq_7" [] l = 15 -> "irq_15"

\* The CPU acknowledges the request of the highest priority: line is the master's,
\* taken the one whose gate is used.
Enter(taken) == cpu' = (IF taken \in idt THEN Handler(taken) ELSE "fault") /\ from' = cpu
Line == Min(Pending)
Source(line) == IF line = CASCADE THEN Min(Ready(Slave)) ELSE line

Accept ==
  /\ InterruptsOn /\ Pending # {}
  /\ isr' = isr \cup {Line, Source(Line)}
  /\ irr' = irr \ {Source(Line)}
  /\ Enter(Source(Line))
  /\ UNCHANGED <<boot, idt, mask, tick_count, since, sleeper, glitches>>

\* The request is gone when it is acknowledged: the controller answers with line 7 of
\* the chip, and only the master notes that its slave is served.
Spurious ==
  /\ InterruptsOn /\ Pending # {} /\ glitches < MaxGlitches
  /\ irr' = irr \ {Source(Line)}
  /\ isr' = isr \cup (IF Line = CASCADE THEN {CASCADE} ELSE {})
  /\ Enter(IF Line = CASCADE THEN 15 ELSE 7)
  /\ glitches' = glitches + 1
  /\ UNCHANGED <<boot, idt, mask, tick_count, since, sleeper>>
----------------------------------------------------------------------------
Return == cpu' = from /\ UNCHANGED from

\* The running process gets a yield request when a period is over.
Mut_Due(t) == (t * TICK_US) % PROCESS_US = 2 * TICK_US
Due(t) == (t * TICK_US) % PROCESS_US = 0
keventmanager_invoke(t) ==
  since' = IF from = "boot" \/ Due(t) THEN 0 ELSE since + 1

timer_interrupt_handler ==
  /\ cpu = "timer"
  /\ tick_count' = (tick_count + 1) % WORD
  /\ keventmanager_invoke(tick_count')
  /\ sleeper' = [sleeper EXCEPT !.elapsed = Min({@ + 1, WORD})]
  /\ cpu' = "timer_eoi"
  /\ UNCHANGED <<boot, idt, mask, irr, isr, from, glitches>>

\* Handlers end with pic_send_eoi and the return from the interrupt.
End(irq) ==
  /\ isr' = pic_send_eoi(irq, isr)
  /\ Return
  /\ UNCHANGED <<boot, idt, mask, irr, tick_count, since, sleeper, glitches>>

Mut_timer_interrupt_end ==
  /\ cpu = "timer_eoi" /\ Return
  /\ UNCHANGED <<boot, idt, mask, irr, isr, tick_count, since, sleeper, glitches>>
timer_interrupt_end == cpu = "timer_eoi" /\ End(TIMER)
mouse_interrupt_end == cpu = "mouse" /\ End(MOUSE)

\* What a spurious interrupt does to the controllers.
Mut_spurious_irq_eoi(irq) == isr
spurious_irq_eoi(irq) == IF irq = 15 THEN pic_send_eoi(7, isr) ELSE isr

irq_7_handler ==
  /\ cpu = "irq_7"
  /\ isr' = IF 7 \notin isr THEN spurious_irq_eoi(7) ELSE pic_send_eoi(7, isr)
  /\ Return
  /\ UNCHANGED <<boot, idt, mask, irr, tick_count, since, sleeper, glitches>>

\* The code tests bit 15 of the slave's eight bits, which is never set.
irq_15_handler ==
  /\ cpu = "irq_15"
  /\ isr' = spurious_irq_eoi(15)
  /\ Return
  /\ UNCHANGED <<boot, idt, mask, irr, tick_count, since, sleeper, glitches>>
----------------------------------------------------------------------------
\* A process enters the kernel, which runs without interrupts, and comes back; when
\* it yielded, another process runs, whose count starts.
Syscall ==
  /\ cpu = "process" /\ cpu' = "syscall"
  /\ UNCHANGED <<boot, idt, mask, irr, isr, from, tick_count, since, sleeper, glitches>>

SyscallReturns ==
  /\ cpu = "syscall" /\ cpu' = "process"
  /\ UNCHANGED <<boot, idt, mask, irr, isr, from, tick_count, since, sleeper, glitches>>

\* cm_delay: the deadline, and the loop that compares the tick count with it.
TicksOf(ms) == ((ms * MS_US) % WORD) \div TICK_US

cm_delay(ms) ==
  /\ cpu = "process" /\ sleeper.state = "awake"
  /\ sleeper' = [state |-> "asleep", ms |-> ms, start |-> tick_count,
                 end |-> (tick_count + TicksOf(ms)) % WORD, elapsed |-> 0]
  /\ UNCHANGED <<boot, idt, mask, irr, isr, cpu, from, tick_count, since, glitches>>

Mut_Over(t, end) == t + 1 >= end
Over(t, end) == t >= end

DelayEnds ==
  /\ cpu = "process" /\ sleeper.state = "asleep" /\ Over(tick_count, sleeper.end)
  /\ sleeper' = [sleeper EXCEPT !.state = "woke"]
  /\ UNCHANGED <<boot, idt, mask, irr, isr, cpu, from, tick_count, since, glitches>>

Resumes ==
  /\ sleeper.state = "woke"
  /\ sleeper' = [state |-> "awake", ms |-> 0, start |-> 0, end |-> 0, elapsed |-> 0]
  /\ UNCHANGED <<boot, idt, mask, irr, isr, cpu, from, tick_count, since, glitches>>

Running == \/ BootStep \/ timer_interrupt_handler \/ timer_interrupt_end
           \/ mouse_interrupt_end \/ irq_7_handler \/ irq_15_handler \/ SyscallReturns
Next == \/ Running \/ Accept \/ Spurious \/ Syscall
        \/ \E l \in Lines : Request(l)
        \/ \E ms \in Delays : cm_delay(ms)
        \/ DelayEnds \/ Resumes

\* Handlers and system calls end, the timer goes on, and an interrupt that waits is
\* taken: the CPU looks for one before every instruction of a process.
Fairness == /\ WF_vars(Running)
            /\ WF_vars(Request(TIMER))
            /\ SF_vars(Accept)
Spec == Init /\ [][Next]_vars /\ Fairness
----------------------------------------------------------------------------
(* While no handler runs, the controllers have no interrupt in service: every handler,
   those of spurious interrupts included, ends what was begun for it and nothing else,
   so that no line stays blocked. *)
NothingInService == cpu \in {"boot", "process", "syscall"} /\ boot > 0 => isr = {}

(* No interrupt arrives for which no gate is set: lines are unmasked after their gates
   are set, and whatever the BIOS had unmasked is masked before interrupts are on. *)
GatesReady == cpu # "fault"

(* A process is asked to yield once in every period, also where the tick count wraps
   around within one. *)
YieldRequested == since * TICK_US < PROCESS_US

(* The tick count never stops, whatever spurious interrupts and requests of the mouse
   do to the controllers. *)
TicksGoOn == []<>(tick_count = 0) /\ []<>(tick_count # 0)

(* cm_delay lasts at least as many ticks as were asked for, when neither the number of
   microseconds nor the deadline exceeds the largest unsigned integer. *)
DelayKept ==
  sleeper.state = "woke" /\ sleeper.ms * MS_US < WORD /\ sleeper.start + TicksOf(sleeper.ms) < WORD
    => sleeper.elapsed * TICK_US >= sleeper.ms * MS_US - (TICK_US - 1)
============================================================================

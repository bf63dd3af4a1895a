-------------------------------- MODULE Ps2 --------------------------------
(* The 8042 PS/2 controller driver (8042_ps2.c) and the mouse driver
   (ps2mouse.c): ps2_init and ps2_mouse_init as kernel_main calls them, and the
   mouse's interrupt handler afterwards.  The driver polls, so every wait may end
   in a timeout, with the answer still to come.  The controller and the devices
   are external: they answer in order, late, with a request to resend or not at
   all, at most MaxFaults times.  Bytes are numbers 0..255. *)
EXTENDS Integers, Sequences

CONSTANTS
  Moves,      \* movements of the mouse: <<dx, dy>>
  MaxMoves,   \* how often it moves
  MaxFaults   \* how often a wait times out, or a byte to the mouse is lost or garbled

ASSUME MouseAssumption == Moves \subseteq Int \X Int /\ MaxMoves \in Nat /\ MaxFaults \in Nat

VARIABLES
  step,       \* the step of ps2_init and ps2_mouse_init that is next, "running" or "panic"
  mem,        \* their local variables
  retrycount,
  port_available,
  hw,         \* controller and mouse
  mpacket,    \* the bytes of mpacket received so far; its length is byte_index
  position,   \* mouse_position: <<x, y>>
  sent,       \* how often the mouse moved
  moved,      \* where to, since it was set up (history)
  stray,      \* bytes that nobody waited for were there when it was set up (history)
  lookalike   \* a byte like the sample rate came before, for another reason (history)

ps2Vars == <<step, mem, retrycount, port_available, hw, mpacket, position, sent, moved, stray, lookalike>>

ACK == 250
RESEND == 254
CONFIG_PS2_MOUSE_SAMPLE_RATE == 40
DEFAULT_RATE == 100

\* Bytes as sets of bits, and back.
Weight == <<1, 2, 4, 8, 16, 32, 64, 128>>
Bits(b) == {i \in 0..7 : (b \div Weight[i + 1]) % 2 = 1}
Byte(S) == LET v(i) == IF i \in S THEN Weight[i + 1] ELSE 0
           IN v(0) + v(1) + v(2) + v(3) + v(4) + v(5) + v(6) + v(7)

\* Bits of the configuration byte.
INT1 == 0
INT2 == 1
CLOCK1_OFF == 4
CLOCK2_OFF == 5
TRANSLATION == 6
UsedBits == {INT1, INT2, CLOCK1_OFF, CLOCK2_OFF, TRANSLATION}
----------------------------------------------------------------------------
(* The hardware.  out holds the bytes on their way to the driver, arg says that the
   mouse waits for the argument of a command, expect where the next data byte goes. *)

Put(h, bytes) == [h EXCEPT !.out = @ \o bytes]
Fault(h) == [h EXCEPT !.faults = @ - 1]

\* What the mouse does with a byte.
ToMouse(h, b) ==
  CASE h.arg -> Put([h EXCEPT !.rate = b, !.arg = FALSE], <<ACK>>)
    [] ~h.arg /\ b = 245 -> Put([h EXCEPT !.reporting = FALSE], <<ACK>>)
    [] ~h.arg /\ b = 246 -> Put([h EXCEPT !.reporting = FALSE, !.rate = DEFAULT_RATE], <<ACK>>)
    [] ~h.arg /\ b = 243 -> Put([h EXCEPT !.arg = TRUE], <<ACK>>)
    [] ~h.arg /\ b = 244 -> Put([h EXCEPT !.reporting = TRUE], <<ACK>>)
    [] ~h.arg /\ b = 242 -> Put(h, <<ACK, 0>>)
    [] ~h.arg /\ b = 233 -> Put(h, <<ACK, IF h.reporting THEN 32 ELSE 0, 2, h.rate>>)
    [] OTHER -> Put(h, <<RESEND>>)

\* A byte for the mouse may also be garbled or lost.
MouseBytes(h, b) ==
  IF CLOCK2_OFF \in h.config \/ 2 \notin h.ports THEN {h}
  ELSE {ToMouse(h, b)} \cup IF h.faults > 0 THEN {Put(Fault(h), <<RESEND>>), Fault(h)} ELSE {}

\* A byte written to the data port; the keyboard acknowledges whatever it gets.
DataPort(h, b) ==
  LET g == [h EXCEPT !.expect = "keyboard"]
  IN CASE h.expect = "config" -> {[g EXCEPT !.config = Bits(b)]}
       [] h.expect = "mouse" -> MouseBytes(g, b)
       [] h.expect = "keyboard" ->
            IF CLOCK1_OFF \in h.config \/ 1 \notin h.ports THEN {g} ELSE {Put(g, <<ACK>>)}

\* A command written to the command port.
CommandPort(h, b) ==
  CASE b = 173 -> {[h EXCEPT !.config = @ \cup {CLOCK1_OFF}]}
    [] b = 167 -> {[h EXCEPT !.config = @ \cup {CLOCK2_OFF}]}
    [] b = 174 -> {[h EXCEPT !.config = @ \ {CLOCK1_OFF}]}
    [] b = 168 -> {[h EXCEPT !.config = @ \ {CLOCK2_OFF}]}
    [] b = 32 -> {Put(h, <<Byte(h.config)>>)}
    [] b = 96 -> {[h EXCEPT !.expect = "config"]}
    [] b = 212 -> {[h EXCEPT !.expect = "mouse"]}
    [] b = 170 -> {Put(h, <<85>>)}
    [] b = 171 -> {Put(h, <<IF 1 \in h.ports THEN 0 ELSE 1>>)}
    [] b = 169 -> {Put(h, <<IF 2 \in h.ports THEN 0 ELSE 1>>)}

\* The packet that the mouse sends for a movement, and the range of its nine bits.
Large(d) == d \notin -256..255
PacketOf(d) == <<Byte({3} \cup {i \in 4..5 : d[i - 3] < 0} \cup {i \in 6..7 : Large(d[i - 5])}),
                 d[1] % 256, d[2] % 256>>
----------------------------------------------------------------------------
(* Polling.  An outcome says whether the call succeeded, the hardware after it and
   the byte that was read. *)

Outcome(ok, h, b) == [ok |-> ok, hw |-> h, byte |-> b]
UNREAD == -1

\* The rest of a function that returns at the first failure.
Then(outcomes, Rest(_)) == UNION {IF o.ok THEN Rest(o) ELSE {o} : o \in outcomes}

ps2_wait_write(h, port, b) ==
  {Outcome(TRUE, g, UNREAD) : g \in IF port = "command" THEN CommandPort(h, b) ELSE DataPort(h, b)}
  \cup IF h.faults > 0 THEN {Outcome(FALSE, Fault(h), UNREAD)} ELSE {}

ps2_wait_read(h) ==
  IF h.out = <<>> THEN {Outcome(FALSE, h, UNREAD)}
  ELSE {Outcome(TRUE, [h EXCEPT !.out = Tail(@)], Head(h.out))}
       \cup IF h.faults > 0 THEN {Outcome(FALSE, Fault(h), UNREAD)} ELSE {}

\* Timeouts of the writes are not noticed.
ps2_write_device_data_no_wait(h, b) ==
  UNION {{w.hw : w \in ps2_wait_write(d4.hw, "data", b)} :
           d4 \in ps2_wait_write(h, "command", 212)}

ps2_configuration(h, enabled, disabled) ==
  Then(ps2_wait_write(h, "command", 32), LAMBDA w :
    Then(ps2_wait_read(w.hw), LAMBDA r :
      {Outcome(o.ok, o.hw, r.byte) : o \in
        Then(ps2_wait_write(r.hw, "command", 96), LAMBDA c :
          ps2_wait_write(c.hw, "data", Byte((Bits(r.byte) \ disabled) \cup enabled)))}))
----------------------------------------------------------------------------
Ps2Init ==
  /\ step = "disable_first"
  /\ mem = [config |-> UNREAD, byte0 |-> 0, byte1 |-> 0, status |-> 0, rate |-> 0, id |-> 0, res |-> 0]
  /\ retrycount = 0
  /\ port_available = {}
  /\ hw \in [out : {<<>>} \cup {<<PacketOf(d)[3]>> : d \in Moves}, config : {{INT1, TRANSLATION}},
             expect : {"keyboard"}, ports : SUBSET {1, 2}, reporting : BOOLEAN,
             rate : {DEFAULT_RATE}, arg : {FALSE}, faults : {MaxFaults}]
  /\ mpacket = <<>> /\ position = <<0, 0>>
  /\ sent = 0 /\ moved = <<0, 0>> /\ stray = FALSE
  /\ lookalike = (hw.out = <<CONFIG_PS2_MOUSE_SAMPLE_RATE>>)

Goto(l) == step' = l
Untouched == UNCHANGED <<mpacket, position, sent, moved, stray>>
Unchanged == Untouched /\ UNCHANGED lookalike

\* A byte that is not the mouse's own report of its sample rate.
Other(b) == lookalike' = (lookalike \/ b = CONFIG_PS2_MOUSE_SAMPLE_RATE)

\* kernel_main ignores what ps2_init returns and goes on with ps2_mouse_init.
INIT_RETURNS == "mask_irq"

\* ps2_init steps 1 and 6: a command written to the controller, the next step, and
\* the step after a timeout.
Writes == [disable_first |-> <<173, "disable_second", INIT_RETURNS>>,
           disable_second |-> <<167, "flush", INIT_RETURNS>>,
           enable_first |-> <<174, "enable_second", "enable_second">>,
           enable_second |-> <<168, INIT_RETURNS, INIT_RETURNS>>]

ControllerCommand ==
  /\ step \in DOMAIN Writes
  /\ \E o \in ps2_wait_write(hw, "command", Writes[step][1]) :
       /\ hw' = o.hw
       /\ Goto(IF o.ok THEN Writes[step][2] ELSE Writes[step][3])
  /\ UNCHANGED <<mem, retrycount, port_available>> /\ Unchanged

\* ps2_init step 2: read until there is nothing to read.
Flush ==
  /\ step = "flush"
  /\ \E o \in ps2_wait_read(hw) : hw' = o.hw /\ Goto(IF o.ok THEN "flush" ELSE "configure")
  /\ UNCHANGED <<mem, retrycount, port_available>> /\ Unchanged

\* Calls of ps2_configuration whose failure is not noticed: the bits to set and to
\* clear, and the next step.
Quiet == {INT1, INT2, TRANSLATION}
Configurations == [configure |-> <<{}, Quiet, "test_controller">>,
                   quiet |-> <<{}, Quiet, "disable_scanning">>,
                   interrupts |-> <<{INT2}, {}, "unmask_irq">>]

Configure ==
  /\ step \in DOMAIN Configurations
  /\ \E o \in ps2_configuration(hw, Configurations[step][1], Configurations[step][2]) :
       /\ hw' = o.hw
       /\ mem' = IF step = "quiet" THEN [mem EXCEPT !.config = o.byte] ELSE mem
  /\ Goto(Configurations[step][3])
  /\ Other(Byte(hw.config))
  /\ UNCHANGED <<retrycount, port_available>> /\ Untouched

\* ps2_init step 4.
TestController ==
  /\ step = "test_controller"
  /\ \E w \in ps2_wait_write(hw, "command", 170) : \E r \in ps2_wait_read(w.hw) :
       /\ hw' = r.hw
       /\ Goto(IF r.ok /\ r.byte = 85 THEN "test_first" ELSE INIT_RETURNS)
  /\ UNCHANGED <<mem, retrycount, port_available>> /\ Unchanged

\* ps2_init step 5.
Tests == [test_first |-> <<171, 1, "test_second">>, test_second |-> <<169, 2, "enable_first">>]

TestPort ==
  /\ step \in DOMAIN Tests
  /\ \E w \in ps2_wait_write(hw, "command", Tests[step][1]) : \E r \in ps2_wait_read(w.hw) :
       /\ hw' = r.hw
       /\ port_available' = port_available \cup IF r.ok /\ r.byte = 0 THEN {Tests[step][2]} ELSE {}
       /\ Goto(IF Tests[step][3] = "enable_first" /\ port_available' = {} THEN INIT_RETURNS
               ELSE Tests[step][3])
  /\ UNCHANGED <<mem, retrycount>> /\ Unchanged

\* Commands that ps2_identify_device, ps2_mouse_init and get_mouse_state send, the
\* next step, and the step after a failure ("panic": kernel_main panics when
\* ps2_mouse_init fails; get_mouse_state does not look at the results).
Commands == [disable_scanning |-> <<245, "identify", "panic">>,
             identify |-> <<242, "byte0", "panic">>,
             set_default |-> <<246, "set_rate", "panic">>,
             set_rate |-> <<243, "rate_value", "panic">>,
             rate_value |-> <<CONFIG_PS2_MOUSE_SAMPLE_RATE, "enable_scanning", "panic">>,
             enable_scanning |-> <<244, "get_id", "panic">>,
             get_id |-> <<242, "id", "id">>,
             status_req |-> <<233, "status", "status">>]

\* One turn of the loop of ps2_write_device_data_wait_ack.
Attempt(h, cmd) == UNION {ps2_wait_read(g) : g \in ps2_write_device_data_no_wait(h, cmd)}

\* The condition of that loop.
Mut_Again(o) == o.ok /\ o.byte = RESEND
Again(o) == o.ok /\ o.byte = RESEND /\ retrycount < 3

ps2_write_device_data_wait_ack ==
  /\ step \in DOMAIN Commands
  /\ 2 \in port_available
  /\ \E o \in Attempt(hw, Commands[step][1]) :
       /\ hw' = o.hw
       /\ retrycount' = IF Again(o) THEN (retrycount + 1) % 256 ELSE 0
       /\ Goto(CASE Again(o) -> step
                 [] ~Again(o) /\ o.ok /\ o.byte = ACK -> Commands[step][2]
                 [] OTHER -> Commands[step][3])
  /\ UNCHANGED <<mem, port_available>> /\ Unchanged

\* The assertion of ps2_write_device_data_no_wait.
DeviceNotReady ==
  /\ step \in DOMAIN Commands
  /\ 2 \notin port_available
  /\ Goto("panic")
  /\ UNCHANGED <<hw, mem, retrycount, port_available>> /\ Unchanged

\* Bytes that are read into a variable, the next step, and the step after a timeout.
Reads == [byte0 |-> <<"byte1", "panic">>, byte1 |-> <<"restore", "restore">>,
          id |-> <<"status_req", "status_req">>, status |-> <<"res", "res">>,
          res |-> <<"rate", "rate">>, rate |-> <<"check", "check">>]

ReadByte ==
  /\ step \in DOMAIN Reads
  /\ \E o \in ps2_wait_read(hw) :
       /\ hw' = o.hw
       /\ mem' = IF o.ok THEN [mem EXCEPT ![step] = o.byte] ELSE mem
       /\ Goto(Reads[step][IF o.ok THEN 1 ELSE 2])
  /\ UNCHANGED <<retrycount, port_available>> /\ Unchanged

\* The end of ps2_identify_device, where config is uninitialized if it could not be
\* read, and the rest of ismouse.
Identified ==
  /\ step = "restore"
  /\ \E config \in (IF mem.config = UNREAD THEN {Byte(S) : S \in SUBSET UsedBits} ELSE {mem.config}) :
       \E o \in ps2_configuration(hw, Bits(config), {}) : hw' = o.hw
  /\ Goto(IF mem.byte1 * 256 + mem.byte0 \in {0, 768, 1024} THEN "set_default" ELSE "panic")
  /\ Other(Byte(hw.config))
  /\ UNCHANGED <<mem, retrycount, port_available>> /\ Untouched

\* ps2_mouse_init begins by masking the mouse's interrupt.
MaskIrq ==
  /\ step = "mask_irq" /\ Goto("quiet")
  /\ UNCHANGED <<hw, mem, retrycount, port_available>> /\ Unchanged

\* ps2_mouse_init compares the mouse's state with what it asked for.
Mut_StatusOK == mem.rate = CONFIG_PS2_MOUSE_SAMPLE_RATE
StatusOK == /\ mem.rate = CONFIG_PS2_MOUSE_SAMPLE_RATE
            /\ 5 \in Bits(mem.status) /\ 6 \notin Bits(mem.status)

CheckState ==
  /\ step = "check"
  /\ Goto(IF StatusOK THEN "interrupts" ELSE "panic")
  /\ UNCHANGED <<hw, mem, retrycount, port_available>> /\ Unchanged

\* The end of ps2_mouse_init: handler and interrupt mask.
UnmaskIrq ==
  /\ step = "unmask_irq" /\ Goto("running")
  /\ stray' = (hw.out # <<>>)
  /\ UNCHANGED <<hw, mem, retrycount, port_available, mpacket, position, sent, moved, lookalike>>
----------------------------------------------------------------------------
\* x += b1 - ((b0 << 4) & 0x100), and the same for y.
Mut_Delta(b, negative) == b
Delta(b, negative) == b - (IF negative THEN 256 ELSE 0)
Movement(p) == <<Delta(p[2], 4 \in Bits(p[1])), Delta(p[3], 5 \in Bits(p[1]))>>
Overflow(p) == {6, 7} \cap Bits(p[1]) # {}
Plus(a, b) == <<a[1] + b[1], a[2] + b[2]>>

\* The mouse moves and sends a packet.
Move ==
  /\ hw.reporting /\ 2 \in hw.ports /\ CLOCK2_OFF \notin hw.config
  /\ sent < MaxMoves
  /\ \E d \in Moves :
       /\ hw' = Put(hw, PacketOf(d))
       /\ moved' = IF step = "running" /\ ~Large(d[1]) /\ ~Large(d[2]) THEN Plus(moved, d) ELSE moved
       /\ IF step = "running" THEN UNCHANGED lookalike ELSE Other(PacketOf(d)[3])
  /\ sent' = sent + 1
  /\ UNCHANGED <<step, mem, retrycount, port_available, mpacket, position, stray>>

\* Buttons are left out.
ps2_mouse_interrupt_handler ==
  /\ step = "running" /\ INT2 \in hw.config /\ hw.out # <<>>
  /\ hw' = [hw EXCEPT !.out = Tail(@)]
  /\ LET p == Append(mpacket, Head(hw.out))
     IN /\ mpacket' = IF Len(p) = 3 THEN <<>> ELSE p
        /\ position' = IF Len(p) = 3 /\ ~Overflow(p) THEN Plus(position, Movement(p)) ELSE position
  /\ UNCHANGED <<step, mem, retrycount, port_available, sent, moved, stray, lookalike>>

\* The kernel goes on, or has panicked, and the mouse rests.
Rest == step \in {"running", "panic"} /\ UNCHANGED ps2Vars

Driver == \/ ControllerCommand \/ Flush \/ Configure \/ TestController \/ TestPort
          \/ ps2_write_device_data_wait_ack \/ DeviceNotReady \/ ReadByte \/ Identified
          \/ MaskIrq \/ CheckState \/ UnmaskIrq \/ ps2_mouse_interrupt_handler
Ps2Next == Driver \/ Move \/ Rest

Ps2Spec == Ps2Init /\ [][Ps2Next]_ps2Vars /\ WF_ps2Vars(Driver)
----------------------------------------------------------------------------
(* When ps2_mouse_init reports success and no bytes that nobody waited for are under
   way, the mouse really reports its movements, at the rate that was asked for, and its
   port is switched on, although commands may have been lost, or acknowledged by the
   keyboard, by a late answer to an earlier command or by a byte of a movement.  The one
   byte that may deceive it is one like the sample rate which ends a movement, or is the
   controller's configuration. *)
MouseReady ==
  step = "running" /\ ~stray /\ ~lookalike =>
    /\ hw.reporting /\ hw.rate = CONFIG_PS2_MOUSE_SAMPLE_RATE
    /\ CLOCK2_OFF \notin hw.config

(* Setting up the mouse ends, whatever the devices answer and however late: no
   command is repeated for ever, and the flush does not wait for a mouse that keeps
   sending. *)
SetupEnds == <>(step \in {"running", "panic"})

(* Unless bytes nobody asked for were in the way when the handler was installed, the
   position is the sum of the movements that the mouse has sent: the handler never
   loses its place in the packets and extends the signs correctly. *)
PositionTracks ==
  step = "running" /\ ~stray /\ hw.out = <<>> => mpacket = <<>> /\ position = moved
============================================================================

------------------------- MODULE ReceiveGate_proofs -------------------------
(***************************************************************************)
(* Proofs that the windows of the receive gate are whole and open in time, *)
(* for every scene, every length of the boot, every d_off_max and every    *)
(* way in which the scheduler splits the samples; in time only if the      *)
(* scene is one the constants of the code are made for (TimedScenes).      *)
(***************************************************************************)
EXTENDS ReceiveGate, TLAPS

States == {"ST_BOOTUP", "ST_TXOFF", "ST_TXON_MUTE", "ST_TXOFF_MUTE", "ST_COMMAND",
           "ST_WAIT", "ST_UNMUTE"}

Windows == [from : Nat, len : Nat, out : Nat]

GateTypeOK ==
    /\ scene \in Scenes
    /\ nread \in Nat
    /\ d_state \in States
    /\ d_counter \in Nat
    /\ gate_queue \in Seq(Tasks)
    /\ pending \in Seq(Tasks)
    /\ windows \in Seq(Windows)

Closed(w) == w.out = w.len

\* What the open window lacks is in d_counter, and it began w.out samples ago.
Open(w) == w.out + d_counter = w.len /\ nread = w.from - 1 + w.out

EarlierAreClosed == \A i \in 1 .. Len(windows) : i < Len(windows) => Closed(windows[i])

LastIsOpenOrClosed ==
    /\ d_state = "ST_UNMUTE" => Len(windows) > 0 /\ Open(windows[Len(windows)])
    /\ d_state # "ST_UNMUTE" /\ Len(windows) > 0 => Closed(windows[Len(windows)])

GateInv == GateTypeOK /\ EarlierAreClosed /\ LastIsOpenOrClosed

-----------------------------------------------------------------------------
\* The gate starts with no window and with the messages of its scene.
LEMMA GateStarts == Init => GateInv
  BY GateAssumption, ScenesAssumption
     DEF Init, GateInv, GateTypeOK, States, EarlierAreClosed, LastIsOpenOrClosed

\* What work passes is what it takes off the counter.
LEMMA PassesCounts ==
    ASSUME GateTypeOK, NEW n \in Chunks, Passes(n)
    PROVE  \E m \in 0 .. d_counter : nread' = nread + m /\ d_counter' = d_counter - m
  <1> DEFINE m == IF n < d_counter THEN n ELSE d_counter
  <1>1. n \in Nat
    BY GateAssumption
  <1>2. m \in Nat /\ m <= d_counter
    BY <1>1 DEF GateTypeOK
  <1>3. nread' = nread + m /\ d_counter' = d_counter - m
    BY DEF Passes, Consume
  <1> HIDE DEF m
  <1>4. m \in 0 .. d_counter
    BY <1>2 DEF GateTypeOK
  <1> QED
    BY <1>3, <1>4

\* A step that opens no window and neither enters nor leaves ST_UNMUTE.
LEMMA ElsewhereKeepsWindows ==
    ASSUME GateInv, GateTypeOK', UNCHANGED windows,
           d_state # "ST_UNMUTE", d_state' # "ST_UNMUTE"
    PROVE  GateInv'
  BY DEF GateInv, EarlierAreClosed, LastIsOpenOrClosed, Closed

\* A command closes no window and opens at most one behind the closed ones.
LEMMA CommandKeepsInv ==
    ASSUME GateInv, Command, UNCHANGED <<scene, pending>>
    PROVE  GateInv'
  <1> DEFINE task == Head(gate_queue)
  <1>1. GateTypeOK
    BY DEF GateInv
  <1>2. task \in Tasks /\ gate_queue' \in Seq(Tasks)
    BY <1>1 DEF Command, GateTypeOK
  <1>3. task.len \in Nat
    BY <1>2 DEF Tasks
  <1>4. decode_task(task) /\ d_state = "ST_COMMAND" /\ UNCHANGED nread
    BY DEF Command
  <1> HIDE DEF task
  <1>5. CASE task.cmd = "RXB_UNGATE"
    <2> DEFINE w == [from |-> nread + 1, len |-> task.len, out |-> 0]
    <2>1. /\ d_state' = "ST_UNMUTE" /\ d_counter' = task.len
          /\ windows' = Append(windows, w)
      BY <1>4, <1>5 DEF decode_task
    <2>2. w \in Windows
      BY <1>1, <1>3 DEF GateTypeOK, Windows
    <2>3. /\ w.out + task.len = w.len
          /\ nread = w.from - 1 + w.out
      BY <1>1, <1>3 DEF GateTypeOK
    <2> HIDE DEF w
    <2>4. /\ Len(windows') = Len(windows) + 1
          /\ windows'[Len(windows')] = w
          /\ \A i \in 1 .. Len(windows) : windows'[i] = windows[i]
      BY <1>1, <2>1, <2>2 DEF GateTypeOK
    <2>5. GateTypeOK'
      BY <1>1, <1>2, <1>3, <1>4, <2>1, <2>2 DEF GateTypeOK, States
    <2>6. \A i \in 1 .. Len(windows) : Closed(windows[i])
      BY <1>1, <1>4 DEF GateInv, GateTypeOK, EarlierAreClosed, LastIsOpenOrClosed
    <2>7. EarlierAreClosed'
      <3>1. \A i \in 1 .. Len(windows') : i < Len(windows') => i \in 1 .. Len(windows)
        BY <1>1, <2>4 DEF GateTypeOK
      <3> QED
        BY <2>4, <2>6, <3>1 DEF EarlierAreClosed, Closed
    <2>8. LastIsOpenOrClosed'
      <3>1. Len(windows') > 0
        BY <1>1, <2>4 DEF GateTypeOK
      <3> QED
        BY <1>4, <2>1, <2>3, <2>4, <3>1 DEF LastIsOpenOrClosed, Open
    <2> QED
      BY <2>5, <2>7, <2>8 DEF GateInv
  <1>6. CASE task.cmd # "RXB_UNGATE"
    <2>1. /\ d_state' \in {"ST_WAIT", "ST_TXOFF"} /\ UNCHANGED windows
          /\ d_counter' \in {task.len, d_counter}
      BY <1>4, <1>6 DEF decode_task
    <2>2. GateTypeOK'
      BY <1>1, <1>2, <1>3, <1>4, <2>1 DEF GateTypeOK, States
    <2> QED
      BY <1>4, <2>1, <2>2, ElsewhereKeepsWindows
  <1> QED
    BY <1>5, <1>6

\* An open window grows by what the counter loses, and is left when the
\* counter is zero.
LEMMA UnmuteKeepsInv ==
    ASSUME GateInv, Unmute, UNCHANGED <<scene, pending>>
    PROVE  GateInv'
  <1> DEFINE last == Len(windows)
  <1>1. GateTypeOK /\ EarlierAreClosed /\ LastIsOpenOrClosed
    BY DEF GateInv
  <1>2. d_state = "ST_UNMUTE" /\ UNCHANGED gate_queue
    BY DEF Unmute
  <1>3. Len(windows) > 0 /\ Open(windows[last])
    BY <1>1, <1>2 DEF LastIsOpenOrClosed
  <1>4. last \in 1 .. Len(windows) /\ windows[last] \in Windows
    BY <1>1, <1>3 DEF GateTypeOK
  <1>5. /\ windows[last].from \in Nat /\ windows[last].len \in Nat
        /\ windows[last].out \in Nat
    BY <1>4 DEF Windows
  <1>6. CASE d_counter > 0
    <2>1. PICK n \in Chunks : Passes(n)
      BY <1>6 DEF Unmute
    <2>2. /\ windows' = [windows EXCEPT ![last].out = @ + nread' - nread]
          /\ d_state' = d_state
      BY <1>6 DEF Unmute
    <2>3. PICK m \in 0 .. d_counter : nread' = nread + m /\ d_counter' = d_counter - m
      BY <1>1, <2>1, PassesCounts
    <2> DEFINE w == [windows[last] EXCEPT !.out = windows[last].out + m]
    <2>4. w \in Windows /\ windows' = [windows EXCEPT ![last] = w]
      <3>1. nread \in Nat /\ d_counter \in Nat
        BY <1>1 DEF GateTypeOK
      <3>2. windows[last].out + nread' - nread = windows[last].out + m
        BY <1>5, <2>3, <3>1
      <3>3. windows[last].out + m \in Nat
        BY <1>5, <3>1
      <3> QED
        BY <1>4, <2>2, <3>2, <3>3 DEF Windows
    <2>5. /\ w.out = windows[last].out + m
          /\ w.len = windows[last].len /\ w.from = windows[last].from
      BY <1>4 DEF Windows
    <2> HIDE DEF w
    <2>6. /\ windows' \in Seq(Windows) /\ Len(windows') = Len(windows)
          /\ windows'[last] = w
          /\ \A i \in 1 .. Len(windows) : i < last => windows'[i] = windows[i]
      BY <1>1, <1>4, <2>4 DEF GateTypeOK
    <2>7. GateTypeOK'
      BY <1>1, <1>2, <2>2, <2>3, <2>6 DEF GateTypeOK
    <2>8. EarlierAreClosed'
      BY <1>1, <2>6 DEF EarlierAreClosed, Closed
    <2>9. Open(windows[last])'
      <3> DEFINE from == windows[last].from
                 len == windows[last].len
                 out == windows[last].out
      <3>1. nread \in Nat /\ d_counter \in Nat
        BY <1>1 DEF GateTypeOK
      <3>2. from \in Nat /\ len \in Nat /\ out \in Nat
        BY <1>5
      <3>3. out + d_counter = len /\ nread = from - 1 + out
        BY <1>3 DEF Open
      <3>4. w.out = out + m /\ w.len = len /\ w.from = from
        BY <2>5
      <3> HIDE DEF from, len, out
      <3>5. (out + m) + d_counter' = len /\ nread' = from - 1 + (out + m)
        BY <2>3, <3>1, <3>2, <3>3
      <3> QED
        BY <2>6, <3>4, <3>5 DEF Open
    <2>10. LastIsOpenOrClosed'
      <3>1. Len(windows') > 0
        BY <1>3, <2>6
      <3> QED
        BY <1>2, <2>2, <2>9, <3>1 DEF LastIsOpenOrClosed
    <2> QED
      BY <2>7, <2>8, <2>10 DEF GateInv
  <1>7. CASE ~(d_counter > 0)
    <2>1. d_state' = "ST_COMMAND" /\ UNCHANGED <<nread, d_counter, windows>>
      BY <1>7 DEF Unmute
    <2>2. d_counter = 0
      BY <1>1, <1>7 DEF GateTypeOK
    <2>3. Closed(windows[last])
      BY <1>3, <1>5, <2>2 DEF Open, Closed
    <2>4. GateTypeOK'
      BY <1>1, <1>2, <2>1 DEF GateTypeOK, States
    <2> QED
      BY <1>1, <2>1, <2>3, <2>4
         DEF GateInv, EarlierAreClosed, LastIsOpenOrClosed, Closed
  <1> QED
    BY <1>6, <1>7

-----------------------------------------------------------------------------
\* Every step keeps the invariant: only Command and Unmute touch the windows.
LEMMA GateStep == GateInv /\ [Next]_vars => GateInv'
  <1> SUFFICES ASSUME GateInv, [Next]_vars
               PROVE  GateInv'
    OBVIOUS
  <1>1. GateTypeOK
    BY DEF GateInv
  <1>2. CASE MacQueues
    <2>1. Head(pending) \in Tasks /\ Tail(pending) \in Seq(Tasks)
      BY <1>1, <1>2 DEF MacQueues, GateTypeOK
    <2>2. GateTypeOK'
      BY <1>1, <1>2, <2>1 DEF MacQueues, GateTypeOK
    <2> QED
      BY <1>2, <2>2
         DEF MacQueues, GateInv, EarlierAreClosed, LastIsOpenOrClosed, Open, Closed
  <1>3. CASE general_work
    <2> USE DEF general_work
    <2>1. CASE Bootup
      <3>1. GateTypeOK' /\ UNCHANGED windows /\ d_state # "ST_UNMUTE" /\ d_state' # "ST_UNMUTE"
        BY <1>1, <1>3, <2>1 DEF Bootup, Consume, GateTypeOK, States
      <3> QED
        BY <3>1, ElsewhereKeepsWindows
    <2>2. CASE TxOff
      <3>1. GateTypeOK' /\ UNCHANGED windows /\ d_state # "ST_UNMUTE" /\ d_state' # "ST_UNMUTE"
        BY <1>1, <1>3, <2>2 DEF TxOff, Consume, GateTypeOK, States
      <3> QED
        BY <3>1, ElsewhereKeepsWindows
    <2>3. CASE TxOnMute
      <3>1. GateTypeOK' /\ UNCHANGED windows /\ d_state # "ST_UNMUTE" /\ d_state' # "ST_UNMUTE"
        BY <1>1, <1>3, <2>3 DEF TxOnMute, Consume, GateTypeOK, States
      <3> QED
        BY <3>1, ElsewhereKeepsWindows
    <2>4. CASE TxOffMute
      <3>1. GateTypeOK' /\ UNCHANGED windows /\ d_state # "ST_UNMUTE" /\ d_state' # "ST_UNMUTE"
        BY <1>1, <1>3, <2>4 DEF TxOffMute, Consume, GateTypeOK, States
      <3> QED
        BY <3>1, ElsewhereKeepsWindows
    <2>5. CASE Command
      BY <1>3, <2>5, CommandKeepsInv
    <2>6. CASE Wait
      <3>1. CASE d_counter > 0
        <4>1. PICK n \in Chunks : Passes(n)
          BY <2>6, <3>1 DEF Wait
        <4>2. nread' \in Nat /\ d_counter' \in Nat
          BY <1>1, <4>1, PassesCounts DEF GateTypeOK
        <4>3. GateTypeOK' /\ UNCHANGED windows /\ d_state = "ST_WAIT" /\ d_state' = d_state
          BY <1>1, <1>3, <2>6, <3>1, <4>2 DEF Wait, GateTypeOK
        <4> QED
          BY <4>3, ElsewhereKeepsWindows
      <3>2. CASE ~(d_counter > 0)
        <4>1. GateTypeOK' /\ UNCHANGED windows /\ d_state = "ST_WAIT" /\ d_state' = "ST_COMMAND"
          BY <1>1, <1>3, <2>6, <3>2 DEF Wait, GateTypeOK, States
        <4> QED
          BY <4>1, ElsewhereKeepsWindows
      <3> QED
        BY <3>1, <3>2
    <2>7. CASE Unmute
      BY <1>3, <2>7, UnmuteKeepsInv
    <2> QED
      BY <1>3, <2>1, <2>2, <2>3, <2>4, <2>5, <2>6, <2>7
  <1>4. CASE UNCHANGED vars
    BY <1>4 DEF vars, GateInv, GateTypeOK, EarlierAreClosed, LastIsOpenOrClosed, Open, Closed
  <1> QED
    BY <1>2, <1>3, <1>4 DEF Next

\* What is kept implies that the windows are whole.
LEMMA GateInvIsEnough == GateInv => WindowsAreWhole
  <1> SUFFICES ASSUME GateInv, NEW i \in 1 .. Len(windows)
               PROVE  LET w == windows[i] IN
                      /\ w.out <= w.len
                      /\ (i < Len(windows) \/ d_state # "ST_UNMUTE") => w.out = w.len
                      /\ d_state = "ST_UNMUTE" /\ i = Len(windows) => nread = w.from - 1 + w.out
    <2>1. GateInv => DOMAIN windows = 1 .. Len(windows)
      BY DEF GateInv, GateTypeOK
    <2> QED
      BY <2>1 DEF WindowsAreWhole
  <1>1. windows \in Seq(Windows) /\ d_counter \in Nat
    BY DEF GateInv, GateTypeOK
  <1>2. /\ windows[i].from \in Nat /\ windows[i].len \in Nat
        /\ windows[i].out \in Nat
    <2>1. windows[i] \in Windows
      BY <1>1
    <2> QED
      BY <2>1 DEF Windows
  <1>3. CASE i < Len(windows) \/ d_state # "ST_UNMUTE"
    <2>1. Closed(windows[i])
      <3>1. i < Len(windows) \/ (i = Len(windows) /\ Len(windows) > 0)
        BY <1>1
      <3> QED
        BY <1>3, <3>1 DEF GateInv, EarlierAreClosed, LastIsOpenOrClosed
    <2> QED
      BY <1>1, <1>2, <1>3, <2>1 DEF Closed
  <1>4. CASE i = Len(windows) /\ d_state = "ST_UNMUTE"
    BY <1>1, <1>2, <1>4 DEF GateInv, LastIsOpenOrClosed, Open
  <1>5. i < Len(windows) \/ i = Len(windows)
    BY <1>1
  <1> QED
    BY <1>3, <1>4, <1>5

(***************************************************************************)
(* Each window of the receive gate, lib/rfidbts_receive_gate.cc, is        *)
(* contiguous and as long as its RXB_UNGATE says, whatever the antenna     *)
(* receives, whenever the MAC queues its messages and however many samples *)
(* the scheduler gives to a call of general_work.                          *)
(***************************************************************************)
THEOREM GateWindowsWhole == Spec => []WindowsAreWhole
  BY GateStarts, GateStep, GateInvIsEnough, PTL DEF Spec

-----------------------------------------------------------------------------
(***************************************************************************)
(* Where the windows open.  The messages come in the order of the scene,   *)
(* so it is enough to know how many are taken and where the gate stands.   *)
(***************************************************************************)
\* The first t messages of the scene are taken; the others are in the queue or
\* not queued yet.
QueueAt(t) ==
    /\ Len(gate_queue) + Len(pending) = Len(scene.messages) - t
    /\ \A i \in 1 .. Len(gate_queue) : gate_queue[i] = scene.messages[t + i]
    /\ \A i \in 1 .. Len(pending) : pending[i] = scene.messages[t + Len(gate_queue) + i]

\* Up to the end of the delimiter of command k the gate follows the carrier;
\* then it stands at that sample.  Behind the last command anything may come.
Follows(on, fall, rise, k) ==
    /\ d_state \in {"ST_BOOTUP", "ST_TXOFF", "ST_TXON_MUTE", "ST_TXOFF_MUTE", "ST_COMMAND"}
    /\ k <= Len(scene.ends) =>
        /\ d_state = "ST_BOOTUP" => k = 1 /\ nread + d_counter = BootSamples
        /\ d_state = "ST_TXOFF" => Free(scene, rise, k) <= nread /\ nread <= on[k]
        /\ d_state = "ST_TXON_MUTE" => on[k] <= nread /\ nread <= fall[k]
        /\ d_state = "ST_TXOFF_MUTE" => fall[k] <= nread /\ nread <= rise[k] /\ d_counter = nread - fall[k]
        /\ d_state = "ST_COMMAND" => nread = rise[k]

\* The gate counts d_counter samples down to sample n, in this state.
CountsTo(n, state) ==
    \/ d_state = state /\ nread + d_counter = n
    \/ d_state = "ST_COMMAND" /\ nread = n

Closes(s, rise, k) == Opens(s, rise, k) + s.messages[3 * k - 1].len

GateAt(on, fall, rise, k) ==
    \/ /\ QueueAt(3 * k - 3) /\ Len(windows) = k - 1
       /\ Follows(on, fall, rise, k)
    \/ /\ k <= Len(scene.ends) /\ QueueAt(3 * k - 2) /\ Len(windows) = k - 1
       /\ CountsTo(Opens(scene, rise, k), "ST_WAIT")
    \/ /\ k <= Len(scene.ends) /\ QueueAt(3 * k - 1) /\ Len(windows) = k
       /\ CountsTo(Closes(scene, rise, k), "ST_UNMUTE")

Opened(rise) == \A i \in 1 .. Len(windows) : windows[i].from = Opens(scene, rise, i) + 1

Course(on, fall, rise) ==
    /\ scene.ends \in Seq(Nat)
    /\ on \in [1 .. Len(scene.ends) -> Nat]
    /\ fall \in [1 .. Len(scene.ends) -> Nat]
    /\ rise \in [1 .. Len(scene.ends) -> Nat]
    /\ Timed(scene, on, fall, rise)

TimedInv ==
    \E on, fall, rise :
        /\ Course(on, fall, rise) /\ Opened(rise)
        /\ \E k \in 1 .. Len(scene.ends) + 1 : GateAt(on, fall, rise, k)

\* The hypothesis of the theorem below: each scene is timed in some way.
TimedScenes ==
    \A s \in Scenes :
        /\ s.ends \in Seq(Nat)
        /\ \E on, fall, rise \in [1 .. Len(s.ends) -> Nat] : Timed(s, on, fall, rise)

-----------------------------------------------------------------------------
\* The numbers of a command's messages.
LEMMA MessageNumbers ==
    ASSUME NEW n \in Nat, NEW k \in 1 .. n
    PROVE  /\ 3 * k - 2 \in 1 .. 3 * n /\ 3 * k - 1 \in 1 .. 3 * n /\ 3 * k \in 1 .. 3 * n
           /\ (3 * k - 3) + 1 = 3 * k - 2 /\ (3 * k - 2) + 1 = 3 * k - 1 /\ (3 * k - 1) + 1 = 3 * k
           /\ 3 * (k + 1) - 3 = 3 * k /\ 3 * (k + 1) - 4 = 3 * k - 1 /\ (k + 1) - 1 = k
           /\ k + 1 # 1 /\ k + 1 \in 1 .. n + 1
  OBVIOUS

\* What a scene says of one of its commands.
LEMMA CommandFacts ==
    ASSUME GateTypeOK, NEW on, NEW fall, NEW rise, Course(on, fall, rise),
           NEW k \in 1 .. Len(scene.ends)
    PROVE  /\ Len(scene.ends) \in Nat /\ Len(scene.messages) = 3 * Len(scene.ends)
           /\ on[k] \in Nat /\ fall[k] \in Nat /\ rise[k] \in Nat
           /\ scene.messages[3 * k - 2].len \in Nat /\ scene.messages[3 * k - 1].len \in Nat
           /\ Opens(scene, rise, k) \in Nat /\ Closes(scene, rise, k) \in Nat
           /\ Free(scene, rise, k + 1) = Closes(scene, rise, k)
           /\ CommandTimed(scene, on, fall, rise, k)
  <1>1. /\ Len(scene.ends) \in Nat /\ Len(scene.messages) = 3 * Len(scene.ends)
        /\ on[k] \in Nat /\ fall[k] \in Nat /\ rise[k] \in Nat
        /\ CommandTimed(scene, on, fall, rise, k)
    <2>1. Len(scene.ends) \in Nat
      BY DEF Course
    <2>2. on[k] \in Nat /\ fall[k] \in Nat /\ rise[k] \in Nat
      BY DEF Course
    <2>3. Len(scene.messages) = 3 * Len(scene.ends) /\ CommandTimed(scene, on, fall, rise, k)
      BY Zenon DEF Course, Timed
    <2> QED
      BY <2>1, <2>2, <2>3
  <1>2. scene.messages \in Seq(Tasks)
    BY ScenesAssumption DEF GateTypeOK
  <1>3. /\ 3 * k - 2 \in 1 .. 3 * Len(scene.ends) /\ 3 * k - 1 \in 1 .. 3 * Len(scene.ends)
        /\ 3 * (k + 1) - 4 = 3 * k - 1 /\ (k + 1) - 1 = k /\ k + 1 # 1
    BY <1>1, MessageNumbers
  <1>4. scene.messages[3 * k - 2].len \in Nat /\ scene.messages[3 * k - 1].len \in Nat
    <2>1. scene.messages[3 * k - 2] \in Tasks /\ scene.messages[3 * k - 1] \in Tasks
      BY <1>1, <1>2, <1>3
    <2> QED
      BY <2>1 DEF Tasks
  <1>5. Opens(scene, rise, k) \in Nat /\ Closes(scene, rise, k) \in Nat
    <2>1. Opens(scene, rise, k) \in Nat
      BY <1>1, <1>4 DEF Opens
    <2> QED
      BY <1>4, <2>1 DEF Closes
  <1>6. Free(scene, rise, k + 1) = Closes(scene, rise, k)
    BY <1>3 DEF Free, Closes
  <1> QED
    BY <1>1, <1>4, <1>5, <1>6

\* The messages that are left are those behind the first t.
LEMMA QueueingKeepsQueue ==
    ASSUME GateTypeOK, NEW t \in Nat, QueueAt(t), MacQueues
    PROVE  QueueAt(t)'
  <1>1. /\ gate_queue \in Seq(Tasks) /\ pending \in Seq(Tasks) /\ pending # << >>
        /\ gate_queue' = Append(gate_queue, Head(pending)) /\ pending' = Tail(pending)
        /\ UNCHANGED scene
    BY DEF GateTypeOK, MacQueues
  <1> PICK g \in Nat : g = Len(gate_queue)
    BY <1>1
  <1> PICK p \in Nat : p = Len(pending) /\ p > 0
    BY <1>1
  <1>2. /\ Len(gate_queue') = g + 1 /\ Len(pending') = p - 1
        /\ \A i \in 1 .. g : gate_queue'[i] = gate_queue[i]
        /\ gate_queue'[g + 1] = pending[1]
        /\ \A i \in 1 .. p - 1 : pending'[i] = pending[i + 1]
    BY <1>1
  <1>3. g + p = Len(scene.messages) - t => (g + 1) + (p - 1) = Len(scene.messages) - t
    OBVIOUS
  <1>4. ASSUME NEW i \in 1 .. g + 1
        PROVE  gate_queue'[i] = scene.messages[t + i]
    <2>1. CASE i \in 1 .. g
      BY <1>2, <2>1 DEF QueueAt
    <2>2. CASE i = g + 1
      <3>1. pending[1] = scene.messages[t + g + 1]
        BY DEF QueueAt
      <3>2. t + g + 1 = t + (g + 1)
        OBVIOUS
      <3> QED
        BY <1>2, <2>2, <3>1, <3>2
    <2> QED
      BY <2>1, <2>2
  <1>5. ASSUME NEW i \in 1 .. p - 1
        PROVE  pending'[i] = scene.messages[t + (g + 1) + i]
    <2>1. i + 1 \in 1 .. p /\ t + (g + 1) + i = t + g + (i + 1)
      OBVIOUS
    <2>2. pending[i + 1] = scene.messages[t + g + (i + 1)]
      BY <2>1 DEF QueueAt
    <2> QED
      BY <1>2, <2>1, <2>2
  <1> QED
    BY <1>1, <1>2, <1>3, <1>4, <1>5 DEF QueueAt

LEMMA TakingMovesQueue ==
    ASSUME GateTypeOK, NEW t \in Nat, QueueAt(t), gate_queue # << >>,
           gate_queue' = Tail(gate_queue), UNCHANGED <<scene, pending>>
    PROVE  QueueAt(t + 1)' /\ Head(gate_queue) = scene.messages[t + 1]
  <1>1. gate_queue \in Seq(Tasks) /\ pending \in Seq(Tasks)
    BY DEF GateTypeOK
  <1> PICK g \in Nat : g = Len(gate_queue) /\ g > 0
    BY <1>1
  <1> PICK p \in Nat : p = Len(pending)
    BY <1>1
  <1>2. /\ Len(gate_queue') = g - 1 /\ Head(gate_queue) = gate_queue[1]
        /\ \A i \in 1 .. g - 1 : gate_queue'[i] = gate_queue[i + 1]
    BY <1>1
  <1>3. g + p = Len(scene.messages) - t
    BY DEF QueueAt
  <1>4. (g - 1) + p = Len(scene.messages) - (t + 1)
    <2>1. scene.messages \in Seq(Tasks)
      BY ScenesAssumption DEF GateTypeOK
    <2>2. Len(scene.messages) \in Nat
      BY <2>1
    <2> QED
      BY <1>3, <2>2
  <1>5. ASSUME NEW i \in 1 .. g - 1
        PROVE  gate_queue'[i] = scene.messages[(t + 1) + i]
    <2>1. i + 1 \in 1 .. g /\ t + (i + 1) = (t + 1) + i
      OBVIOUS
    <2>2. gate_queue[i + 1] = scene.messages[t + (i + 1)]
      BY <2>1 DEF QueueAt
    <2> QED
      BY <1>2, <2>1, <2>2
  <1>6. ASSUME NEW i \in 1 .. p
        PROVE  pending[i] = scene.messages[(t + 1) + (g - 1) + i]
    <2>1. t + g + i = (t + 1) + (g - 1) + i
      OBVIOUS
    <2>2. pending[i] = scene.messages[t + g + i]
      BY DEF QueueAt
    <2> QED
      BY <2>1, <2>2
  <1>7. QueueAt(t + 1)'
    BY <1>2, <1>4, <1>5, <1>6 DEF QueueAt
  <1>8. Head(gate_queue) = scene.messages[t + 1]
    <2>1. 1 \in 1 .. Len(gate_queue)
      OBVIOUS
    <2> QED
      BY <1>2, <2>1 DEF QueueAt
  <1> QED
    BY <1>7, <1>8

-----------------------------------------------------------------------------
\* While the gate follows the carrier, a step that takes no message.
LEMMA FollowingKeepsPlace ==
    ASSUME GateInv, NEW on, NEW fall, NEW rise, Course(on, fall, rise),
           NEW k \in 1 .. Len(scene.ends) + 1, GateAt(on, fall, rise, k),
           Bootup \/ TxOff \/ TxOnMute \/ TxOffMute, UNCHANGED <<scene, pending>>
    PROVE  GateAt(on, fall, rise, k)' /\ UNCHANGED windows
  <1> DEFINE free == Free(scene, rise, k)
  <1>1. /\ d_state \in {"ST_BOOTUP", "ST_TXOFF", "ST_TXON_MUTE", "ST_TXOFF_MUTE"}
        /\ UNCHANGED <<gate_queue, windows>>
    BY DEF Bootup, TxOff, TxOnMute, TxOffMute
  <1>2. QueueAt(3 * k - 3) /\ Len(windows) = k - 1 /\ Follows(on, fall, rise, k)
    BY <1>1 DEF GateAt, CountsTo
  <1>3. QueueAt(3 * k - 3)' /\ Len(windows') = k - 1
    BY <1>1, <1>2 DEF QueueAt
  <1>4. nread \in Nat /\ d_counter \in Nat /\ nread' \in Nat
    BY DEF GateInv, GateTypeOK, Bootup, TxOff, TxOnMute, TxOffMute, Consume
  <1>5. /\ d_state' \in {"ST_BOOTUP", "ST_TXOFF", "ST_TXON_MUTE", "ST_TXOFF_MUTE", "ST_COMMAND"}
    BY <1>1 DEF Bootup, TxOff, TxOnMute, TxOffMute
  <1>6. ASSUME k <= Len(scene.ends)
        PROVE  /\ d_state' = "ST_BOOTUP" => k = 1 /\ nread' + d_counter' = BootSamples
               /\ d_state' = "ST_TXOFF" => free <= nread' /\ nread' <= on[k]
               /\ d_state' = "ST_TXON_MUTE" => on[k] <= nread' /\ nread' <= fall[k]
               /\ d_state' = "ST_TXOFF_MUTE" =>
                     fall[k] <= nread' /\ nread' <= rise[k] /\ d_counter' = nread' - fall[k]
               /\ d_state' = "ST_COMMAND" => nread' = rise[k]
    <2>1. k \in 1 .. Len(scene.ends)
      BY <1>6 DEF Course
    <2>2. GateTypeOK
      BY DEF GateInv
    <2>3. /\ on[k] \in Nat /\ fall[k] \in Nat /\ rise[k] \in Nat
          /\ CommandTimed(scene, on, fall, rise, k)
      BY <2>1, <2>2, CommandFacts
    <2>4. free \in Nat
      <3>1. CASE k = 1
        BY <3>1, GateAssumption DEF Free
      <3>2. CASE k # 1
        <4> PICK j \in 1 .. Len(scene.ends) : j = k - 1 /\ k = j + 1
          BY <2>1, <3>2
        <4>1. Free(scene, rise, j + 1) = Closes(scene, rise, j) /\ Closes(scene, rise, j) \in Nat
          BY <2>2, CommandFacts
        <4> QED
          BY <4>1
      <3> QED
        BY <3>1, <3>2
    <2>5. /\ free <= on[k] /\ on[k] < fall[k] /\ fall[k] < rise[k]
          /\ rise[k] - fall[k] <= d_off_max /\ d_off_max \in Nat
          /\ free <= nread /\ nread < on[k] => ~High
          /\ on[k] <= nread /\ nread < fall[k] => High
          /\ fall[k] <= nread /\ nread < rise[k] => ~High
          /\ nread = rise[k] => High
      <3>1. /\ Level(scene, free, on[k], FALSE) /\ Level(scene, on[k], fall[k], TRUE)
            /\ Level(scene, fall[k], rise[k], FALSE) /\ Carrier(scene, rise[k])
            /\ free <= on[k] /\ on[k] < fall[k] /\ fall[k] < rise[k]
            /\ rise[k] - fall[k] <= d_off_max /\ d_off_max \in Nat
        BY <2>3, GateAssumption DEF CommandTimed
      <3> HIDE DEF free
      <3>2. ASSUME NEW a \in Nat, NEW b \in Nat, NEW h \in BOOLEAN, Level(scene, a, b, h),
                   a <= nread, nread < b
            PROVE  Carrier(scene, nread) = h
        <4>1. nread \in a .. b - 1
          BY <1>4, <3>2
        <4> QED
          BY <3>2, <4>1 DEF Level
      <3> QED
        BY <1>4, <2>3, <2>4, <3>1, <3>2 DEF High
    <2>6. /\ d_state = "ST_BOOTUP" => k = 1 /\ nread + d_counter = BootSamples
          /\ d_state = "ST_TXOFF" => free <= nread /\ nread <= on[k]
          /\ d_state = "ST_TXON_MUTE" => on[k] <= nread /\ nread <= fall[k]
          /\ d_state = "ST_TXOFF_MUTE" =>
                fall[k] <= nread /\ nread <= rise[k] /\ d_counter = nread - fall[k]
      BY <1>2, <1>6 DEF Follows
    <2>7. k = 1 => free = BootSamples
      BY DEF Free
    <2> HIDE DEF free
    <2> PICK o \in Nat : o = on[k]
      BY <2>3
    <2> PICK f \in Nat : f = fall[k]
      BY <2>3
    <2> PICK r \in Nat : r = rise[k]
      BY <2>3
    <2>8. CASE Bootup
      BY <1>4, <2>5, <2>6, <2>7, <2>8 DEF Bootup, Consume
    <2>9. CASE TxOff
      BY <1>4, <2>4, <2>5, <2>6, <2>9 DEF TxOff, Consume
    <2>10. CASE TxOnMute
      BY <1>4, <2>5, <2>6, <2>10 DEF TxOnMute, Consume
    <2>11. CASE TxOffMute
      <3>1. nread - f <= d_off_max
        BY <1>4, <2>5, <2>6, <2>11 DEF TxOffMute
      <3> QED
        BY <1>4, <2>5, <2>6, <2>11, <3>1 DEF TxOffMute, Consume
    <2> QED
      BY <2>8, <2>9, <2>10, <2>11
  <1>7. Follows(on, fall, rise, k)'
    BY <1>5, <1>6 DEF Follows
  <1> QED
    BY <1>1, <1>3, <1>7 DEF GateAt

\* Counting down, in chunks of any size, and the end of it.
LEMMA CountingKeepsPlace ==
    ASSUME GateInv, NEW on, NEW fall, NEW rise, Course(on, fall, rise),
           NEW k \in 1 .. Len(scene.ends) + 1, GateAt(on, fall, rise, k),
           Wait \/ Unmute, UNCHANGED <<scene, pending>>
    PROVE  /\ GateAt(on, fall, rise, k)' /\ Len(windows') = Len(windows)
           /\ \A i \in 1 .. Len(windows) : windows'[i].from = windows[i].from
  <1>1. d_state \in {"ST_WAIT", "ST_UNMUTE"} /\ UNCHANGED gate_queue
    BY DEF Wait, Unmute
  <1>2. GateTypeOK /\ nread \in Nat /\ d_counter \in Nat /\ windows \in Seq(Windows)
    BY DEF GateInv, GateTypeOK
  <1>3. /\ Len(windows') = Len(windows)
        /\ \A i \in 1 .. Len(windows) : windows'[i].from = windows[i].from
    <2>1. CASE UNCHANGED windows
      BY <2>1
    <2>2. CASE windows' = [windows EXCEPT ![Len(windows)].out = @ + nread' - nread]
      <3> DEFINE w == [windows[Len(windows)] EXCEPT !.out = @ + nread' - nread]
      <3>1. windows' = [windows EXCEPT ![Len(windows)] = w]
        BY <2>2
      <3>2. Len(windows) \in 1 .. Len(windows) => w.from = windows[Len(windows)].from
        <4>1. Len(windows) \in 1 .. Len(windows) => windows[Len(windows)] \in Windows
          BY <1>2
        <4> QED
          BY <4>1 DEF Windows
      <3> HIDE DEF w
      <3>3. /\ DOMAIN windows' = DOMAIN windows /\ DOMAIN windows = 1 .. Len(windows)
            /\ Len(windows) \in Nat
            /\ \A i \in 1 .. Len(windows) :
                  windows'[i] = IF i = Len(windows) THEN w ELSE windows[i]
        BY <1>2, <3>1
      <3>4. Len(windows') = Len(windows)
        BY <1>2, <3>1, <3>3
      <3> QED
        BY <3>2, <3>3, <3>4
    <2> QED
      BY <2>1, <2>2 DEF Wait, Unmute
  <1>4. ASSUME NEW n \in Nat, CountsTo(n, d_state)
        PROVE  \/ d_state' = d_state /\ nread' + d_counter' = n
               \/ d_state' = "ST_COMMAND" /\ nread' = n
    <2>1. nread + d_counter = n
      BY <1>1, <1>4 DEF CountsTo
    <2>2. CASE d_counter > 0
      <3>1. PICK c \in Chunks : Passes(c)
        BY <2>2 DEF Wait, Unmute
      <3>2. PICK m \in 0 .. d_counter : nread' = nread + m /\ d_counter' = d_counter - m
        BY <1>2, <3>1, PassesCounts
      <3>3. nread' + d_counter' = n /\ UNCHANGED d_state
        BY <1>2, <2>1, <2>2, <3>2 DEF Wait, Unmute
      <3> QED
        BY <3>3
    <2>3. CASE ~(d_counter > 0)
      <3>1. d_state' = "ST_COMMAND" /\ nread' = nread /\ d_counter = 0
        BY <1>2, <2>3 DEF Wait, Unmute
      <3> QED
        BY <1>2, <2>1, <3>1
    <2> QED
      BY <2>2, <2>3
  <1>5. k <= Len(scene.ends)
    BY <1>1 DEF GateAt, Follows
  <1>6. k \in 1 .. Len(scene.ends)
    BY <1>5 DEF Course
  <1>7. Opens(scene, rise, k) \in Nat /\ Closes(scene, rise, k) \in Nat
    BY <1>2, <1>6, CommandFacts
  <1>8. CASE /\ QueueAt(3 * k - 2) /\ Len(windows) = k - 1
             /\ CountsTo(Opens(scene, rise, k), "ST_WAIT")
    <2>1. d_state = "ST_WAIT"
      BY <1>1, <1>8 DEF CountsTo
    <2>2. CountsTo(Opens(scene, rise, k), "ST_WAIT")'
      BY <1>4, <1>7, <1>8, <2>1 DEF CountsTo, Opens
    <2>3. QueueAt(3 * k - 2)' /\ Len(windows') = k - 1
      BY <1>1, <1>3, <1>8 DEF QueueAt
    <2> QED
      BY <1>3, <1>5, <2>2, <2>3 DEF GateAt
  <1>9. CASE /\ QueueAt(3 * k - 1) /\ Len(windows) = k
             /\ CountsTo(Closes(scene, rise, k), "ST_UNMUTE")
    <2>1. d_state = "ST_UNMUTE"
      BY <1>1, <1>9 DEF CountsTo
    <2>2. CountsTo(Closes(scene, rise, k), "ST_UNMUTE")'
      BY <1>4, <1>7, <1>9, <2>1 DEF CountsTo, Closes, Opens
    <2>3. QueueAt(3 * k - 1)' /\ Len(windows') = k
      BY <1>1, <1>3, <1>9 DEF QueueAt
    <2> QED
      BY <1>3, <1>5, <2>2, <2>3 DEF GateAt
  <1> QED
    BY <1>1, <1>8, <1>9 DEF GateAt, Follows

\* A message that is queued in front of nothing changes only the queue.
LEMMA QueueingKeepsPlace ==
    ASSUME GateInv, NEW on, NEW fall, NEW rise, Course(on, fall, rise),
           NEW k \in 1 .. Len(scene.ends) + 1, GateAt(on, fall, rise, k), MacQueues
    PROVE  GateAt(on, fall, rise, k)' /\ UNCHANGED windows
  <1>1. UNCHANGED <<scene, nread, d_state, d_counter, windows>>
    BY DEF MacQueues
  <1>2. k \in Nat \ {0}
    BY DEF Course
  <1>3. 3 * k - 3 \in Nat /\ 3 * k - 2 \in Nat /\ 3 * k - 1 \in Nat
    BY <1>2
  <1>4. \A t \in Nat : QueueAt(t) => QueueAt(t)'
    BY QueueingKeepsQueue DEF GateInv
  <1>5. /\ QueueAt(3 * k - 3) => QueueAt(3 * k - 3)'
        /\ QueueAt(3 * k - 2) => QueueAt(3 * k - 2)'
        /\ QueueAt(3 * k - 1) => QueueAt(3 * k - 1)'
    BY <1>3, <1>4
  <1> QED
    BY <1>1, <1>5 DEF GateAt, Follows, CountsTo, Opens, Closes, Free

\* The command the gate takes is the next one of the scene.
LEMMA CommandMovesPlace ==
    ASSUME GateInv, NEW on, NEW fall, NEW rise, Course(on, fall, rise),
           NEW k \in 1 .. Len(scene.ends) + 1, GateAt(on, fall, rise, k), Opened(rise),
           Command, UNCHANGED <<scene, pending>>
    PROVE  /\ \E j \in 1 .. Len(scene.ends) + 1 : GateAt(on, fall, rise, j)'
           /\ Opened(rise)'
  <1>1. GateTypeOK /\ nread \in Nat /\ windows \in Seq(Windows)
    BY DEF GateInv, GateTypeOK
  <1>2. /\ d_state = "ST_COMMAND" /\ gate_queue # << >> /\ gate_queue' = Tail(gate_queue)
        /\ nread' = nread /\ decode_task(Head(gate_queue))
    BY DEF Command
  <1>3. \A t \in Nat : QueueAt(t) => QueueAt(t + 1)' /\ Head(gate_queue) = scene.messages[t + 1]
    BY <1>1, <1>2, TakingMovesQueue
  <1>4. Len(scene.ends) \in Nat /\ k \in Nat \ {0} /\ Len(scene.messages) = 3 * Len(scene.ends)
    <2>1. Len(scene.ends) \in Nat
      BY DEF Course
    <2>2. Len(scene.messages) = 3 * Len(scene.ends)
      BY Zenon DEF Course, Timed
    <2> QED
      BY <2>1, <2>2
  <1>5. k \in 1 .. Len(scene.ends)
    <2>1. CASE QueueAt(3 * k - 3)
      <3>1. Len(gate_queue) + Len(pending) = 3 * Len(scene.ends) - (3 * k - 3)
        BY <1>4, <2>1 DEF QueueAt
      <3>2. Len(gate_queue) \in Nat \ {0} /\ Len(pending) \in Nat
        BY <1>1, <1>2 DEF GateTypeOK
      <3> QED
        BY <1>4, <3>1, <3>2
    <2>2. CASE k <= Len(scene.ends)
      BY <1>4, <2>2
    <2> QED
      BY <2>1, <2>2 DEF GateAt
  <1> DEFINE first == scene.messages[3 * k - 2]
             second == scene.messages[3 * k - 1]
             third == scene.messages[3 * k]
  <1>6. /\ first.len \in Nat /\ second.len \in Nat
        /\ Opens(scene, rise, k) \in Nat /\ Closes(scene, rise, k) \in Nat
        /\ Free(scene, rise, k + 1) = Closes(scene, rise, k)
    BY <1>1, <1>5, CommandFacts
  <1>7. /\ first.cmd = "RXB_GATE" /\ second.cmd = "RXB_UNGATE" /\ third.cmd = "RXB_DONE"
    <2>1. CommandTimed(scene, on, fall, rise, k)
      BY <1>1, <1>5, CommandFacts
    <2> QED
      BY <2>1 DEF CommandTimed
  <1>8. /\ 3 * k - 3 \in Nat /\ 3 * k - 2 \in Nat /\ 3 * k - 1 \in Nat
        /\ (3 * k - 3) + 1 = 3 * k - 2 /\ (3 * k - 2) + 1 = 3 * k - 1 /\ (3 * k - 1) + 1 = 3 * k
        /\ 3 * (k + 1) - 3 = 3 * k /\ (k + 1) - 1 = k /\ k + 1 # 1
        /\ k + 1 \in 1 .. Len(scene.ends) + 1
    BY <1>4, <1>5
  <1>9. Opens(scene, rise, k) = rise[k] + first.len /\ Closes(scene, rise, k) = Opens(scene, rise, k) + second.len
    BY DEF Opens, Closes
  <1>10. CASE QueueAt(3 * k - 3) /\ Len(windows) = k - 1 /\ Follows(on, fall, rise, k)
    <2>1. QueueAt(3 * k - 2)' /\ Head(gate_queue) = first
      BY <1>3, <1>8, <1>10
    <2>2. nread = rise[k]
      BY <1>2, <1>5, <1>10 DEF Follows
    <2>3. d_state' = "ST_WAIT" /\ d_counter' = first.len /\ UNCHANGED windows
      BY <1>2, <1>7, <2>1 DEF decode_task
    <2>4. nread' + d_counter' = Opens(scene, rise, k)
      BY <1>2, <1>9, <2>2, <2>3
    <2>5. CountsTo(Opens(scene, rise, k), "ST_WAIT")'
      BY <2>3, <2>4 DEF CountsTo, Opens
    <2>6. GateAt(on, fall, rise, k)'
      BY <1>5, <1>10, <2>1, <2>3, <2>5 DEF GateAt
    <2>7. Opened(rise)'
      BY <2>3 DEF Opened, Opens
    <2> QED
      BY <2>6, <2>7
  <1>11. CASE /\ QueueAt(3 * k - 2) /\ Len(windows) = k - 1
              /\ CountsTo(Opens(scene, rise, k), "ST_WAIT")
    <2> DEFINE w == [from |-> nread + 1, len |-> second.len, out |-> 0]
    <2>1. QueueAt(3 * k - 1)' /\ Head(gate_queue) = second
      BY <1>3, <1>8, <1>11
    <2>2. nread = Opens(scene, rise, k)
      BY <1>2, <1>11 DEF CountsTo
    <2>3. /\ d_state' = "ST_UNMUTE" /\ d_counter' = second.len
          /\ windows' = Append(windows, w)
      BY <1>2, <1>7, <2>1 DEF decode_task
    <2>4. w \in Windows /\ w.from = nread + 1
      BY <1>1, <1>6 DEF Windows
    <2> HIDE DEF w
    <2>5. /\ Len(windows') = Len(windows) + 1 /\ Len(windows) \in Nat
          /\ windows'[Len(windows) + 1] = w
          /\ \A i \in 1 .. Len(windows) : windows'[i] = windows[i]
      BY <1>1, <2>3, <2>4
    <2>6. Len(windows') = k
      BY <1>4, <1>11, <2>5
    <2>7. nread' + d_counter' = Closes(scene, rise, k)
      BY <1>2, <1>9, <2>2, <2>3
    <2>8. CountsTo(Closes(scene, rise, k), "ST_UNMUTE")'
      BY <2>3, <2>7 DEF CountsTo, Closes, Opens
    <2>9. GateAt(on, fall, rise, k)'
      BY <1>5, <2>1, <2>6, <2>8 DEF GateAt
    <2>10. Opened(rise)'
      <3>1. ASSUME NEW i \in 1 .. Len(windows')
            PROVE  windows'[i].from = Opens(scene, rise, i) + 1
        <4>1. CASE i \in 1 .. Len(windows)
          BY <2>5, <4>1 DEF Opened
        <4>2. CASE i = Len(windows) + 1
          <5>1. i = k
            BY <1>4, <1>11, <4>2
          <5> QED
            BY <2>2, <2>4, <2>5, <4>2, <5>1
        <4> QED
          BY <2>5, <4>1, <4>2
      <3> QED
        BY <3>1 DEF Opened, Opens
    <2> QED
      BY <2>9, <2>10
  <1>12. CASE /\ QueueAt(3 * k - 1) /\ Len(windows) = k
              /\ CountsTo(Closes(scene, rise, k), "ST_UNMUTE")
    <2>1. QueueAt(3 * k)' /\ Head(gate_queue) = third
      BY <1>3, <1>8, <1>12
    <2>2. nread = Free(scene, rise, k + 1)
      BY <1>2, <1>6, <1>12 DEF CountsTo
    <2>3. d_state' = "ST_TXOFF" /\ UNCHANGED windows
      BY <1>2, <1>7, <2>1 DEF decode_task
    <2>4. k + 1 <= Len(scene.ends) => Free(scene, rise, k + 1) <= on[k + 1]
      <3> SUFFICES ASSUME k + 1 <= Len(scene.ends)
                   PROVE  Free(scene, rise, k + 1) <= on[k + 1]
        OBVIOUS
      <3>1. k + 1 \in 1 .. Len(scene.ends)
        BY <1>4
      <3>2. CommandTimed(scene, on, fall, rise, k + 1)
        BY <1>1, <3>1, CommandFacts
      <3> QED
        BY <3>2 DEF CommandTimed
    <2>5. Free(scene, rise, k + 1) <= nread'
      BY <1>1, <1>2, <2>2
    <2>6. k + 1 <= Len(scene.ends) => nread' <= on[k + 1]
      BY <1>2, <2>2, <2>4
    <2>7. Follows(on, fall, rise, k + 1)'
      BY <2>3, <2>5, <2>6 DEF Follows, Free, Opens
    <2>8. QueueAt(3 * (k + 1) - 3)' /\ Len(windows') = (k + 1) - 1
      BY <1>8, <1>12, <2>1, <2>3
    <2>9. GateAt(on, fall, rise, k + 1)'
      BY <2>7, <2>8 DEF GateAt
    <2>10. Opened(rise)'
      BY <2>3 DEF Opened, Opens
    <2> QED
      BY <1>8, <2>9, <2>10
  <1> QED
    BY <1>10, <1>11, <1>12 DEF GateAt

-----------------------------------------------------------------------------
\* Every step: the gate moves on in the scene, and an open window stays where
\* it began.
LEMMA TimedStep == GateInv /\ TimedInv /\ [Next]_vars => TimedInv'
  <1> SUFFICES ASSUME GateInv, TimedInv, [Next]_vars
               PROVE  TimedInv'
    OBVIOUS
  <1>1. PICK on, fall, rise : /\ Course(on, fall, rise) /\ Opened(rise)
                              /\ \E k \in 1 .. Len(scene.ends) + 1 : GateAt(on, fall, rise, k)
    BY DEF TimedInv
  <1>2. PICK k \in 1 .. Len(scene.ends) + 1 : GateAt(on, fall, rise, k)
    BY <1>1
  <1>3. UNCHANGED scene
    BY DEF Next, MacQueues, general_work, vars
  <1>4. Course(on, fall, rise)'
    BY <1>1, <1>3 DEF Course, Timed, CommandTimed, Free, Opens, Level, Carrier, AckOutlastsGate
  <1>5. ASSUME Len(windows') = Len(windows),
               \A i \in 1 .. Len(windows) : windows'[i].from = windows[i].from
        PROVE  Opened(rise)'
    BY <1>1, <1>3, <1>5 DEF Opened, Opens
  <1>6. (\E j \in 1 .. Len(scene.ends) + 1 : GateAt(on, fall, rise, j)') /\ Opened(rise)'
    <2>1. CASE MacQueues
      BY <1>1, <1>2, <1>5, <2>1, QueueingKeepsPlace
    <2>2. CASE general_work /\ (Bootup \/ TxOff \/ TxOnMute \/ TxOffMute)
      <3>1. UNCHANGED <<scene, pending>>
        BY <2>2 DEF general_work
      <3> QED
        BY <1>1, <1>2, <1>5, <2>2, <3>1, FollowingKeepsPlace
    <2>3. CASE general_work /\ (Wait \/ Unmute)
      <3>1. UNCHANGED <<scene, pending>>
        BY <2>3 DEF general_work
      <3> QED
        BY <1>1, <1>2, <1>5, <2>3, <3>1, CountingKeepsPlace
    <2>4. CASE general_work /\ Command
      <3>1. UNCHANGED <<scene, pending>>
        BY <2>4 DEF general_work
      <3> QED
        BY <1>1, <1>2, <2>4, <3>1, CommandMovesPlace
    <2>5. CASE UNCHANGED vars
      <3>1. GateAt(on, fall, rise, k)' /\ UNCHANGED windows
        BY <1>2, <2>5
           DEF vars, GateAt, QueueAt, Follows, CountsTo, Opens, Closes, Free
      <3> QED
        BY <1>2, <1>5, <3>1
    <2> QED
      BY <2>1, <2>2, <2>3, <2>4, <2>5 DEF Next, general_work
  <1>7. \E j \in 1 .. Len(scene.ends') + 1 : GateAt(on, fall, rise, j)'
    BY <1>3, <1>6
  <1> QED
    BY <1>4, <1>6, <1>7 DEF TimedInv

\* At first no message is taken and the gate ignores BootSamples samples.
LEMMA TimedStarts == ASSUME TimedScenes PROVE Init => TimedInv
  <1> SUFFICES ASSUME Init PROVE TimedInv
    OBVIOUS
  <1>1. scene \in Scenes /\ scene.messages \in Seq(Tasks) /\ pending = scene.messages
    BY ScenesAssumption DEF Init
  <1>2. scene.ends \in Seq(Nat)
    BY <1>1 DEF TimedScenes
  <1>3. PICK on, fall, rise \in [1 .. Len(scene.ends) -> Nat] : Timed(scene, on, fall, rise)
    BY <1>1 DEF TimedScenes
  <1>4. Course(on, fall, rise)
    BY <1>2, <1>3 DEF Course
  <1>5. Opened(rise) /\ Len(windows) = 1 - 1
    BY DEF Opened, Init
  <1>6. QueueAt(3 * 1 - 3)
    <2>1. Len(gate_queue) = 0 /\ Len(pending) = Len(scene.messages) /\ Len(scene.messages) \in Nat
      BY <1>1 DEF Init
    <2>2. \A i \in 1 .. Len(pending) : pending[i] = scene.messages[0 + 0 + i]
      BY <1>1
    <2> QED
      BY <2>1, <2>2 DEF QueueAt
  <1>7. Follows(on, fall, rise, 1)
    BY GateAssumption DEF Follows, Init
  <1>8. 1 \in 1 .. Len(scene.ends) + 1
    BY <1>2
  <1>9. GateAt(on, fall, rise, 1)
    BY <1>5, <1>6, <1>7 DEF GateAt
  <1> QED
    BY <1>4, <1>5, <1>8, <1>9 DEF TimedInv

\* A window that opens where its RXB_GATE ends is in time.
LEMMA TimedInvIsEnough == GateInv /\ TimedInv => WindowInTime
  <1> SUFFICES ASSUME GateInv, TimedInv, NEW i \in DOMAIN windows
               PROVE  /\ (scene.ends[i] < windows[i].from) <=> ~AckOutlastsGate(scene, i)
                      /\ windows[i].from <= scene.ends[i] + Turnaround + 1
    BY DEF WindowInTime
  <1>1. PICK on, fall, rise : /\ Course(on, fall, rise) /\ Opened(rise)
                              /\ \E k \in 1 .. Len(scene.ends) + 1 : GateAt(on, fall, rise, k)
    BY DEF TimedInv
  <1>2. PICK k \in 1 .. Len(scene.ends) + 1 : GateAt(on, fall, rise, k)
    BY <1>1
  <1>3. GateTypeOK /\ windows \in Seq(Windows) /\ Len(scene.ends) \in Nat
    BY <1>1 DEF GateInv, GateTypeOK, Course
  <1>4. Len(windows) <= Len(scene.ends)
    BY <1>2, <1>3 DEF GateAt
  <1>5. i \in 1 .. Len(scene.ends) /\ i \in 1 .. Len(windows)
    BY <1>3, <1>4
  <1>6. /\ Opens(scene, rise, i) \in Nat
        /\ CommandTimed(scene, on, fall, rise, i)
    BY <1>1, <1>3, <1>5, CommandFacts
  <1>7. windows[i].from = Opens(scene, rise, i) + 1
    BY <1>1, <1>5 DEF Opened
  <1>8. scene.ends[i] \in Nat /\ Turnaround \in Nat
    BY <1>1, <1>5, GateAssumption DEF Course
  <1>9. /\ (scene.ends[i] <= Opens(scene, rise, i)) <=> ~AckOutlastsGate(scene, i)
        /\ Opens(scene, rise, i) <= scene.ends[i] + Turnaround
    BY <1>6 DEF CommandTimed
  <1>10. scene.ends[i] < windows[i].from <=> scene.ends[i] <= Opens(scene, rise, i)
    BY <1>6, <1>7, <1>8
  <1>11. windows[i].from <= scene.ends[i] + Turnaround + 1
    BY <1>6, <1>7, <1>8, <1>9
  <1> QED
    BY <1>9, <1>10, <1>11

(***************************************************************************)
(* If the delimiters, the carrier and the lengths in RXB_GATE and          *)
(* RXB_UNGATE are as the gate takes for granted, each window opens at the  *)
(* sample where RXB_GATE, counted from the end of the delimiter, is over:  *)
(* behind the command and before the tag may answer.  How late the MAC     *)
(* queues a message and how general_work is called make no difference,     *)
(* because ST_COMMAND consumes nothing while it waits                      *)
(* (lib/rfidbts_receive_gate.cc, 121 to 130).                              *)
(***************************************************************************)
THEOREM GateWindowsInTime == ASSUME TimedScenes PROVE Spec => []WindowInTime
  <1>1. Init => GateInv /\ TimedInv
    BY GateStarts, TimedStarts
  <1>2. GateInv /\ TimedInv /\ [Next]_vars => (GateInv /\ TimedInv)'
    BY GateStep, TimedStep
  <1>3. GateInv /\ TimedInv => WindowInTime
    BY TimedInvIsEnough
  <1> QED
    BY <1>1, <1>2, <1>3, PTL DEF Spec
=============================================================================

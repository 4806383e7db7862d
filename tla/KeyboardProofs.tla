--------------------------- MODULE KeyboardProofs ---------------------------
(***************************************************************************)
(* What TLAPS proves about Keyboard, for every size of the buffer and of   *)
(* the screen and every behaviour of the user and the shell.               *)
(***************************************************************************)
EXTENDS Keyboard, SequenceTheorems, WellFoundedInduction, TLAPS

\* Behind what has been copied the local buffer of system call 4 is empty.
CopyTail ==
    /\ copy.done <= copy.length
    /\ \A i \in Indices : i >= copy.done => copy.buf[i] = NUL

IInv == TypeOK /\ CopyTail /\ LineTerminated

\* The index of the last byte a copy can leave alone.
LEMMA LastIndex == BUFFER_INDEX_SIZE - 1 \in Indices /\ 0 \in Indices
  BY KeyboardAssumption DEF Indices

LEMMA InitIInv == Init => IInv
  <1> SUFFICES ASSUME Init PROVE IInv
    OBVIOUS
  <1>1. NoLine \in [Indices -> Chars \cup {NUL}]
    BY DEF NoLine
  <1>2. 0 \in 0 .. BUFFER_INDEX_SIZE - 1
    BY KeyboardAssumption
  <1>3. TypeOK
    <2>1. queue \in Seq(Scancodes) /\ port \in Scancodes \cup {Empty}
      BY DEF Init
    <2>2. copy \in [length : 0 .. BUFFER_INDEX_SIZE - 1, done : 0 .. BUFFER_INDEX_SIZE - 1,
                    buf : [Indices -> Chars \cup {NUL}]]
      BY <1>1, <1>2 DEF Init
    <2> QED
      BY <1>1, <1>2, <2>1, <2>2 DEF Init, TypeOK
  <1>4. CopyTail
    BY DEF Init, CopyTail, NoLine
  <1>5. LineTerminated
    BY LastIndex DEF Init, LineTerminated, NoLine
  <1> QED
    BY <1>3, <1>4, <1>5 DEF IInv

\* Reading the port keeps what is in the queue a sequence of scancodes.
LEMMA ReadPortType ==
    ASSUME TypeOK, ReadPort
    PROVE  port' \in Scancodes \cup {Empty} /\ queue' \in Seq(Scancodes) /\ irr' \in BOOLEAN
  <1>1. CASE queue = <<>>
    BY <1>1 DEF TypeOK, ReadPort
  <1>2. CASE queue # <<>>
    <2>1. queue \in Seq(Scancodes)
      BY DEF TypeOK
    <2>2. Head(queue) \in Scancodes /\ Tail(queue) \in Seq(Scancodes)
      BY <1>2, <2>1, HeadTailProperties
    <2> QED
      BY <1>2, <2>2 DEF ReadPort
  <1> QED
    BY <1>1, <1>2

\* Whatever key it handles, the service routine leaves a well-formed driver
\* state: the index stays inside the buffer.
LEMMA IsrType ==
    ASSUME TypeOK, keyboard_isr
    PROVE  TypeOK'
  <1> DEFINE KeyboardType == [keyboard_input_on : BOOLEAN,
                              buffer_index : 0 .. BUFFER_INDEX_SIZE - 1,
                              keyboard_buffer : [Indices -> Chars \cup {NUL}],
                              shift_pressed : BOOLEAN, capslock_activated : BOOLEAN]
  <1>1. keyboard_state \in KeyboardType /\ UNCHANGED <<pc, copy, line>>
    BY DEF TypeOK, keyboard_isr
  <1>2. CASE ~keyboard_state.keyboard_input_on
    <2>1. NoLine \in [Indices -> Chars \cup {NUL}] /\ 0 \in 0 .. BUFFER_INDEX_SIZE - 1
      BY KeyboardAssumption DEF NoLine
    <2>2. IgnoreKey
      BY <1>2 DEF keyboard_isr
    <2>3. keyboard_state' \in KeyboardType
      BY <1>1, <2>1, <2>2 DEF IgnoreKey, reset_buffer
    <2> QED
      BY <1>1, <2>2, <2>3 DEF TypeOK, IgnoreKey
  <1>3. CASE keyboard_state.keyboard_input_on
    <2>1. ProcessKey(port) /\ ReadPort
      BY <1>3 DEF keyboard_isr, ProcessKey
    <2>2. keyboard_state' \in KeyboardType
      <3>1. CASE ModifierKey(port) /\ port \in {Shift, Unshift, Capslock, Other}
        BY <1>1, <3>1 DEF ModifierKey
      <3>2. CASE BackspaceKey
        BY <1>1, <3>2, KeyboardAssumption DEF BackspaceKey
      <3>3. CASE EnterKey
        BY <1>1, <3>3 DEF EnterKey, keyboard_state_deactivate
      <3>4. CASE port \in Letters /\ CharKey(port)
        <4> DEFINE char == CharOf(keyboard_state, port)
                   index == keyboard_state.buffer_index
        <4>1. char \in Chars
          BY <1>1, <3>4 DEF CharOf, Chars
        <4>2. index \in Indices /\ index \in Nat
          BY <1>1, KeyboardAssumption DEF Indices
        <4>3. NextIndex(index) \in 0 .. BUFFER_INDEX_SIZE - 1
          BY <4>2, KeyboardAssumption DEF NextIndex
        <4>4. keyboard_state' = StoreChar(keyboard_state, char)
          BY <3>4 DEF CharKey
        <4> HIDE DEF char
        <4> QED
          BY <1>1, <4>1, <4>2, <4>3, <4>4 DEF StoreChar
      <3> QED
        BY <2>1, <3>1, <3>2, <3>3, <3>4 DEF ProcessKey
    <2> QED
      BY <1>1, <2>1, <2>2, ReadPortType DEF TypeOK
  <1> QED
    BY <1>2, <1>3

LEMMA TypeStep == TypeOK /\ [Next]_vars => TypeOK'
  <1> SUFFICES ASSUME TypeOK, [Next]_vars PROVE TypeOK'
    OBVIOUS
  <1>0. NoLine \in [Indices -> Chars \cup {NUL}] /\ 0 \in 0 .. BUFFER_INDEX_SIZE - 1
    BY KeyboardAssumption DEF NoLine
  <1>1. ASSUME NEW k \in Scancodes, Press(k) PROVE TypeOK'
    <2>1. queue \in Seq(Scancodes)
      BY DEF TypeOK
    <2>2. queue' \in Seq(Scancodes) /\ port' \in Scancodes \cup {Empty} /\ irr' \in BOOLEAN
      <3>1. CASE port = Empty
        BY <1>1, <2>1, <3>1 DEF Press
      <3>2. CASE port # Empty
        <4>1. queue' = Append(queue, k) /\ UNCHANGED <<port, irr>>
          BY <1>1, <3>2 DEF Press
        <4>2. Append(queue, k) \in Seq(Scancodes)
          BY <2>1, AppendProperties
        <4> QED
          BY <4>1, <4>2 DEF TypeOK
      <3> QED
        BY <3>1, <3>2
    <2> QED
      BY <1>1, <2>2 DEF TypeOK, Press
  <1>2. CASE keyboard_isr
    BY <1>2, IsrType
  <1>3. ASSUME NEW s \in Outputs, Puts(s) PROVE TypeOK'
    BY <1>3 DEF TypeOK, Puts
  <1>4. CASE StartLine
    BY <1>0, <1>4 DEF TypeOK, StartLine, keyboard_state_activate, reset_buffer
  <1>5. CASE SeeEnter
    BY <1>0, <1>5 DEF TypeOK, SeeEnter
  <1>6. CASE CopyByte
    <2>1. copy.done \in Indices /\ copy.done + 1 \in 0 .. BUFFER_INDEX_SIZE - 1
      BY <1>6, KeyboardAssumption DEF TypeOK, CopyByte, Indices
    <2>2. keyboard_state.keyboard_buffer[copy.done] \in Chars \cup {NUL}
      BY <2>1 DEF TypeOK
    <2> QED
      BY <1>6, <2>1, <2>2 DEF TypeOK, CopyByte
  <1>7. CASE ReturnLine
    BY <1>7 DEF TypeOK, ReturnLine
  <1>8. CASE UNCHANGED vars
    BY <1>8 DEF TypeOK, vars
  <1> QED
    BY <1>1, <1>2, <1>3, <1>4, <1>5, <1>6, <1>7, <1>8 DEF Next, Syscall4

LEMMA StepIInv == IInv /\ [Next]_vars => IInv'
  <1> SUFFICES ASSUME IInv, [Next]_vars PROVE IInv'
    OBVIOUS
  <1> USE DEF IInv
  <1>0. TypeOK'
    BY TypeStep
  <1>1. CASE SeeEnter
    BY <1>0, <1>1 DEF TypeOK, CopyTail, LineTerminated, SeeEnter, NoLine
  <1>2. CASE CopyByte
    <2>1. LineTerminated'
      BY <1>2 DEF LineTerminated, CopyByte
    <2>2. copy.done \in Nat /\ copy'.done = copy.done + 1 /\ copy'.length = copy.length
      BY <1>2 DEF TypeOK, CopyByte
    <2>3. ASSUME NEW i \in Indices, i >= copy.done + 1 PROVE copy'.buf[i] = copy.buf[i]
      BY <1>2, <2>2, <2>3 DEF TypeOK, CopyByte, Indices
    <2>4. CopyTail'
      BY <1>2, <2>2, <2>3 DEF TypeOK, CopyTail, CopyByte, Indices
    <2> QED
      BY <1>0, <2>1, <2>4
  <1>3. CASE ReturnLine
    <2>1. copy.buf[BUFFER_INDEX_SIZE - 1] = NUL
      BY <1>3, LastIndex, KeyboardAssumption DEF TypeOK, CopyTail, ReturnLine
    <2> QED
      BY <1>0, <1>3, <2>1, LastIndex DEF CopyTail, LineTerminated, ReturnLine
  <1>4. CASE UNCHANGED <<copy, line>>
    BY <1>0, <1>4 DEF CopyTail, LineTerminated
  <1> QED
    BY <1>1, <1>2, <1>3, <1>4
       DEF Next, Syscall4, Press, keyboard_isr, Puts, StartLine, vars

\* The driver's buffer index is always one of the buffer: no line, however
\* long, makes the service routine store a character outside of it.
THEOREM TypeCorrect == Spec => []TypeOK
  <1>1. Init => IInv
    BY InitIInv
  <1>2. IInv /\ [Next]_vars => IInv'
    BY StepIInv
  <1>3. IInv => TypeOK
    BY DEF IInv
  <1> QED
    BY <1>1, <1>2, <1>3, PTL DEF Spec

\* Every line that system call 4 has delivered is terminated by a NUL, which is
\* what the shell's string functions rely on.
THEOREM LinesTerminated == Spec => []LineTerminated
  <1>1. Init => IInv
    BY InitIInv
  <1>2. IInv /\ [Next]_vars => IInv'
    BY StepIInv
  <1>3. IInv => LineTerminated
    BY DEF IInv
  <1> QED
    BY <1>1, <1>2, <1>3, PTL DEF Spec

-----------------------------------------------------------------------------
(***************************************************************************)
(* The line that is delivered                                              *)
(***************************************************************************)
\* Up to the index the buffer is the line as typed, as long as nothing has come
\* after Enter and the index has not wrapped.
BufferIsTyped ==
    /\ keyboard_state.buffer_index = Len(typed)
    /\ \A i \in 1 .. Len(typed) : keyboard_state.keyboard_buffer[i - 1] = typed[i]

\* While the line is copied input is off, so that only IgnoreKey can get at the
\* buffer, and what has been copied is the line.
CopyIsTyped ==
    /\ copy.length = Len(typed)
    /\ \A i \in 1 .. copy.done : copy.buf[i - 1] = typed[i]

LineInv ==
    /\ typed \in Seq(Chars)
    /\ pc = "copying" => ~keyboard_state.keyboard_input_on
    /\ pc # "user" /\ ~disturbed => BufferIsTyped
    /\ pc = "copying" /\ ~disturbed => CopyIsTyped

LEMMA InitLineInv == Init => LineInv
  BY DEF Init, LineInv

\* The service routine keeps buffer and line in step while input is on, and says
\* so when it clears the buffer.
LEMMA IsrLineInv ==
    ASSUME TypeOK, LineInv, keyboard_isr
    PROVE  LineInv'
  <1> DEFINE k == keyboard_state
  <1>1. UNCHANGED <<pc, copy>>
    BY DEF keyboard_isr
  <1>2. CASE ~k.keyboard_input_on
    <2>1. IgnoreKey
      BY <1>2 DEF keyboard_isr
    <2>2. keyboard_state'.keyboard_input_on = k.keyboard_input_on
      BY <2>1 DEF IgnoreKey, reset_buffer, TypeOK
    <2> QED
      BY <1>1, <1>2, <2>1, <2>2 DEF IgnoreKey, LineInv
  <1>3. CASE k.keyboard_input_on
    <2>1. ProcessKey(port)
      BY <1>3 DEF keyboard_isr
    <2>2. pc # "copying" /\ pc' # "copying"
      BY <1>1, <1>3 DEF LineInv
    <2>3. CASE ModifierKey(port) /\ port \in {Shift, Unshift, Capslock, Other}
      <3>1. /\ keyboard_state'.buffer_index = k.buffer_index
            /\ keyboard_state'.keyboard_buffer = k.keyboard_buffer
        BY <2>3 DEF ModifierKey, TypeOK
      <3> QED
        BY <1>1, <2>2, <2>3, <3>1 DEF ModifierKey, LineInv, BufferIsTyped
    <2>4. CASE BackspaceKey
      <3>1. /\ keyboard_state'.buffer_index = IF k.buffer_index > 0 THEN k.buffer_index - 1
                                              ELSE k.buffer_index
            /\ keyboard_state'.keyboard_buffer = k.keyboard_buffer
            /\ typed' = IF typed = <<>> THEN typed ELSE Front(typed)
            /\ disturbed' = disturbed
        BY <2>4 DEF BackspaceKey, TypeOK
      <3>2. CASE typed = <<>>
        BY <1>1, <2>2, <3>1, <3>2 DEF LineInv, BufferIsTyped
      <3>3. CASE typed # <<>>
        <4>1. typed \in Seq(Chars) /\ Len(typed) \in Nat \ {0}
          BY <3>3, EmptySeq DEF LineInv
        <4>2. /\ Front(typed) \in Seq(Chars) /\ Len(Front(typed)) = Len(typed) - 1
              /\ \A i \in 1 .. Len(typed) - 1 : Front(typed)[i] = typed[i]
          BY <4>1, SubSeqProperties DEF Front
        <4>3. typed' = Front(typed)
          BY <3>1, <3>3
        <4>4. pc' # "user" /\ ~disturbed' => BufferIsTyped'
          <5> SUFFICES ASSUME BufferIsTyped PROVE BufferIsTyped'
            BY <1>1, <3>1 DEF LineInv
          <5>1. keyboard_state'.buffer_index = Len(typed) - 1
            BY <3>1, <4>1 DEF BufferIsTyped
          <5>2. Len(typed') = Len(typed) - 1 /\ \A i \in 1 .. Len(typed) - 1 : typed'[i] = typed[i]
            BY <4>2, <4>3
          <5>3. \A i \in 1 .. Len(typed) - 1 : i \in 1 .. Len(typed)
            BY <4>1
          <5> QED
            BY <3>1, <5>1, <5>2, <5>3 DEF BufferIsTyped
        <4> QED
          BY <2>2, <4>2, <4>3, <4>4 DEF LineInv
      <3> QED
        BY <3>2, <3>3
    <2>5. CASE EnterKey
      <3>1. /\ keyboard_state'.buffer_index = k.buffer_index
            /\ keyboard_state'.keyboard_buffer = k.keyboard_buffer
        BY <2>5 DEF EnterKey, keyboard_state_deactivate, TypeOK
      <3> QED
        BY <1>1, <2>2, <2>5, <3>1 DEF EnterKey, LineInv, BufferIsTyped
    <2>6. CASE port \in Letters /\ CharKey(port)
      <3> DEFINE char == CharOf(k, port)
      <3>1. char \in Chars
        BY <2>6 DEF CharOf, Chars, TypeOK
      <3>2. /\ keyboard_state' = StoreChar(k, char) /\ typed' = Append(typed, char)
            /\ disturbed' = (disturbed \/ k.buffer_index + 1 = BUFFER_INDEX_SIZE)
        BY <2>6 DEF CharKey
      <3> HIDE DEF char
      <3>3. /\ k.buffer_index \in Nat /\ k.buffer_index < BUFFER_INDEX_SIZE
            /\ k.buffer_index \in Indices
        BY KeyboardAssumption DEF TypeOK, Indices
      <3>4. /\ keyboard_state'.buffer_index = NextIndex(k.buffer_index)
            /\ keyboard_state'.keyboard_buffer = [k.keyboard_buffer EXCEPT ![k.buffer_index] = char]
        BY <3>2 DEF StoreChar, TypeOK
      <3>5. typed \in Seq(Chars) /\ Len(typed) \in Nat
        BY DEF LineInv
      <3>6. /\ Append(typed, char) \in Seq(Chars) /\ Len(Append(typed, char)) = Len(typed) + 1
            /\ Append(typed, char)[Len(typed) + 1] = char
            /\ \A i \in 1 .. Len(typed) : Append(typed, char)[i] = typed[i]
        BY <3>1, <3>5, AppendProperties
      <3>7. ASSUME pc' # "user", ~disturbed' PROVE BufferIsTyped'
        <4>0. ~disturbed /\ k.buffer_index + 1 # BUFFER_INDEX_SIZE /\ pc # "user"
          BY <1>1, <3>2, <3>7
        <4>1. k.buffer_index = Len(typed) /\ \A i \in 1 .. Len(typed) : k.keyboard_buffer[i - 1] = typed[i]
          BY <4>0 DEF LineInv, BufferIsTyped
        <4>2. k.buffer_index + 1 < BUFFER_INDEX_SIZE
          BY <3>3, <4>0, KeyboardAssumption
        <4>3. NextIndex(k.buffer_index) = Len(typed) + 1
          <5>1. \A a \in Nat, b \in Nat \ {0} : a < b => a % b = a
            OBVIOUS
          <5>2. k.buffer_index + 1 \in Nat /\ BUFFER_INDEX_SIZE \in Nat \ {0}
            BY <3>3, KeyboardAssumption
          <5>3. NextIndex(k.buffer_index) = k.buffer_index + 1
            BY <4>2, <5>1, <5>2 DEF NextIndex
          <5> QED
            BY <4>1, <5>3
        <4>4. k.keyboard_buffer \in [Indices -> Chars \cup {NUL}]
          BY DEF TypeOK
        <4>5. ASSUME NEW i \in 1 .. Len(typed) + 1
              PROVE  keyboard_state'.keyboard_buffer[i - 1] = Append(typed, char)[i]
          <5>1. CASE i = Len(typed) + 1
            <6>1. i - 1 = k.buffer_index
              BY <3>5, <4>1, <5>1
            <6>2. keyboard_state'.keyboard_buffer[k.buffer_index] = char
              BY <3>3, <3>4, <4>4
            <6> QED
              BY <3>6, <5>1, <6>1, <6>2
          <5>2. CASE i # Len(typed) + 1
            <6>1. i \in 1 .. Len(typed) /\ i - 1 # k.buffer_index /\ i - 1 \in Indices
              BY <3>3, <3>5, <4>1, <5>2, KeyboardAssumption DEF Indices
            <6> QED
              BY <3>4, <3>6, <4>1, <4>4, <6>1
          <5> QED
            BY <5>1, <5>2
        <4> QED
          BY <3>2, <3>4, <3>6, <4>3, <4>5 DEF BufferIsTyped
      <3> QED
        BY <2>2, <3>2, <3>6, <3>7 DEF LineInv
    <2> QED
      BY <2>1, <2>3, <2>4, <2>5, <2>6 DEF ProcessKey
  <1> QED
    BY <1>2, <1>3

LEMMA StepLineInv == IInv /\ LineInv /\ [Next]_vars => LineInv'
  <1> SUFFICES ASSUME IInv, LineInv, [Next]_vars PROVE LineInv'
    OBVIOUS
  <1>0. TypeOK /\ CopyTail
    BY DEF IInv
  <1>1. CASE UNCHANGED <<keyboard_state, pc, copy, typed, disturbed>>
    BY <1>1 DEF LineInv, BufferIsTyped, CopyIsTyped
  <1>2. CASE keyboard_isr
    BY <1>0, <1>2, IsrLineInv
  <1>3. CASE StartLine
    <2>1. typed' = <<>> /\ pc' = "waiting" /\ keyboard_state'.buffer_index = 0
      BY <1>0, <1>3 DEF StartLine, keyboard_state_activate, reset_buffer, TypeOK
    <2> QED
      BY <2>1 DEF LineInv, BufferIsTyped
  <1>4. CASE SeeEnter
    <2>1. /\ pc = "waiting" /\ pc' = "copying" /\ UNCHANGED <<keyboard_state, typed, disturbed>>
          /\ ~keyboard_state.keyboard_input_on
          /\ copy'.length = keyboard_state.buffer_index /\ copy'.done = 0
      BY <1>4 DEF SeeEnter, is_keyboard_blocking
    <2> QED
      BY <2>1 DEF LineInv, BufferIsTyped, CopyIsTyped
  <1>5. CASE CopyByte
    <2>1. /\ pc = "copying" /\ UNCHANGED <<keyboard_state, pc, typed, disturbed>>
          /\ copy.done \in Nat /\ copy.length \in Nat /\ copy.done < copy.length
          /\ copy.done \in Indices
      BY <1>0, <1>5, KeyboardAssumption DEF CopyByte, TypeOK, Indices
    <2>2. /\ copy'.done = copy.done + 1 /\ copy'.length = copy.length
          /\ copy'.buf = [copy.buf EXCEPT ![copy.done] = keyboard_state.keyboard_buffer[copy.done]]
          /\ copy.buf \in [Indices -> Chars \cup {NUL}]
      BY <1>0, <1>5 DEF CopyByte, TypeOK
    <2>3. ASSUME ~disturbed PROVE CopyIsTyped'
      <3>1. BufferIsTyped /\ CopyIsTyped /\ Len(typed) \in Nat
        BY <2>1, <2>3 DEF LineInv
      <3>2. keyboard_state.keyboard_buffer[copy.done] = typed[copy.done + 1]
        <4>1. copy.done + 1 \in 1 .. Len(typed) /\ (copy.done + 1) - 1 = copy.done
          BY <2>1, <3>1 DEF CopyIsTyped
        <4> QED
          BY <3>1, <4>1 DEF BufferIsTyped
      <3>3. ASSUME NEW i \in 1 .. copy.done + 1 PROVE copy'.buf[i - 1] = typed[i]
        <4>1. CASE i = copy.done + 1
          <5>1. i - 1 = copy.done
            BY <2>1, <4>1
          <5>2. copy'.buf[copy.done] = keyboard_state.keyboard_buffer[copy.done]
            BY <2>1, <2>2
          <5> QED
            BY <3>2, <4>1, <5>1, <5>2
        <4>2. CASE i # copy.done + 1
          <5>1. i \in 1 .. copy.done /\ i - 1 # copy.done /\ i - 1 \in Indices
            BY <2>1, <4>2, KeyboardAssumption DEF Indices
          <5> QED
            BY <2>2, <3>1, <5>1 DEF CopyIsTyped
        <4> QED
          BY <4>1, <4>2
      <3> QED
        BY <2>1, <2>2, <3>1, <3>3 DEF CopyIsTyped
    <2> QED
      BY <2>1, <2>3 DEF LineInv, BufferIsTyped
  <1>6. CASE ReturnLine
    BY <1>6 DEF ReturnLine, LineInv
  <1> QED
    BY <1>1, <1>2, <1>3, <1>4, <1>5, <1>6
       DEF Next, Syscall4, Press, Puts, vars

\* The line that system call 4 delivers is the line as the user has typed and
\* corrected it, whatever keys came between its characters and between the
\* bytes copied, unless the index wrapped or a key came after Enter.
THEOREM LineDelivered == Spec => LineIntact
  <1> DEFINE Delivers == ReturnLine /\ ~disturbed => line' = LineOf(typed)
  <1>1. IInv /\ LineInv /\ [Next]_vars => [Delivers]_vars
    <2> SUFFICES ASSUME IInv, LineInv, ReturnLine, ~disturbed PROVE line' = LineOf(typed)
      OBVIOUS
    <2>1. /\ copy.done = Len(typed) /\ line' = copy.buf
          /\ \A i \in 1 .. Len(typed) : copy.buf[i - 1] = typed[i]
      BY DEF ReturnLine, LineInv, CopyIsTyped
    <2>2. /\ copy.buf \in [Indices -> Chars \cup {NUL}] /\ Len(typed) \in Nat
          /\ \A i \in Indices : i >= Len(typed) => copy.buf[i] = NUL
      BY <2>1 DEF IInv, TypeOK, CopyTail, LineInv
    <2>3. ASSUME NEW i \in Indices
          PROVE  copy.buf[i] = IF i < Len(typed) THEN typed[i + 1] ELSE NUL
      <3>1. CASE i < Len(typed)
        <4>1. i + 1 \in 1 .. Len(typed) /\ (i + 1) - 1 = i
          BY <2>2, <3>1 DEF Indices
        <4> QED
          BY <2>1, <3>1, <4>1
      <3>2. CASE ~(i < Len(typed))
        BY <2>2, <3>2 DEF Indices
      <3> QED
        BY <3>1, <3>2
    <2> QED
      BY <2>1, <2>2, <2>3 DEF LineOf
  <1>2. Init => IInv /\ LineInv
    BY InitIInv, InitLineInv
  <1>3. IInv /\ LineInv /\ [Next]_vars => (IInv /\ LineInv)'
    BY StepIInv, StepLineInv
  <1>4. Spec => [][Delivers]_vars
    BY <1>1, <1>2, <1>3, PTL DEF Spec
  <1> QED
    BY <1>4 DEF LineIntact

-----------------------------------------------------------------------------
(***************************************************************************)
(* The screen                                                              *)
(***************************************************************************)
LEMMA DivMod ==
    ASSUME NEW c \in Nat, NEW w \in Nat \ {0}
    PROVE  c \div w \in Nat /\ c % w \in 0 .. w - 1 /\ c = (c \div w) * w + (c % w)
  OBVIOUS

LEMMA RowCol ==
    ASSUME NEW r \in Nat, NEW w \in Nat \ {0}, NEW c \in 0 .. w - 1
    PROVE  (r * w + c) \div w = r /\ (r * w + c) % w = c
  OBVIOUS

LEMMA Times ==
    ASSUME NEW a \in Nat, NEW b \in Nat, NEW w \in Nat, a <= b
    PROVE  a * w <= b * w
  OBVIOUS

IsScreen(f) == f = [cell |-> [k \in Cells |-> f.cell[k]], cursor |-> f.cursor]

OnScreen(f) == IsScreen(f) /\ f.cursor \in 0 .. VGA_WIDTH * VGA_HEIGHT - 1

\* Where the cursor is, row and column and cell.
LEMMA CursorAt ==
    ASSUME NEW f, OnScreen(f)
    PROVE  /\ Row(f) = f.cursor \div VGA_WIDTH /\ Col(f) = f.cursor % VGA_WIDTH
           /\ Row(f) \in 0 .. VGA_HEIGHT - 1 /\ Col(f) \in 0 .. VGA_WIDTH - 1
           /\ f.cursor = Row(f) * VGA_WIDTH + Col(f)
           /\ f.cursor \in Cells /\ f.cursor \in Nat
           /\ AtLastCell(f) <=> f.cursor = VGA_WIDTH * VGA_HEIGHT - 1
  <1> DEFINE w == VGA_WIDTH
             h == VGA_HEIGHT
             r == f.cursor \div w
             c == f.cursor % w
  <1>1. w \in Nat \ {0} /\ h \in Nat \ {0} /\ ROW_SIZE \in Nat /\ h <= ROW_SIZE /\ f.cursor \in Nat
    BY ScreenAssumption DEF OnScreen
  <1>2. r \in Nat /\ c \in 0 .. w - 1 /\ f.cursor = r * w + c
    BY <1>1, DivMod
  <1> HIDE DEF r, c
  <1>3. r < h
    <2> SUFFICES ASSUME h <= r PROVE FALSE
      BY <1>1, <1>2
    <2>1. h * w <= r * w
      BY <1>1, <1>2, Times
    <2> QED
      BY <1>1, <1>2, <2>1 DEF OnScreen
  <1>4. r % ROW_SIZE = r
    BY <1>1, <1>2, <1>3
  <1>5. Row(f) = r /\ Col(f) = c
    BY <1>4 DEF Row, Col, r, c
  <1>6. f.cursor \in Cells
    <2>1. h * w <= ROW_SIZE * w
      BY <1>1, Times
    <2> QED
      BY <1>1, <2>1 DEF OnScreen, Cells
  <1>7. AtLastCell(f) <=> f.cursor = w * h - 1
    <2>1. r = h - 1 => r * w = h * w - w
      BY <1>1, <1>2
    <2>2. r # h - 1 => (r + 1) * w <= (h - 1) * w
      BY <1>1, <1>2, <1>3, Times
    <2>3. (r + 1) * w = r * w + w /\ (h - 1) * w = h * w - w
      BY <1>1, <1>2
    <2> QED
      BY <1>1, <1>2, <1>5, <2>1, <2>2, <2>3 DEF AtLastCell
  <1> QED
    BY <1>1, <1>2, <1>3, <1>5, <1>6, <1>7 DEF r, c

\* What the functions of the screen make of its record.
LEMMA SetCursorFields ==
    ASSUME NEW f, IsScreen(f), NEW r \in 0 .. VGA_HEIGHT - 1, NEW c
    PROVE  framebuffer_set_cursor(f, r, c) = [cell |-> f.cell, cursor |-> r * VGA_WIDTH + c]
  <1>1. r % ROW_SIZE = r
    BY ScreenAssumption
  <1> DEFINE at == r * VGA_WIDTH + c
             cells == [k \in Cells |-> f.cell[k]]
  <1>2. framebuffer_set_cursor(f, r, c) = [f EXCEPT !.cursor = at]
    BY <1>1 DEF framebuffer_set_cursor
  <1> HIDE DEF at, cells
  <1>3. f = [cell |-> cells, cursor |-> f.cursor]
    BY DEF IsScreen, cells
  <1>4. [f EXCEPT !.cursor = at] = [cell |-> f.cell, cursor |-> at]
    BY <1>3
  <1> QED
    BY <1>2, <1>4 DEF at

LEMMA WriteFields ==
    ASSUME NEW f, IsScreen(f), NEW r, NEW c, NEW char
    PROVE  framebuffer_write(f, r, c, char) =
             [cell |-> [k \in Cells |-> IF k = r * VGA_WIDTH + c THEN char ELSE f.cell[k]],
              cursor |-> f.cursor]
  <1> DEFINE at == r * VGA_WIDTH + c
             cells == [k \in Cells |-> f.cell[k]]
  <1>1. framebuffer_write(f, r, c, char) = [f EXCEPT !.cell[at] = char]
    BY DEF framebuffer_write
  <1> HIDE DEF at
  <1>2. f = [cell |-> cells, cursor |-> f.cursor]
    BY DEF IsScreen
  <1>3. [cells EXCEPT ![at] = char] = [k \in Cells |-> IF k = at THEN char ELSE f.cell[k]]
    OBVIOUS
  <1> HIDE DEF cells
  <1>4. [f EXCEPT !.cell[at] = char] = [cell |-> [cells EXCEPT ![at] = char], cursor |-> f.cursor]
    BY <1>2
  <1> QED
    BY <1>1, <1>3, <1>4 DEF at

\* The cells of a screen that is scrolled.
Scrolled(cell) ==
    [k \in Cells |-> IF k >= VGA_HEIGHT * VGA_WIDTH THEN cell[k]
                     ELSE IF k >= (VGA_HEIGHT - 1) * VGA_WIDTH THEN NUL
                     ELSE cell[k + VGA_WIDTH]]

LEMMA ScrollFields ==
    ASSUME NEW f, IsScreen(f)
    PROVE  framebuffer_scroll_down(f) = [cell |-> Scrolled(f.cell), cursor |-> f.cursor]
  <1> DEFINE cells == [k \in Cells |-> f.cell[k]]
             new == Scrolled(f.cell)
  <1>1. framebuffer_scroll_down(f) = [f EXCEPT !.cell = new]
    BY DEF framebuffer_scroll_down, Scrolled
  <1> HIDE DEF cells, new
  <1>2. f = [cell |-> cells, cursor |-> f.cursor]
    BY DEF IsScreen, cells
  <1>3. [f EXCEPT !.cell = new] = [cell |-> new, cursor |-> f.cursor]
    BY <1>2
  <1> QED
    BY <1>1, <1>3 DEF new

\* The cells of the screen by row and column.
LEMMA CellAt ==
    ASSUME NEW r \in 0 .. VGA_HEIGHT - 1, NEW c \in 0 .. VGA_WIDTH - 1
    PROVE  /\ r * VGA_WIDTH + c \in Cells
           /\ r * VGA_WIDTH + c \in 0 .. VGA_WIDTH * VGA_HEIGHT - 1
  <1> DEFINE w == VGA_WIDTH
             h == VGA_HEIGHT
  <1>1. w \in Nat \ {0} /\ h \in Nat \ {0} /\ ROW_SIZE \in Nat /\ h <= ROW_SIZE
    BY ScreenAssumption
  <1>2. r * w <= (h - 1) * w /\ (h - 1) * w = h * w - w /\ h * w <= ROW_SIZE * w
    <2>1. r \in Nat /\ h - 1 \in Nat /\ r <= h - 1
      BY <1>1
    <2> QED
      BY <1>1, <2>1, Times
  <1>3. h * w \in Nat /\ r * w \in Nat /\ ROW_SIZE * w \in Nat /\ w * h = h * w
    BY <1>1
  <1> QED
    BY <1>1, <1>2, <1>3 DEF Cells

LEMMA SameCell ==
    ASSUME NEW r \in Nat, NEW c \in 0 .. VGA_WIDTH - 1,
           NEW s \in Nat, NEW d \in 0 .. VGA_WIDTH - 1
    PROVE  r * VGA_WIDTH + c = s * VGA_WIDTH + d <=> r = s /\ c = d
  <1>1. VGA_WIDTH \in Nat \ {0}
    BY ScreenAssumption
  <1>2. /\ (r * VGA_WIDTH + c) \div VGA_WIDTH = r /\ (r * VGA_WIDTH + c) % VGA_WIDTH = c
        /\ (s * VGA_WIDTH + d) \div VGA_WIDTH = s /\ (s * VGA_WIDTH + d) % VGA_WIDTH = d
    BY <1>1, RowCol
  <1> QED
    BY <1>2

\* A screen with its cursor at row r and column c.
LEMMA CursorTo ==
    ASSUME NEW cells, cells = [k \in Cells |-> cells[k]],
           NEW r \in 0 .. VGA_HEIGHT - 1, NEW c \in 0 .. VGA_WIDTH - 1,
           NEW f, f = [cell |-> cells, cursor |-> r * VGA_WIDTH + c]
    PROVE  /\ OnScreen(f) /\ Row(f) = r /\ Col(f) = c
           /\ f.cell = cells /\ f.cursor = r * VGA_WIDTH + c
  <1> DEFINE at == r * VGA_WIDTH + c
  <1>1. at \in 0 .. VGA_WIDTH * VGA_HEIGHT - 1
    BY CellAt
  <1>2. VGA_WIDTH \in Nat \ {0} /\ r \in Nat
    BY ScreenAssumption
  <1>3. at \div VGA_WIDTH = r /\ at % VGA_WIDTH = c
    BY <1>2, RowCol
  <1>4. r % ROW_SIZE = r
    <2>1. \A a \in Nat, b \in Nat \ {0} : a < b => a % b = a
      OBVIOUS
    <2>2. r < ROW_SIZE /\ ROW_SIZE \in Nat \ {0}
      BY ScreenAssumption
    <2> QED
      BY <1>2, <2>1, <2>2
  <1> HIDE DEF at
  <1>5. f.cell = cells /\ f.cursor = at
    BY DEF at
  <1>6. IsScreen(f)
    BY <1>5 DEF IsScreen, at
  <1> QED
    BY <1>1, <1>3, <1>4, <1>5, <1>6 DEF OnScreen, Row, Col, at

LEMMA ScrolledAt ==
    ASSUME NEW cell, NEW r \in 0 .. VGA_HEIGHT - 1, NEW c \in 0 .. VGA_WIDTH - 1
    PROVE  Scrolled(cell)[r * VGA_WIDTH + c] =
             IF r = VGA_HEIGHT - 1 THEN NUL ELSE cell[(r + 1) * VGA_WIDTH + c]
  <1> DEFINE w == VGA_WIDTH
             h == VGA_HEIGHT
             at == r * w + c
  <1>1. w \in Nat \ {0} /\ h \in Nat \ {0} /\ r \in Nat
    BY ScreenAssumption
  <1>2. /\ (h - 1) * w = h * w - w /\ (r + 1) * w = r * w + w
        /\ h * w \in Nat /\ r * w \in Nat /\ (h - 1) * w \in Int
    BY <1>1
  <1>3. at \in Cells /\ ~(at >= h * w) /\ at \in Nat
    <2>1. at \in Cells /\ at \in 0 .. w * h - 1
      BY CellAt
    <2> QED
      BY <1>1, <2>1
  <1>4. CASE r = h - 1
    <2>1. at >= (h - 1) * w
      BY <1>1, <1>2, <1>4
    <2> DEFINE all == h * w
               last == (h - 1) * w
    <2>2. ~(at >= all) /\ at >= last
      BY <1>3, <2>1
    <2>3. Scrolled(cell) = [k \in Cells |-> IF k >= all THEN cell[k] ELSE IF k >= last THEN NUL
                                            ELSE cell[k + w]]
      BY DEF Scrolled
    <2> HIDE DEF at, all, last
    <2>4. Scrolled(cell)[at] = NUL
      BY <1>3, <2>2, <2>3
    <2> QED
      BY <1>4, <2>4 DEF at
  <1>5. CASE r # h - 1
    <2>1. (r + 1) * w <= (h - 1) * w
      <3>1. r + 1 \in Nat /\ h - 1 \in Nat /\ r + 1 <= h - 1
        BY <1>1, <1>5
      <3> QED
        BY <1>1, <3>1, Times
    <2>2. at < (h - 1) * w /\ at + w = (r + 1) * w + c
      BY <1>1, <1>2, <2>1
    <2> DEFINE all == h * w
               last == (h - 1) * w
    <2>3. ~(at >= all) /\ ~(at >= last)
      BY <1>3, <1>2, <2>2
    <2>4. Scrolled(cell) = [k \in Cells |-> IF k >= all THEN cell[k] ELSE IF k >= last THEN NUL
                                            ELSE cell[k + w]]
      BY DEF Scrolled
    <2> HIDE DEF at, all, last
    <2>5. Scrolled(cell)[at] = cell[at + w]
      BY <1>3, <2>3, <2>4
    <2> QED
      BY <1>5, <2>2, <2>5 DEF at
  <1> QED
    BY <1>4, <1>5

\* The cells with one of them written.
Written(cell, at, char) == [k \in Cells |-> IF k = at THEN char ELSE cell[k]]

LEMMA ScreenOf ==
    ASSUME NEW cells, cells = [k \in Cells |-> cells[k]], NEW at
    PROVE  IsScreen([cell |-> cells, cursor |-> at])
  BY DEF IsScreen

LEMMA CellsOf ==
    ASSUME NEW cell, NEW at, NEW char
    PROVE  /\ Written(cell, at, char) = [k \in Cells |-> Written(cell, at, char)[k]]
           /\ Scrolled(cell) = [k \in Cells |-> Scrolled(cell)[k]]
  BY DEF Written, Scrolled

\* The functions that write on the screen, at the cursor of a screen.
LEMMA WriteAtCursor ==
    ASSUME NEW f, OnScreen(f), NEW char
    PROVE  framebuffer_write(f, Row(f), Col(f), char) =
             [cell |-> Written(f.cell, f.cursor, char), cursor |-> f.cursor]
  <1>1. IsScreen(f) /\ f.cursor = Row(f) * VGA_WIDTH + Col(f)
    BY CursorAt DEF OnScreen
  <1> DEFINE r == Row(f)
             c == Col(f)
  <1> HIDE DEF r, c
  <1>2. framebuffer_write(f, r, c, char) =
          [cell |-> [k \in Cells |-> IF k = r * VGA_WIDTH + c THEN char ELSE f.cell[k]],
           cursor |-> f.cursor]
    BY <1>1, WriteFields
  <1>3. framebuffer_write(f, r, c, char) =
          [cell |-> [k \in Cells |-> IF k = f.cursor THEN char ELSE f.cell[k]],
           cursor |-> f.cursor]
    BY <1>1, <1>2 DEF r, c
  <1> QED
    BY <1>3 DEF Written, r, c

LEMMA EchoCharFields ==
    ASSUME NEW f, OnScreen(f), NEW char
    PROVE  LET new == Written(f.cell, f.cursor, char)
           IN  EchoChar(f, char) =
                 IF AtLastCell(f)
                 THEN [cell |-> Scrolled(new), cursor |-> (VGA_HEIGHT - 1) * VGA_WIDTH + 0]
                 ELSE [cell |-> new, cursor |-> f.cursor + 1]
  <1> DEFINE new == Written(f.cell, f.cursor, char)
             g == framebuffer_write(f, Row(f), Col(f), char)
             scrolled == framebuffer_scroll_down(g)
             r == Row(f)
             c == Col(f)
  <1>1. /\ r \in 0 .. VGA_HEIGHT - 1 /\ c \in 0 .. VGA_WIDTH - 1
        /\ f.cursor = r * VGA_WIDTH + c /\ VGA_WIDTH \in Nat \ {0} /\ VGA_HEIGHT \in Nat \ {0}
    BY CursorAt, ScreenAssumption
  <1>2. g = [cell |-> new, cursor |-> f.cursor]
    BY WriteAtCursor
  <1>3. IsScreen(g) /\ g.cell = new
    BY <1>2, CellsOf, ScreenOf
  <1>4. scrolled = [cell |-> Scrolled(new), cursor |-> f.cursor]
    <2>1. scrolled = [cell |-> Scrolled(g.cell), cursor |-> g.cursor]
      BY <1>3, ScrollFields
    <2> QED
      BY <1>2, <2>1
  <1>5. IsScreen(scrolled) /\ scrolled.cell = Scrolled(new)
    BY <1>4, CellsOf, ScreenOf
  <1>6. EchoChar(f, char) = IF AtLastCell(f) THEN framebuffer_set_cursor(scrolled, r, 0)
                            ELSE framebuffer_set_cursor(g, r, c + 1)
    BY DEF EchoChar
  <1> HIDE DEF new, g, scrolled, r, c
  <1>7. /\ framebuffer_set_cursor(scrolled, r, 0) = [cell |-> scrolled.cell, cursor |-> r * VGA_WIDTH + 0]
        /\ framebuffer_set_cursor(g, r, c + 1) = [cell |-> g.cell, cursor |-> r * VGA_WIDTH + (c + 1)]
    BY <1>1, <1>3, <1>5, SetCursorFields
  <1>8. r * VGA_WIDTH + (c + 1) = f.cursor + 1
    BY <1>1
  <1>9. AtLastCell(f) => r = VGA_HEIGHT - 1
    BY DEF AtLastCell, r
  <1> QED
    BY <1>3, <1>5, <1>6, <1>7, <1>8, <1>9 DEF new

LEMMA LineFeedFields ==
    ASSUME NEW f, OnScreen(f)
    PROVE  LineFeed(f) = IF Row(f) = VGA_HEIGHT - 1
                         THEN [cell |-> Scrolled(f.cell), cursor |-> Row(f) * VGA_WIDTH + 0]
                         ELSE [cell |-> f.cell, cursor |-> (Row(f) + 1) * VGA_WIDTH + 0]
  <1> DEFINE r == Row(f)
             scrolled == framebuffer_scroll_down(f)
  <1>1. r \in 0 .. VGA_HEIGHT - 1 /\ VGA_HEIGHT \in Nat \ {0} /\ IsScreen(f)
    BY CursorAt, ScreenAssumption DEF OnScreen
  <1>2. scrolled = [cell |-> Scrolled(f.cell), cursor |-> f.cursor]
    BY <1>1, ScrollFields
  <1>3. IsScreen(scrolled) /\ scrolled.cell = Scrolled(f.cell)
    BY <1>2, CellsOf, ScreenOf
  <1>4. LineFeed(f) = IF r = VGA_HEIGHT - 1 THEN framebuffer_set_cursor(scrolled, r, 0)
                      ELSE framebuffer_set_cursor(f, r + 1, 0)
    BY DEF LineFeed
  <1> HIDE DEF r, scrolled
  <1>5. framebuffer_set_cursor(scrolled, r, 0) = [cell |-> Scrolled(f.cell), cursor |-> r * VGA_WIDTH + 0]
    BY <1>1, <1>3, SetCursorFields
  <1>6. r # VGA_HEIGHT - 1 =>
          framebuffer_set_cursor(f, r + 1, 0) = [cell |-> f.cell, cursor |-> (r + 1) * VGA_WIDTH + 0]
    <2> SUFFICES ASSUME r # VGA_HEIGHT - 1
                 PROVE framebuffer_set_cursor(f, r + 1, 0) =
                         [cell |-> f.cell, cursor |-> (r + 1) * VGA_WIDTH + 0]
      OBVIOUS
    <2>1. r + 1 \in 0 .. VGA_HEIGHT - 1
      BY <1>1
    <2> QED
      BY <1>1, <2>1, SetCursorFields
  <1> QED
    BY <1>4, <1>5, <1>6 DEF r

LEMMA EchoBackspaceFields ==
    ASSUME NEW f, OnScreen(f),
           NEW r \in 0 .. VGA_HEIGHT - 1, NEW c \in 0 .. VGA_WIDTH - 1,
           BackspacePosition(f) = <<r, c>>
    PROVE  EchoBackspace(f) = [cell |-> Written(f.cell, r * VGA_WIDTH + c, NUL),
                               cursor |-> r * VGA_WIDTH + c]
  <1> DEFINE at == r * VGA_WIDTH + c
             g == framebuffer_set_cursor(f, r, c)
  <1>1. IsScreen(f)
    BY DEF OnScreen
  <1>2. g = [cell |-> f.cell, cursor |-> at]
    BY <1>1, SetCursorFields
  <1>3. IsScreen(g) /\ g.cell = f.cell /\ g.cursor = at
    <2>1. f.cell = [k \in Cells |-> f.cell[k]]
      <3> DEFINE cells == [k \in Cells |-> f.cell[k]]
                 cursor == f.cursor
      <3>1. f = [cell |-> cells, cursor |-> cursor]
        BY <1>1 DEF IsScreen
      <3> HIDE DEF cells, cursor
      <3>2. f.cell = cells
        BY <3>1
      <3> QED
        BY <3>2 DEF cells
    <2> QED
      BY <1>2, <2>1, ScreenOf
  <1>4. EchoBackspace(f) = framebuffer_write(g, r, c, NUL)
    BY DEF EchoBackspace
  <1> HIDE DEF g
  <1>5. framebuffer_write(g, r, c, NUL) =
          [cell |-> [k \in Cells |-> IF k = at THEN NUL ELSE g.cell[k]], cursor |-> g.cursor]
    BY <1>3, WriteFields
  <1> QED
    BY <1>3, <1>4, <1>5 DEF Written

LEMMA MinNat ==
    ASSUME NEW S \in SUBSET Nat, S # {}
    PROVE  Min(S) \in S /\ \A y \in S : Min(S) <= y
  <1>1. PICK x \in S : \A y \in S : <<y, x>> \notin OpToRel(<, Nat)
    BY NatLessThanWellFounded, WFMin
  <1>2. \A y \in S : x <= y
    <2>1. \A y \in S : ~(y < x)
      BY <1>1, Zenon DEF OpToRel
    <2> QED
      BY <2>1
  <1> QED
    BY <1>2 DEF Min

\* From column 0 backspace goes behind the last character of the row above.
LEMMA RowAbove ==
    ASSUME NEW f, OnScreen(f), Col(f) = 0, Row(f) # 0
    PROVE  \E c \in 0 .. VGA_WIDTH - 1 :
             /\ BackspacePosition(f) = <<Row(f) - 1, c>>
             /\ \A d \in c .. VGA_WIDTH - 2 : framebuffer_getchar(f, Row(f) - 1, d) = NUL
             /\ c # 0 => framebuffer_getchar(f, Row(f) - 1, c - 1) # NUL
  <1> DEFINE Nul(d) == framebuffer_getchar(f, Row(f) - 1, d) = NUL
             S == {c \in 0 .. VGA_WIDTH - 1 : \A d \in c .. VGA_WIDTH - 2 : Nul(d)}
             m == Min(S)
  <1>1. VGA_WIDTH \in Nat \ {0}
    BY ScreenAssumption
  <1>2. BackspacePosition(f) = <<Row(f) - 1, m>>
    BY DEF BackspacePosition
  <1> HIDE DEF Nul
  <1>3. VGA_WIDTH - 1 \in S /\ S \in SUBSET Nat
    BY <1>1
  <1>4. m \in S /\ \A y \in S : m <= y
    <2> HIDE DEF S
    <2> QED
      BY <1>3, MinNat
  <1> HIDE DEF m
  <1>5. m \in 0 .. VGA_WIDTH - 1 /\ \A d \in m .. VGA_WIDTH - 2 : Nul(d)
    BY <1>4
  <1>6. m # 0 => ~Nul(m - 1)
    <2> SUFFICES ASSUME m # 0, Nul(m - 1) PROVE FALSE
      OBVIOUS
    <2>1. m - 1 \in 0 .. VGA_WIDTH - 1 /\ ~(m <= m - 1)
      BY <1>1, <1>5
    <2>2. \A d \in m - 1 .. VGA_WIDTH - 2 : d = m - 1 \/ d \in m .. VGA_WIDTH - 2
      BY <1>1, <1>5
    <2>3. \A d \in m - 1 .. VGA_WIDTH - 2 : Nul(d)
      BY <1>5, <2>2
    <2>4. m - 1 \in S
      BY <2>1, <2>3
    <2> QED
      BY <1>4, <2>1, <2>4
  <1> QED
    BY <1>2, <1>5, <1>6 DEF Nul

LEMMA WrittenAt ==
    ASSUME NEW cell, NEW char,
           NEW r \in 0 .. VGA_HEIGHT - 1, NEW c \in 0 .. VGA_WIDTH - 1,
           NEW s \in 0 .. VGA_HEIGHT - 1, NEW d \in 0 .. VGA_WIDTH - 1
    PROVE  Written(cell, r * VGA_WIDTH + c, char)[s * VGA_WIDTH + d] =
             IF s = r /\ d = c THEN char ELSE cell[s * VGA_WIDTH + d]
  <1> DEFINE at == r * VGA_WIDTH + c
             k == s * VGA_WIDTH + d
  <1>1. k \in Cells /\ (k = at <=> s = r /\ d = c)
    BY CellAt, SameCell
  <1> HIDE DEF at, k
  <1>2. Written(cell, at, char)[k] = IF k = at THEN char ELSE cell[k]
    BY <1>1 DEF Written
  <1> QED
    BY <1>1, <1>2 DEF at, k

\* In every row the characters come first and nothing behind them.
Tails(cell) ==
    \A r \in 0 .. VGA_HEIGHT - 1 : \A c \in 0 .. VGA_WIDTH - 1 : \A d \in c .. VGA_WIDTH - 1 :
        cell[r * VGA_WIDTH + c] = NUL => cell[r * VGA_WIDTH + d] = NUL

\* Nothing from the cursor on, and no gap before it in its row.
Ends(cell, row, col) ==
    \A r \in 0 .. VGA_HEIGHT - 1, c \in 0 .. VGA_WIDTH - 1 :
        /\ r > row \/ (r = row /\ c >= col) => cell[r * VGA_WIDTH + c] = NUL
        /\ r = row /\ c < col => cell[r * VGA_WIDTH + c] # NUL

\* The same, but for the cell itself.
EndsAt(cell, row, col) ==
    \A r \in 0 .. VGA_HEIGHT - 1, c \in 0 .. VGA_WIDTH - 1 :
        /\ r > row \/ (r = row /\ c > col) => cell[r * VGA_WIDTH + c] = NUL
        /\ r = row /\ c < col => cell[r * VGA_WIDTH + c] # NUL

\* A screen on which backspace finds the end of the row above.
Tidy(f) == OnScreen(f) /\ Tails(f.cell) /\ Ends(f.cell, Row(f), Col(f))

\* A character is written at the end of the text.
LEMMA WrittenTidy ==
    ASSUME NEW cell, NEW char, char # NUL,
           NEW r \in 0 .. VGA_HEIGHT - 1, NEW c \in 0 .. VGA_WIDTH - 1,
           Tails(cell), Ends(cell, r, c),
           NEW new, new = Written(cell, r * VGA_WIDTH + c, char)
    PROVE  /\ Tails(new)
           /\ c # VGA_WIDTH - 1 => Ends(new, r, c + 1)
           /\ c = VGA_WIDTH - 1 => Ends(new, r + 1, 0)
  <1>1. \A s \in 0 .. VGA_HEIGHT - 1, d \in 0 .. VGA_WIDTH - 1 :
          new[s * VGA_WIDTH + d] = IF s = r /\ d = c THEN char ELSE cell[s * VGA_WIDTH + d]
    BY WrittenAt
  <1>2. Tails(new)
    <2> SUFFICES ASSUME NEW s \in 0 .. VGA_HEIGHT - 1, NEW d \in 0 .. VGA_WIDTH - 1,
                        NEW e \in d .. VGA_WIDTH - 1, new[s * VGA_WIDTH + d] = NUL
                 PROVE  new[s * VGA_WIDTH + e] = NUL
      BY DEF Tails
    <2>0. e \in 0 .. VGA_WIDTH - 1 /\ e >= d
      OBVIOUS
    <2>1. ~(s = r /\ d = c) /\ cell[s * VGA_WIDTH + d] = NUL
      BY <1>1
    <2>2. cell[s * VGA_WIDTH + e] = NUL
      BY <2>1 DEF Tails
    <2>3. ~(s = r /\ e = c)
      <3> SUFFICES ASSUME s = r, e = c PROVE FALSE
        OBVIOUS
      <3>1. d < c
        BY <2>0, <2>1
      <3>2. cell[s * VGA_WIDTH + d] # NUL
        BY <3>1 DEF Ends
      <3> QED
        BY <2>1, <3>2
    <2> QED
      BY <1>1, <2>0, <2>2, <2>3
  <1>3. ASSUME c # VGA_WIDTH - 1 PROVE Ends(new, r, c + 1)
    BY <1>1 DEF Ends
  <1>4. ASSUME c = VGA_WIDTH - 1 PROVE Ends(new, r + 1, 0)
    BY <1>1, <1>4 DEF Ends
  <1> QED
    BY <1>2, <1>3, <1>4

LEMMA ScrolledTidy ==
    ASSUME NEW cell, Tails(cell)
    PROVE  Tails(Scrolled(cell)) /\ Ends(Scrolled(cell), VGA_HEIGHT - 1, 0)
  <1> DEFINE new == Scrolled(cell)
  <1>1. \A s \in 0 .. VGA_HEIGHT - 1, d \in 0 .. VGA_WIDTH - 1 :
          new[s * VGA_WIDTH + d] = IF s = VGA_HEIGHT - 1 THEN NUL ELSE cell[(s + 1) * VGA_WIDTH + d]
    BY ScrolledAt
  <1> HIDE DEF new
  <1>2. Tails(new)
    <2> SUFFICES ASSUME NEW s \in 0 .. VGA_HEIGHT - 1, NEW d \in 0 .. VGA_WIDTH - 1,
                        NEW e \in d .. VGA_WIDTH - 1, new[s * VGA_WIDTH + d] = NUL
                 PROVE  new[s * VGA_WIDTH + e] = NUL
      BY DEF Tails
    <2>0. e \in 0 .. VGA_WIDTH - 1
      OBVIOUS
    <2>1. CASE s = VGA_HEIGHT - 1
      BY <1>1, <2>0, <2>1
    <2>2. CASE s # VGA_HEIGHT - 1
      <3>1. s + 1 \in 0 .. VGA_HEIGHT - 1
        BY <2>2, ScreenAssumption
      <3>2. cell[(s + 1) * VGA_WIDTH + d] = NUL
        BY <1>1, <2>2
      <3>3. cell[(s + 1) * VGA_WIDTH + e] = NUL
        BY <3>1, <3>2 DEF Tails
      <3> QED
        BY <1>1, <2>0, <2>2, <3>3
    <2> QED
      BY <2>1, <2>2
  <1>3. Ends(new, VGA_HEIGHT - 1, 0)
    BY <1>1, ScreenAssumption DEF Ends
  <1> QED
    BY <1>2, <1>3 DEF new

\* The cell before the end of the text, or the end itself, is erased.
LEMMA ErasedTidy ==
    ASSUME NEW cell, NEW r \in 0 .. VGA_HEIGHT - 1, NEW c \in 0 .. VGA_WIDTH - 1,
           Tails(cell), EndsAt(cell, r, c),
           NEW new, new = Written(cell, r * VGA_WIDTH + c, NUL)
    PROVE  Tails(new) /\ Ends(new, r, c)
  <1>1. \A s \in 0 .. VGA_HEIGHT - 1, d \in 0 .. VGA_WIDTH - 1 :
          new[s * VGA_WIDTH + d] = IF s = r /\ d = c THEN NUL ELSE cell[s * VGA_WIDTH + d]
    BY WrittenAt
  <1>2. Tails(new)
    <2> SUFFICES ASSUME NEW s \in 0 .. VGA_HEIGHT - 1, NEW d \in 0 .. VGA_WIDTH - 1,
                        NEW e \in d .. VGA_WIDTH - 1, new[s * VGA_WIDTH + d] = NUL
                 PROVE  new[s * VGA_WIDTH + e] = NUL
      BY DEF Tails
    <2>0. e \in 0 .. VGA_WIDTH - 1 /\ e >= d
      OBVIOUS
    <2>1. CASE s = r /\ d = c
      <3>1. e = c \/ e > c
        BY <2>0, <2>1
      <3> QED
        BY <1>1, <2>0, <2>1, <3>1 DEF EndsAt
    <2>2. CASE ~(s = r /\ d = c)
      <3>1. cell[s * VGA_WIDTH + d] = NUL
        BY <1>1, <2>2
      <3>2. cell[s * VGA_WIDTH + e] = NUL
        BY <3>1 DEF Tails
      <3> QED
        BY <1>1, <2>0, <3>2
    <2> QED
      BY <2>1, <2>2
  <1>3. Ends(new, r, c)
    <2> SUFFICES ASSUME NEW s \in 0 .. VGA_HEIGHT - 1, NEW d \in 0 .. VGA_WIDTH - 1
                 PROVE  /\ s > r \/ (s = r /\ d >= c) => new[s * VGA_WIDTH + d] = NUL
                        /\ s = r /\ d < c => new[s * VGA_WIDTH + d] # NUL
      BY DEF Ends
    <2>1. new[s * VGA_WIDTH + d] = IF s = r /\ d = c THEN NUL ELSE cell[s * VGA_WIDTH + d]
      BY <1>1
    <2>2. d >= c <=> d = c \/ d > c
      OBVIOUS
    <2> QED
      BY <2>1, <2>2 DEF EndsAt
  <1> QED
    BY <1>2, <1>3

-----------------------------------------------------------------------------
(***************************************************************************)
(* What a key makes of the screen                                          *)
(***************************************************************************)
LEMMA TidyTo ==
    ASSUME NEW cells, cells = [k \in Cells |-> cells[k]],
           NEW r \in 0 .. VGA_HEIGHT - 1, NEW c \in 0 .. VGA_WIDTH - 1,
           NEW f, f = [cell |-> cells, cursor |-> r * VGA_WIDTH + c]
    PROVE  OnScreen(f) /\ (Tails(cells) /\ Ends(cells, r, c) => Tidy(f))
  <1>1. OnScreen(f) /\ Row(f) = r /\ Col(f) = c /\ f.cell = cells
    BY CursorTo
  <1> QED
    BY <1>1 DEF Tidy

LEMMA LineFeedTidy ==
    ASSUME NEW f, OnScreen(f)
    PROVE  OnScreen(LineFeed(f)) /\ (Tidy(f) => Tidy(LineFeed(f)))
  <1> DEFINE r == Row(f)
             cell == f.cell
             g == LineFeed(f)
  <1>1. /\ r \in 0 .. VGA_HEIGHT - 1 /\ Col(f) \in 0 .. VGA_WIDTH - 1
        /\ 0 \in 0 .. VGA_WIDTH - 1 /\ VGA_HEIGHT \in Nat \ {0}
    BY CursorAt, ScreenAssumption
  <1>2. g = IF r = VGA_HEIGHT - 1
            THEN [cell |-> Scrolled(cell), cursor |-> r * VGA_WIDTH + 0]
            ELSE [cell |-> cell, cursor |-> (r + 1) * VGA_WIDTH + 0]
    BY LineFeedFields
  <1>3. Tidy(f) => Tails(cell) /\ Ends(cell, r, Col(f))
    BY DEF Tidy
  <1>4. cell = [k \in Cells |-> cell[k]]
    <2> DEFINE cells == [k \in Cells |-> f.cell[k]]
               cursor == f.cursor
    <2>1. f = [cell |-> cells, cursor |-> cursor]
      BY DEF IsScreen, OnScreen
    <2> HIDE DEF cells, cursor
    <2>2. f.cell = cells
      BY <2>1
    <2> QED
      BY <2>2 DEF cells
  <1> HIDE DEF r, cell, g
  <1>5. CASE r = VGA_HEIGHT - 1
    <2> DEFINE new == Scrolled(cell)
    <2>1. new = [k \in Cells |-> new[k]] /\ g = [cell |-> new, cursor |-> r * VGA_WIDTH + 0]
      BY <1>2, <1>5, CellsOf
    <2>2. Tails(cell) => Tails(new) /\ Ends(new, r, 0)
      BY <1>5, ScrolledTidy
    <2> HIDE DEF new
    <2>3. OnScreen(g) /\ (Tails(new) /\ Ends(new, r, 0) => Tidy(g))
      BY <1>1, <2>1, TidyTo
    <2> QED
      BY <1>3, <2>2, <2>3 DEF g
  <1>6. CASE r # VGA_HEIGHT - 1
    <2>1. r + 1 \in 0 .. VGA_HEIGHT - 1 /\ g = [cell |-> cell, cursor |-> (r + 1) * VGA_WIDTH + 0]
      BY <1>1, <1>2, <1>6
    <2>2. Ends(cell, r, Col(f)) => Ends(cell, r + 1, 0)
      BY <1>1 DEF Ends
    <2>3. OnScreen(g) /\ (Tails(cell) /\ Ends(cell, r + 1, 0) => Tidy(g))
      BY <1>1, <1>4, <2>1, TidyTo
    <2> QED
      BY <1>3, <2>2, <2>3 DEF g
  <1> QED
    BY <1>5, <1>6

LEMMA EchoCharTidy ==
    ASSUME NEW f, OnScreen(f), NEW char, char # NUL
    PROVE  OnScreen(EchoChar(f, char)) /\ (Tidy(f) => Tidy(EchoChar(f, char)))
  <1> DEFINE r == Row(f)
             c == Col(f)
             new == Written(f.cell, f.cursor, char)
             g == EchoChar(f, char)
             last == AtLastCell(f)
             h == VGA_HEIGHT
  <1>1. /\ r \in 0 .. h - 1 /\ c \in 0 .. VGA_WIDTH - 1 /\ f.cursor = r * VGA_WIDTH + c
        /\ 0 \in 0 .. VGA_WIDTH - 1 /\ VGA_WIDTH \in Nat \ {0} /\ h \in Nat \ {0}
        /\ last <=> r = h - 1 /\ c = VGA_WIDTH - 1
    BY CursorAt, ScreenAssumption DEF AtLastCell
  <1>2. g = IF last THEN [cell |-> Scrolled(new), cursor |-> (h - 1) * VGA_WIDTH + 0]
            ELSE [cell |-> new, cursor |-> f.cursor + 1]
    BY EchoCharFields
  <1>3. new = [k \in Cells |-> new[k]] /\ Scrolled(new) = [k \in Cells |-> Scrolled(new)[k]]
    BY CellsOf
  <1>4. Tidy(f) => /\ Tails(new)
                   /\ c # VGA_WIDTH - 1 => Ends(new, r, c + 1)
                   /\ c = VGA_WIDTH - 1 => Ends(new, r + 1, 0)
    <2> SUFFICES ASSUME Tidy(f)
                 PROVE  /\ Tails(new)
                        /\ c # VGA_WIDTH - 1 => Ends(new, r, c + 1)
                        /\ c = VGA_WIDTH - 1 => Ends(new, r + 1, 0)
      OBVIOUS
    <2>1. Tails(f.cell) /\ Ends(f.cell, r, c) /\ new = Written(f.cell, r * VGA_WIDTH + c, char)
      BY <1>1 DEF Tidy
    <2> HIDE DEF r, c, new
    <2> QED
      BY <1>1, <2>1, WrittenTidy
  <1> HIDE DEF r, c, new, g, last
  <1>5. CASE last
    <2> DEFINE up == Scrolled(new)
    <2>1. g = [cell |-> up, cursor |-> (h - 1) * VGA_WIDTH + 0] /\ h - 1 \in 0 .. h - 1
      BY <1>1, <1>2, <1>5
    <2>2. Tails(new) => Tails(up) /\ Ends(up, h - 1, 0)
      BY ScrolledTidy
    <2>3. up = [k \in Cells |-> up[k]]
      BY <1>3
    <2> HIDE DEF up
    <2>4. OnScreen(g) /\ (Tails(up) /\ Ends(up, h - 1, 0) => Tidy(g))
      BY <1>1, <2>1, <2>3, TidyTo
    <2> QED
      BY <1>4, <2>2, <2>4 DEF g
  <1>6. CASE ~last /\ c # VGA_WIDTH - 1
    <2>1. c + 1 \in 0 .. VGA_WIDTH - 1 /\ g = [cell |-> new, cursor |-> r * VGA_WIDTH + (c + 1)]
      BY <1>1, <1>2, <1>6
    <2>2. OnScreen(g) /\ (Tails(new) /\ Ends(new, r, c + 1) => Tidy(g))
      BY <1>1, <1>3, <2>1, TidyTo
    <2> QED
      BY <1>4, <1>6, <2>2 DEF g
  <1>7. CASE ~last /\ c = VGA_WIDTH - 1
    <2>1. r + 1 \in 0 .. h - 1
      BY <1>1, <1>7
    <2>2. f.cursor + 1 = (r + 1) * VGA_WIDTH + 0
      BY <1>1, <1>7
    <2>3. g = [cell |-> new, cursor |-> (r + 1) * VGA_WIDTH + 0]
      BY <1>2, <1>7, <2>2
    <2>4. OnScreen(g) /\ (Tails(new) /\ Ends(new, r + 1, 0) => Tidy(g))
      BY <1>1, <1>3, <2>1, <2>3, TidyTo
    <2> QED
      BY <1>4, <1>7, <2>4 DEF g
  <1> QED
    BY <1>5, <1>6, <1>7

\* Where backspace goes there are no characters behind, and none missing before.
LEMMA BackspaceAt ==
    ASSUME NEW f, OnScreen(f)
    PROVE  \E r \in 0 .. VGA_HEIGHT - 1, c \in 0 .. VGA_WIDTH - 1 :
             /\ BackspacePosition(f) = <<r, c>>
             /\ Tidy(f) => EndsAt(f.cell, r, c)
  <1> DEFINE r == Row(f)
             c == Col(f)
             w == VGA_WIDTH
             cell == f.cell
  <1>1. /\ r \in 0 .. VGA_HEIGHT - 1 /\ c \in 0 .. w - 1
        /\ 0 \in 0 .. w - 1 /\ w \in Nat \ {0} /\ VGA_HEIGHT \in Nat \ {0}
    BY CursorAt, ScreenAssumption
  <1>2. Tidy(f) => Tails(cell) /\ Ends(cell, r, c)
    BY DEF Tidy
  <1>3. CASE c = 0 /\ r = 0
    <2>1. BackspacePosition(f) = <<0, 0>> /\ 0 \in 0 .. VGA_HEIGHT - 1
      BY <1>1, <1>3 DEF BackspacePosition
    <2>2. Ends(cell, r, c) => EndsAt(cell, 0, 0)
      BY <1>1, <1>3 DEF Ends, EndsAt
    <2> QED
      BY <1>1, <1>2, <2>1, <2>2
  <1>4. CASE c = 0 /\ r # 0
    <2>1. PICK m \in 0 .. w - 1 :
            /\ BackspacePosition(f) = <<r - 1, m>>
            /\ \A d \in m .. w - 2 : framebuffer_getchar(f, r - 1, d) = NUL
            /\ m # 0 => framebuffer_getchar(f, r - 1, m - 1) # NUL
      BY <1>4, RowAbove
    <2>2. r - 1 \in 0 .. VGA_HEIGHT - 1
      BY <1>1, <1>4
    <2>3. ASSUME Tails(cell), Ends(cell, r, c) PROVE EndsAt(cell, r - 1, m)
      <3> HIDE DEF r, c, cell
      <3>1. ASSUME NEW s \in 0 .. VGA_HEIGHT - 1, NEW d \in 0 .. w - 1, s > r - 1
            PROVE  cell[s * w + d] = NUL
        <4>1. s > r \/ (s = r /\ d >= c)
          BY <1>1, <1>4, <3>1
        <4> QED
          BY <2>3, <4>1 DEF Ends
      <3>2. ASSUME NEW d \in 0 .. w - 1, d > m PROVE cell[(r - 1) * w + d] = NUL
        <4>1. m \in m .. w - 2
          BY <1>1, <2>1, <3>2
        <4>2. framebuffer_getchar(f, r - 1, m) = NUL
          BY <2>1, <4>1
        <4>3. cell[(r - 1) * w + m] = NUL
          BY <4>2 DEF framebuffer_getchar, cell
        <4>4. d \in m .. w - 1
          BY <3>2
        <4> QED
          BY <2>2, <2>3, <4>3, <4>4 DEF Tails
      <3>3. ASSUME NEW d \in 0 .. w - 1, d < m PROVE cell[(r - 1) * w + d] # NUL
        <4>1. m - 1 \in d .. w - 1 /\ m # 0
          BY <1>1, <2>1, <3>3
        <4>2. framebuffer_getchar(f, r - 1, m - 1) # NUL
          BY <2>1, <4>1
        <4>3. cell[(r - 1) * w + (m - 1)] # NUL
          BY <4>2 DEF framebuffer_getchar, cell
        <4> QED
          BY <2>2, <2>3, <4>1, <4>3 DEF Tails
      <3> QED
        BY <3>1, <3>2, <3>3 DEF EndsAt
    <2> QED
      BY <1>2, <2>1, <2>2, <2>3
  <1>5. CASE c # 0
    <2>1. BackspacePosition(f) = <<r, c>> \/ BackspacePosition(f) = <<r, c - 1>>
      BY <1>5 DEF BackspacePosition
    <2>2. c - 1 \in 0 .. w - 1
      BY <1>1, <1>5
    <2>3. Ends(cell, r, c) => EndsAt(cell, r, c) /\ EndsAt(cell, r, c - 1)
      <3> HIDE DEF r, c, cell
      <3>1. \A d \in 0 .. w - 1 : (d > c - 1 => d >= c) /\ (d > c => d >= c) /\ (d < c - 1 => d < c)
        BY <1>1
      <3> QED
        BY <3>1 DEF Ends, EndsAt
    <2> QED
      BY <1>1, <1>2, <2>1, <2>2, <2>3
  <1> QED
    BY <1>3, <1>4, <1>5

LEMMA EchoBackspaceTidy ==
    ASSUME NEW f, OnScreen(f)
    PROVE  OnScreen(EchoBackspace(f)) /\ (Tidy(f) => Tidy(EchoBackspace(f)))
  <1>1. PICK r \in 0 .. VGA_HEIGHT - 1, c \in 0 .. VGA_WIDTH - 1 :
          BackspacePosition(f) = <<r, c>> /\ (Tidy(f) => EndsAt(f.cell, r, c))
    BY BackspaceAt
  <1> DEFINE new == Written(f.cell, r * VGA_WIDTH + c, NUL)
             g == EchoBackspace(f)
  <1>2. g = [cell |-> new, cursor |-> r * VGA_WIDTH + c]
    BY <1>1, EchoBackspaceFields
  <1>3. new = [k \in Cells |-> new[k]]
    BY CellsOf
  <1>4. Tidy(f) => Tails(new) /\ Ends(new, r, c)
    BY <1>1, ErasedTidy DEF Tidy
  <1> HIDE DEF new, g
  <1>5. OnScreen(g) /\ (Tails(new) /\ Ends(new, r, c) => Tidy(g))
    BY <1>2, <1>3, TidyTo
  <1> QED
    BY <1>4, <1>5 DEF g

-----------------------------------------------------------------------------
(***************************************************************************)
(* The line on the screen                                                  *)
(***************************************************************************)
\* What is on the screen before the cursor is s, as far as it is on the screen.
Matches(f, s) ==
    \A j \in 1 .. Len(s) : j <= f.cursor => f.cell[f.cursor - j] = s[Len(s) - j + 1]

LEMMA CellsBelow ==
    ASSUME NEW c \in Cells, NEW k \in Nat, k <= c
    PROVE  k \in Cells
  <1> DEFINE all == ROW_SIZE * VGA_WIDTH
  <1>1. all \in Nat /\ c \in 0 .. all - 1
    BY ScreenAssumption DEF Cells
  <1> HIDE DEF all
  <1>2. k \in 0 .. all - 1
    BY <1>1
  <1> QED
    BY <1>2 DEF Cells, all

LEMMA EchoCharMatches ==
    ASSUME NEW f, OnScreen(f), NEW char \in Chars, NEW s \in Seq(Chars), Matches(f, s)
    PROVE  Matches(EchoChar(f, char), Append(s, char))
  <1> DEFINE g == EchoChar(f, char)
             t == Append(s, char)
             cur == f.cursor
             cell == f.cell
             new == Written(cell, cur, char)
             n == Len(s)
             w == VGA_WIDTH
             h == VGA_HEIGHT
             last == AtLastCell(f)
  <1>1. cur \in Nat /\ cur \in Cells /\ (last <=> cur = w * h - 1)
    BY CursorAt
  <1>2. w \in Nat \ {0} /\ h \in Nat \ {0} /\ n \in Nat
    BY ScreenAssumption
  <1>3. Len(t) = n + 1 /\ t[n + 1] = char /\ \A i \in 1 .. n : t[i] = s[i]
    BY AppendProperties
  <1>4. g = IF last THEN [cell |-> Scrolled(new), cursor |-> (h - 1) * w + 0]
            ELSE [cell |-> new, cursor |-> cur + 1]
    BY EchoCharFields
  <1>5. ASSUME NEW j \in 1 .. n + 1, j <= cur + 1
        PROVE  new[cur + 1 - j] = t[n + 1 - j + 1]
    <2>1. cur + 1 - j \in Cells
      <3>1. cur + 1 - j \in Nat /\ cur + 1 - j <= cur
        BY <1>1, <1>2, <1>5
      <3> QED
        BY <1>1, <3>1, CellsBelow
    <2>2. new[cur + 1 - j] = IF cur + 1 - j = cur THEN char ELSE cell[cur + 1 - j]
      BY <2>1 DEF Written
    <2> HIDE DEF cur, cell, new, n, t
    <2>3. CASE j = 1
      <3>1. cur + 1 - j = cur /\ n + 1 - j + 1 = n + 1
        BY <1>1, <1>2, <2>3
      <3> QED
        BY <1>3, <2>2, <3>1
    <2>4. CASE j # 1
      <3>1. /\ j - 1 \in 1 .. n /\ j - 1 <= cur /\ cur - (j - 1) = cur + 1 - j
            /\ cur + 1 - j # cur
            /\ n - (j - 1) + 1 = n + 1 - j + 1 /\ n + 1 - j + 1 \in 1 .. n
        BY <1>1, <1>2, <1>5, <2>4
      <3>2. cell[cur - (j - 1)] = s[n - (j - 1) + 1]
        BY <3>1 DEF Matches, cur, cell, n
      <3> QED
        BY <1>3, <2>2, <3>1, <3>2
    <2> QED
      BY <2>3, <2>4
  <1> HIDE DEF g, t, cur, cell, n, last
  <1>6. CASE ~last
    <2>1. g.cursor = cur + 1 /\ g.cell = new
      BY <1>4, <1>6
    <2>2. \A j \in 1 .. n + 1 : j <= cur + 1 => new[cur + 1 - j] = t[n + 1 - j + 1]
      BY <1>5
    <2> HIDE DEF new
    <2>3. \A j \in 1 .. Len(t) : j <= g.cursor => g.cell[g.cursor - j] = t[Len(t) - j + 1]
      BY <1>1, <1>2, <1>3, <2>1, <2>2
    <2> QED
      BY <2>3 DEF Matches, g, t
  <1>7. CASE last
    <2>1. g.cursor = (h - 1) * w + 0 /\ g.cell = Scrolled(new)
      BY <1>4, <1>7
    <2> DEFINE top == (h - 1) * w
               all == h * w
    <2>2. top \in Nat /\ all = top + w /\ all = cur + 1 /\ g.cursor = top
      BY <1>1, <1>2, <1>7, <2>1
    <2>3. Scrolled(new) = [k \in Cells |-> IF k >= all THEN new[k] ELSE IF k >= top THEN NUL
                                           ELSE new[k + w]]
      BY DEF Scrolled
    <2> HIDE DEF new, top, all
    <2>4. ASSUME NEW j \in 1 .. n + 1, j <= top
          PROVE  g.cell[top - j] = t[n + 1 - j + 1]
      <3>1. top - j \in Nat /\ top - j < top /\ top - j < all /\ top - j <= cur
        BY <1>1, <1>2, <2>2, <2>4
      <3>2. top - j \in Cells
        BY <1>1, <3>1, CellsBelow
      <3>3. Scrolled(new)[top - j] = new[top - j + w]
        <4>1. ~(top - j >= all) /\ ~(top - j >= top)
          BY <2>2, <3>1
        <4> QED
          BY <2>3, <3>2, <4>1
      <3>4. top - j + w = cur + 1 - j /\ j <= cur + 1
        BY <1>1, <1>2, <2>2, <2>4
      <3> QED
        BY <1>5, <2>1, <3>3, <3>4
    <2>5. \A j \in 1 .. Len(t) : j <= g.cursor => g.cell[g.cursor - j] = t[Len(t) - j + 1]
      BY <1>1, <1>2, <1>3, <2>2, <2>4
    <2> QED
      BY <2>5 DEF Matches, g, t
  <1> QED
    BY <1>6, <1>7

\* Behind a letter backspace goes to that letter, even at the end of the row
\* above: the letter has none of the cells before it empty.
LEMMA BackspaceToLetter ==
    ASSUME NEW f, Tidy(f), f.cursor # 0, f.cell[f.cursor - 1] \in Chars
    PROVE  \E r \in 0 .. VGA_HEIGHT - 1, c \in 0 .. VGA_WIDTH - 1 :
             BackspacePosition(f) = <<r, c>> /\ r * VGA_WIDTH + c = f.cursor - 1
  <1> DEFINE r == Row(f)
             c == Col(f)
             w == VGA_WIDTH
             cell == f.cell
  <1>0. OnScreen(f)
    BY DEF Tidy
  <1>1. /\ r \in 0 .. VGA_HEIGHT - 1 /\ c \in 0 .. w - 1 /\ f.cursor = r * w + c
        /\ w \in Nat \ {0} /\ VGA_HEIGHT \in Nat \ {0} /\ f.cursor \in Nat
    BY <1>0, CursorAt, ScreenAssumption
  <1>2. cell[f.cursor - 1] # NUL /\ cell[f.cursor - 1] # PromptMark
    BY CharAssumption DEF Chars
  <1>3. CASE c # 0
    <2>1. c - 1 \in 0 .. w - 1 /\ r * w + (c - 1) = f.cursor - 1
      BY <1>1, <1>3
    <2>2. framebuffer_getchar(f, r, c - 1) # PromptMark
      BY <1>2, <2>1 DEF framebuffer_getchar
    <2>3. BackspacePosition(f) = <<r, c - 1>>
      BY <1>3, <2>2 DEF BackspacePosition
    <2> QED
      BY <1>1, <2>1, <2>3
  <1>4. CASE c = 0
    <2>1. r # 0
      BY <1>1, <1>4
    <2>2. PICK m \in 0 .. w - 1 :
            /\ BackspacePosition(f) = <<r - 1, m>>
            /\ \A d \in m .. w - 2 : framebuffer_getchar(f, r - 1, d) = NUL
      BY <1>0, <1>4, <2>1, RowAbove
    <2> HIDE DEF r, c, cell
    <2>3. r - 1 \in 0 .. VGA_HEIGHT - 1 /\ (r - 1) * w + (w - 1) = f.cursor - 1
      BY <1>1, <1>4, <2>1
    <2>4. m = w - 1
      <3> SUFFICES ASSUME m # w - 1 PROVE FALSE
        OBVIOUS
      <3>1. m \in m .. w - 2 /\ w - 1 \in m .. w - 1
        BY <1>1, <2>2
      <3>2. framebuffer_getchar(f, r - 1, m) = NUL
        BY <2>2, <3>1
      <3>3. cell[(r - 1) * w + m] = NUL
        BY <3>2 DEF framebuffer_getchar, cell
      <3>4. Tails(cell)
        BY DEF Tidy, cell
      <3>5. cell[(r - 1) * w + (w - 1)] = NUL
        BY <2>2, <2>3, <3>1, <3>3, <3>4 DEF Tails
      <3> QED
        BY <1>2, <2>3, <3>5
    <2> QED
      BY <2>2, <2>3, <2>4
  <1> QED
    BY <1>3, <1>4

LEMMA EchoBackspaceMatches ==
    ASSUME NEW f, Tidy(f), NEW s \in Seq(Chars), s # <<>>, Matches(f, s)
    PROVE  Matches(EchoBackspace(f), Front(s))
  <1> DEFINE g == EchoBackspace(f)
             t == Front(s)
             cur == f.cursor
             cell == f.cell
             n == Len(s)
  <1>0. OnScreen(f) /\ cur \in Nat /\ cur \in Cells
    BY CursorAt DEF Tidy
  <1>1. n \in Nat \ {0}
    BY EmptySeq
  <1>2. t \in Seq(Chars) /\ Len(t) = n - 1 /\ \A i \in 1 .. n - 1 : t[i] = s[i]
    <2>1. \A i \in 1 .. n - 1 : s[i] \in Chars
      <3>1. \A i \in 1 .. n : s[i] \in Chars
        BY ElementOfSeq
      <3>2. \A i \in 1 .. n - 1 : i \in 1 .. n
        BY <1>1
      <3> QED
        BY <3>1, <3>2
    <2>2. n - 1 \in Int /\ 1 \in Int
      BY <1>1
    <2>3. t = SubSeq(s, 1, n - 1)
      BY DEF Front
    <2> HIDE DEF t, n
    <2>4. /\ SubSeq(s, 1, n - 1) \in Seq(Chars)
          /\ Len(SubSeq(s, 1, n - 1)) = IF 1 <= n - 1 THEN n - 1 - 1 + 1 ELSE 0
          /\ \A i \in 1 .. n - 1 - 1 + 1 : SubSeq(s, 1, n - 1)[i] = s[1 + i - 1]
      BY <2>1, <2>2, SubSeqProperties
    <2>5. (IF 1 <= n - 1 THEN n - 1 - 1 + 1 ELSE 0) = n - 1
      <3>1. CASE 1 <= n - 1
        BY <1>1, <3>1
      <3>2. CASE ~(1 <= n - 1)
        BY <1>1, <3>2
      <3> QED
        BY <3>1, <3>2
    <2>6. \A i \in 1 .. n - 1 : i \in 1 .. n - 1 - 1 + 1 /\ 1 + i - 1 = i
      BY <1>1
    <2> QED
      BY <2>3, <2>4, <2>5, <2>6
  <1>3. CASE cur = 0
    <2>1. BackspacePosition(f) = <<0, 0>>
      <3>1. \A w \in Nat \ {0} : 0 \div w = 0 /\ 0 % w = 0
        OBVIOUS
      <3>2. Row(f) = 0 /\ Col(f) = 0
        BY <1>0, <1>3, <3>1, CursorAt, ScreenAssumption
      <3> QED
        BY <3>2 DEF BackspacePosition
    <2>2. 0 \in 0 .. VGA_HEIGHT - 1 /\ 0 \in 0 .. VGA_WIDTH - 1 /\ 0 * VGA_WIDTH + 0 = 0
      BY ScreenAssumption
    <2>3. g.cursor = 0
      BY <1>0, <2>1, <2>2, EchoBackspaceFields
    <2> HIDE DEF g, t, n
    <2>4. \A j \in 1 .. Len(t) : ~(j <= g.cursor)
      BY <1>1, <1>2, <2>3
    <2> QED
      BY <2>4 DEF Matches, g, t
  <1>4. CASE cur # 0
    <2>1. cell[cur - 1] = s[n] /\ s[n] \in Chars
      <3>1. 1 \in 1 .. n /\ 1 <= cur /\ n - 1 + 1 = n
        BY <1>0, <1>1, <1>4
      <3>2. cell[cur - 1] = s[n - 1 + 1]
        BY <3>1 DEF Matches
      <3>3. s[n] \in Chars
        BY <1>1, ElementOfSeq
      <3> QED
        BY <3>1, <3>2, <3>3
    <2>2. PICK r \in 0 .. VGA_HEIGHT - 1, c \in 0 .. VGA_WIDTH - 1 :
            BackspacePosition(f) = <<r, c>> /\ r * VGA_WIDTH + c = cur - 1
      BY <1>4, <2>1, BackspaceToLetter
    <2>3. g = [cell |-> Written(cell, cur - 1, NUL), cursor |-> cur - 1]
      <3>1. g = [cell |-> Written(cell, r * VGA_WIDTH + c, NUL), cursor |-> r * VGA_WIDTH + c]
        BY <1>0, <2>2, EchoBackspaceFields
      <3> QED
        BY <2>2, <3>1
    <2> DEFINE new == Written(cell, cur - 1, NUL)
    <2>4. ASSUME NEW j \in 1 .. n - 1, j <= cur - 1
          PROVE  new[cur - 1 - j] = t[n - 1 - j + 1]
      <3>1. /\ j + 1 \in 1 .. n /\ j + 1 <= cur /\ cur - (j + 1) = cur - 1 - j
            /\ n - (j + 1) + 1 = n - 1 - j + 1 /\ n - 1 - j + 1 \in 1 .. n - 1
            /\ cur - 1 - j \in Nat /\ cur - 1 - j <= cur /\ cur - 1 - j # cur - 1
        BY <1>0, <1>1, <2>4
      <3>2. cell[cur - (j + 1)] = s[n - (j + 1) + 1]
        BY <3>1 DEF Matches
      <3>3. cur - 1 - j \in Cells
        BY <1>0, <3>1, CellsBelow
      <3>4. new[cur - 1 - j] = cell[cur - 1 - j]
        BY <3>1, <3>3 DEF Written
      <3> QED
        BY <1>2, <3>1, <3>2, <3>4
    <2>5. g.cursor = cur - 1 /\ g.cell = new
      BY <2>3
    <2> HIDE DEF g, t, n, cur, new
    <2>6. \A j \in 1 .. n - 1 : j <= cur - 1 => new[cur - 1 - j] = t[n - 1 - j + 1]
      BY <2>4
    <2>7. \A j \in 1 .. Len(t) : j <= g.cursor => g.cell[g.cursor - j] = t[Len(t) - j + 1]
      BY <1>2, <2>5, <2>6
    <2> QED
      BY <2>7 DEF Matches, g, t
  <1> QED
    BY <1>3, <1>4

-----------------------------------------------------------------------------
(***************************************************************************)
(* What the shell prints                                                   *)
(***************************************************************************)
\* What the shell prints leaves the cursor on the screen: nothing is written
\* into its last cell, where puts_buff does not stop (PutChar).
PutsStay == \A s \in Outputs : Puts(s) => OnScreen(fb')

\* And it leaves no gaps in the rows.
PutsTidy == \A s \in Outputs : Puts(s) /\ Tidy(fb) => Tidy(fb')

LEMMA InitTidy == Init => Tidy(fb)
  <1> SUFFICES ASSUME Init PROVE Tidy(fb)
    OBVIOUS
  <1> DEFINE cells == [k \in Cells |-> NUL]
  <1>1. 0 \in 0 .. VGA_HEIGHT - 1 /\ 0 \in 0 .. VGA_WIDTH - 1 /\ 0 * VGA_WIDTH + 0 = 0
    BY ScreenAssumption
  <1>2. fb = [cell |-> cells, cursor |-> 0 * VGA_WIDTH + 0]
    BY <1>1 DEF Init, framebuffer_clear
  <1>3. \A r \in 0 .. VGA_HEIGHT - 1, c \in 0 .. VGA_WIDTH - 1 : cells[r * VGA_WIDTH + c] = NUL
    BY CellAt
  <1>4. cells = [k \in Cells |-> cells[k]]
    OBVIOUS
  <1> HIDE DEF cells
  <1>5. Tails(cells) /\ Ends(cells, 0, 0)
    <2>1. Tails(cells)
      <3> SUFFICES ASSUME NEW r \in 0 .. VGA_HEIGHT - 1, NEW c \in 0 .. VGA_WIDTH - 1,
                          NEW d \in c .. VGA_WIDTH - 1
                   PROVE  cells[r * VGA_WIDTH + d] = NUL
        BY DEF Tails
      <3>1. d \in 0 .. VGA_WIDTH - 1
        OBVIOUS
      <3> QED
        BY <1>3, <3>1
    <2>2. Ends(cells, 0, 0)
      BY <1>3 DEF Ends
    <2> QED
      BY <2>1, <2>2
  <1> QED
    BY <1>1, <1>2, <1>4, <1>5, TidyTo

\* The characters the keyboard echoes are not NUL.
LEMMA CharNotNul ==
    ASSUME TypeOK, port \in Letters
    PROVE  CharOf(keyboard_state, port) \in Chars /\ CharOf(keyboard_state, port) # NUL
  <1>1. CharOf(keyboard_state, port) \in Chars
    BY DEF CharOf, Chars, TypeOK
  <1> QED
    BY <1>1, CharAssumption DEF Chars

\* Every key, and every output that does, keeps the cursor on the screen and the
\* screen tidy.
LEMMA StepOnScreen ==
    ASSUME TypeOK, OnScreen(fb), [Next]_vars
    PROVE  /\ [PutsStay]_vars => OnScreen(fb)'
           /\ [PutsTidy]_vars /\ Tidy(fb) => Tidy(fb)'
  <1>1. ASSUME UNCHANGED fb PROVE OnScreen(fb') /\ (Tidy(fb) => Tidy(fb'))
    BY <1>1
  <1>2. ASSUME NEW s \in Outputs, Puts(s), ~UNCHANGED fb
        PROVE  /\ [PutsStay]_vars => OnScreen(fb')
               /\ [PutsTidy]_vars /\ Tidy(fb) => Tidy(fb')
    BY <1>2 DEF PutsStay, PutsTidy, vars
  <1>3. ASSUME keyboard_isr, ~UNCHANGED fb PROVE OnScreen(fb') /\ (Tidy(fb) => Tidy(fb'))
    <2>1. ProcessKey(port)
      BY <1>3 DEF keyboard_isr, IgnoreKey
    <2>2. CASE BackspaceKey
      <3>1. fb' = EchoBackspace(fb)
        BY <2>2 DEF BackspaceKey
      <3> QED
        BY <3>1, EchoBackspaceTidy
    <2>3. CASE EnterKey
      <3>1. fb' = LineFeed(fb)
        BY <2>3 DEF EnterKey
      <3> QED
        BY <3>1, LineFeedTidy
    <2>4. CASE port \in Letters /\ CharKey(port)
      <3> DEFINE char == CharOf(keyboard_state, port)
      <3>1. fb' = EchoChar(fb, char) /\ char # NUL
        BY <2>4, CharNotNul DEF CharKey
      <3> HIDE DEF char
      <3> QED
        BY <3>1, EchoCharTidy
    <2> QED
      BY <1>3, <2>1, <2>2, <2>3, <2>4 DEF ProcessKey, ModifierKey
  <1>4. keyboard_isr \/ UNCHANGED fb \/ \E s \in Outputs : Puts(s)
    BY DEF Next, Press, StartLine, Syscall4, SeeEnter, CopyByte, ReturnLine, vars
  <1>5. /\ [PutsStay]_vars => OnScreen(fb')
        /\ [PutsTidy]_vars /\ Tidy(fb) => Tidy(fb')
    BY <1>1, <1>2, <1>3, <1>4
  <1> QED
    BY <1>5 DEF OnScreen, IsScreen, Tidy, Row, Col

\* No key the user hits takes the cursor off the screen, however the line wraps,
\* scrolls and is erased again: if the cursor leaves the screen, the shell has
\* printed into the last cell.
THEOREM CursorStays == Spec /\ [][PutsStay]_vars => []CursorOnScreen
  <1> DEFINE I == IInv /\ OnScreen(fb)
  <1>1. Init => I
    BY InitIInv, InitTidy DEF Tidy
  <1>2. I /\ [Next]_vars /\ [PutsStay]_vars => I'
    <2> SUFFICES ASSUME I, [Next]_vars, [PutsStay]_vars PROVE I'
      OBVIOUS
    <2>1. IInv' /\ TypeOK
      BY StepIInv DEF IInv
    <2> QED
      BY <2>1, StepOnScreen
  <1>3. I => CursorOnScreen
    BY ScreenAssumption DEF OnScreen, CursorOnScreen
  <1> QED
    BY <1>1, <1>2, <1>3, PTL DEF Spec

Echoing == pc = "waiting" /\ keyboard_state.keyboard_input_on

EchoInv == Tidy(fb) /\ (Echoing => Matches(fb, typed))

LEMMA IsrEcho ==
    ASSUME TypeOK, LineInv, EchoInv, keyboard_isr, Echoing'
    PROVE  Matches(fb', typed')
  <1>1. pc = "waiting" /\ keyboard_state'.keyboard_input_on
    BY DEF keyboard_isr, Echoing
  <1>2. keyboard_state.keyboard_input_on
    <2> SUFFICES ASSUME ~keyboard_state.keyboard_input_on PROVE FALSE
      OBVIOUS
    <2>1. keyboard_state' = [keyboard_state EXCEPT !.keyboard_buffer = NoLine, !.buffer_index = 0]
      BY DEF keyboard_isr, IgnoreKey, reset_buffer
    <2>2. keyboard_state'.keyboard_input_on = keyboard_state.keyboard_input_on
      BY <2>1 DEF TypeOK
    <2> QED
      BY <1>1, <2>2
  <1>3. ProcessKey(port) /\ Matches(fb, typed) /\ Tidy(fb) /\ OnScreen(fb) /\ typed \in Seq(Chars)
    BY <1>1, <1>2 DEF keyboard_isr, EchoInv, Echoing, Tidy, LineInv
  <1>4. CASE ModifierKey(port)
    <2>1. fb' = fb /\ typed' = typed
      BY <1>4 DEF ModifierKey
    <2> QED
      BY <1>3, <2>1
  <1>5. CASE BackspaceKey
    <2>1. fb' = EchoBackspace(fb) /\ typed' = IF typed = <<>> THEN typed ELSE Front(typed)
      BY <1>5 DEF BackspaceKey
    <2>2. CASE typed = <<>>
      <3>1. typed' = <<>>
        BY <2>1, <2>2
      <3>2. \A j \in 1 .. Len(typed') : FALSE
        BY <3>1
      <3> QED
        BY <3>2 DEF Matches
    <2>3. CASE typed # <<>>
      <3>1. Matches(EchoBackspace(fb), Front(typed))
        BY <1>3, <2>3, EchoBackspaceMatches
      <3> QED
        BY <2>1, <2>3, <3>1
    <2> QED
      BY <2>2, <2>3
  <1>6. CASE EnterKey
    <2>1. keyboard_state' = [keyboard_state EXCEPT !.keyboard_input_on = FALSE]
      BY <1>6 DEF EnterKey, keyboard_state_deactivate
    <2>2. ~keyboard_state'.keyboard_input_on
      BY <2>1 DEF TypeOK
    <2> QED
      BY <1>1, <2>2
  <1>7. CASE port \in Letters /\ CharKey(port)
    <2> DEFINE char == CharOf(keyboard_state, port)
    <2>1. fb' = EchoChar(fb, char) /\ typed' = Append(typed, char) /\ char \in Chars
      BY <1>7, CharNotNul DEF CharKey
    <2> HIDE DEF char
    <2>2. Matches(EchoChar(fb, char), Append(typed, char))
      BY <1>3, <2>1, EchoCharMatches
    <2> QED
      BY <2>1, <2>2
  <1> QED
    BY <1>3, <1>4, <1>5, <1>6, <1>7 DEF ProcessKey

LEMMA StepEcho ==
    ASSUME IInv, LineInv, EchoInv, [Next]_vars, [PutsTidy]_vars
    PROVE  EchoInv'
  <1>0. TypeOK /\ OnScreen(fb) /\ Tidy(fb)
    BY DEF IInv, EchoInv, Tidy
  <1>1. Tidy(fb)'
    BY <1>0, StepOnScreen
  <1>2. ASSUME Echoing' PROVE Matches(fb', typed')
    <2>1. CASE keyboard_isr
      BY <1>0, <1>2, <2>1, IsrEcho
    <2>2. CASE StartLine
      <3>1. typed' = <<>>
        BY <2>2 DEF StartLine
      <3>2. \A j \in 1 .. Len(typed') : FALSE
        BY <3>1
      <3> QED
        BY <3>2 DEF Matches
    <2>3. CASE UNCHANGED <<fb, typed, pc, keyboard_state>>
      <3>1. Echoing
        BY <1>2, <2>3 DEF Echoing
      <3> QED
        BY <2>3, <3>1 DEF EchoInv
    <2>4. CASE (\E s \in Outputs : Puts(s)) \/ SeeEnter \/ ReturnLine
      BY <1>2, <2>4 DEF Puts, SeeEnter, ReturnLine, Echoing
    <2> QED
      BY <2>1, <2>2, <2>3, <2>4 DEF Next, Press, Syscall4, CopyByte, vars
  <1>3. EchoInv' <=> Tidy(fb)' /\ (Echoing' => Matches(fb', typed'))
    BY DEF EchoInv, Matches
  <1> QED
    BY <1>1, <1>2, <1>3

\* While a line is typed and corrected, what stands before the cursor is that
\* line, over line ends and while the screen scrolls: backspace takes the same
\* character off the screen that it takes out of the buffer.
THEOREM EchoIsLine == Spec /\ [][PutsTidy]_vars => []EchoMatches
  <1> DEFINE I == IInv /\ LineInv /\ EchoInv
  <1>1. Init => I
    BY InitIInv, InitLineInv, InitTidy DEF Init, EchoInv, Echoing
  <1>2. I /\ [Next]_vars /\ [PutsTidy]_vars => I'
    <2> SUFFICES ASSUME I, [Next]_vars, [PutsTidy]_vars PROVE I'
      OBVIOUS
    <2>1. IInv' /\ LineInv'
      BY StepIInv, StepLineInv
    <2>2. EchoInv'
      BY StepEcho
    <2> QED
      BY <2>1, <2>2
  <1>3. I => EchoMatches
    BY DEF EchoInv, Echoing, Matches, EchoMatches
  <1> QED
    BY <1>1, <1>2, <1>3, PTL DEF Spec

-----------------------------------------------------------------------------
(***************************************************************************)
(* Prompts                                                                 *)
(***************************************************************************)
\* g is what puts_buff computes on the characters of s at the places of a set.
PutsFunction(f, s, n, g) ==
    g = [T \in SUBSET (1 .. n) |->
           IF T = {} THEN f ELSE PutChar(g[T \ {Max(T)}], s[Max(T)])]

LEMMA MaxUpTo ==
    ASSUME NEW n \in Nat, NEW T \in SUBSET (1 .. n), n \in T
    PROVE  Max(T) = n
  <1>1. \A x \in T : x \in Nat /\ n >= x
    OBVIOUS
  <1>2. \A x \in T : (\A y \in T : x >= y) => x = n
    BY <1>1
  <1> QED
    BY <1>1, <1>2 DEF Max

LEMMA PutsFunctionExists ==
    ASSUME NEW f, NEW s, NEW n \in Nat
    PROVE  \E g : PutsFunction(f, s, n, g)
  <1> DEFINE K == {m \in 0 .. n : ~\E g : PutsFunction(f, s, m, g)}
  <1> SUFFICES ASSUME K # {} PROVE FALSE
    BY DEF K
  <1>1. PICK m \in K : \A k \in K : m <= k
    <2>1. K \in SUBSET Nat
      OBVIOUS
    <2> HIDE DEF K
    <2> QED
      BY <2>1, MinNat
  <1>2. m \in 0 .. n /\ ~\E g : PutsFunction(f, s, m, g)
    BY <1>1
  <1>3. m # 0
    <2> SUFFICES ASSUME m = 0 PROVE FALSE
      OBVIOUS
    <2> DEFINE g == [T \in SUBSET (1 .. m) |-> f]
    <2>1. \A T \in SUBSET (1 .. m) : T = {}
      OBVIOUS
    <2>2. g = [T \in SUBSET (1 .. m) |->
                 IF T = {} THEN f ELSE PutChar(g[T \ {Max(T)}], s[Max(T)])]
      BY <2>1
    <2> HIDE DEF g
    <2> QED
      BY <1>2, <2>2 DEF PutsFunction
  <1>4. PICK g : PutsFunction(f, s, m - 1, g)
    <2>1. m - 1 \in 0 .. n /\ ~(m <= m - 1)
      BY <1>2, <1>3
    <2>2. m - 1 \notin K
      BY <1>1, <2>1
    <2> QED
      BY <2>1, <2>2
  <1> DEFINE h == [T \in SUBSET (1 .. m) |->
                     IF m \in T THEN PutChar(g[T \ {m}], s[m]) ELSE g[T]]
  <1>5. ASSUME NEW T \in SUBSET (1 .. m)
        PROVE  h[T] = IF T = {} THEN f ELSE PutChar(h[T \ {Max(T)}], s[Max(T)])
    <2>0. m \in Nat
      BY <1>2
    <2>1. \A U \in SUBSET (1 .. m) : m \notin U => U \in SUBSET (1 .. m - 1) /\ h[U] = g[U]
      BY <2>0
    <2>2. \A U \in SUBSET (1 .. m - 1) :
            g[U] = IF U = {} THEN f ELSE PutChar(g[U \ {Max(U)}], s[Max(U)])
      BY <1>4 DEF PutsFunction
    <2>3. h[T] = IF m \in T THEN PutChar(g[T \ {m}], s[m]) ELSE g[T]
      OBVIOUS
    <2> HIDE DEF h
    <2>4. CASE m \in T
      <3>1. Max(T) = m
        BY <2>0, <2>4, MaxUpTo
      <3>2. h[T \ {m}] = g[T \ {m}]
        BY <2>1
      <3> QED
        BY <2>3, <2>4, <3>1, <3>2
    <2>5. CASE m \notin T
      <3>1. h[T] = IF T = {} THEN f ELSE PutChar(g[T \ {Max(T)}], s[Max(T)])
        BY <2>1, <2>2, <2>5
      <3>2. h[T \ {Max(T)}] = g[T \ {Max(T)}]
        BY <2>1, <2>5
      <3> QED
        BY <3>1, <3>2
    <2> QED
      BY <2>4, <2>5
  <1>6. PutsFunction(f, s, m, h)
    <2>1. h = [T \in SUBSET (1 .. m) |-> h[T]]
      OBVIOUS
    <2> HIDE DEF h
    <2>2. [T \in SUBSET (1 .. m) |-> h[T]] =
            [T \in SUBSET (1 .. m) |-> IF T = {} THEN f ELSE PutChar(h[T \ {Max(T)}], s[Max(T)])]
      BY <1>5
    <2> QED
      BY <2>1, <2>2 DEF PutsFunction
  <1> QED
    BY <1>2, <1>6

\* puts_buff puts the characters one after the other.
LEMMA PutsSteps ==
    ASSUME NEW f, NEW s, NEW n \in Nat, DOMAIN s = 1 .. n
    PROVE  \E h : /\ h[0] = f
                  /\ \A i \in 1 .. n : h[i] = PutChar(h[i - 1], s[i])
                  /\ puts_buff(f, s) = h[n]
  <1> DEFINE g == CHOOSE e : PutsFunction(f, s, n, e)
             h == [i \in 0 .. n |-> g[1 .. i]]
  <1>1. puts_buff(f, s) = g[1 .. n]
    BY DEF puts_buff, FoldLeft, MapThenFoldSet, PutsFunction
  <1>2. PutsFunction(f, s, n, g)
    BY PutsFunctionExists
  <1> HIDE DEF g
  <1>3. \A T \in SUBSET (1 .. n) :
          g[T] = IF T = {} THEN f ELSE PutChar(g[T \ {Max(T)}], s[Max(T)])
    BY <1>2 DEF PutsFunction
  <1>4. h[0] = f
    <2>1. 1 .. 0 = {} /\ 1 .. 0 \in SUBSET (1 .. n) /\ 0 \in 0 .. n
      OBVIOUS
    <2> QED
      BY <1>3, <2>1
  <1>5. ASSUME NEW i \in 1 .. n PROVE h[i] = PutChar(h[i - 1], s[i])
    <2>1. i \in Nat /\ i \in 1 .. i /\ 1 .. i \in SUBSET (1 .. n) /\ 1 .. i # {}
      <3>1. i \in Nat /\ i >= 1 /\ i <= n
        OBVIOUS
      <3>2. i \in 1 .. i
        BY <3>1
      <3>3. \A k \in 1 .. i : k \in 1 .. n
        BY <3>1
      <3> QED
        BY <3>1, <3>2, <3>3
    <2>2. Max(1 .. i) = i
      BY <2>1, MaxUpTo
    <2>3. (1 .. i) \ {i} = 1 .. i - 1 /\ i \in 0 .. n /\ i - 1 \in 0 .. n
      BY <2>1
    <2>4. g[1 .. i] = PutChar(g[1 .. i - 1], s[i])
      BY <1>3, <2>1, <2>2, <2>3
    <2> QED
      BY <2>3, <2>4
  <1>6. h[n] = g[1 .. n]
    OBVIOUS
  <1> QED
    BY <1>1, <1>4, <1>5, <1>6

\* A prompt on a line of its own: a line feed and characters that leave room in
\* the line.
IsPrompt(s) ==
    \E n \in 1 .. VGA_WIDTH :
        /\ DOMAIN s = 1 .. n
        /\ s[1] = NEWLINE
        /\ \A i \in 2 .. n : s[i] \notin {NEWLINE, NUL}

\* Before the last column puts_buff and the service routine do the same.
LEMMA PutCharInRow ==
    ASSUME NEW f, OnScreen(f), Col(f) # VGA_WIDTH - 1, NEW char, char \notin {NEWLINE, NUL}
    PROVE  LET g == PutChar(f, char)
           IN  OnScreen(g) /\ Col(g) = Col(f) + 1 /\ (Tidy(f) => Tidy(g))
  <1> DEFINE r == Row(f)
             c == Col(f)
             g == EchoChar(f, char)
             new == Written(f.cell, f.cursor, char)
  <1>1. ~AtLastCell(f)
    BY DEF AtLastCell
  <1>2. PutChar(f, char) = g
    BY <1>1 DEF PutChar, EchoChar
  <1>3. OnScreen(g) /\ (Tidy(f) => Tidy(g))
    BY EchoCharTidy
  <1>4. /\ r \in 0 .. VGA_HEIGHT - 1 /\ c \in 0 .. VGA_WIDTH - 1 /\ f.cursor = r * VGA_WIDTH + c
        /\ VGA_WIDTH \in Nat \ {0} /\ VGA_HEIGHT \in Nat \ {0}
    BY CursorAt, ScreenAssumption
  <1>5. g = [cell |-> new, cursor |-> f.cursor + 1] /\ new = [k \in Cells |-> new[k]]
    BY <1>1, EchoCharFields, CellsOf
  <1> HIDE DEF r, c, g, new
  <1>6. c + 1 \in 0 .. VGA_WIDTH - 1 /\ f.cursor + 1 = r * VGA_WIDTH + (c + 1)
    BY <1>4 DEF c
  <1>7. Col(g) = c + 1
    BY <1>4, <1>5, <1>6, CursorTo
  <1> QED
    BY <1>2, <1>3, <1>7 DEF c

LEMMA LineFeedCol ==
    ASSUME NEW f, OnScreen(f)
    PROVE  Col(LineFeed(f)) = 0
  <1> DEFINE r == Row(f)
             g == LineFeed(f)
  <1>1. OnScreen(g) /\ r \in Nat /\ VGA_WIDTH \in Nat \ {0}
    BY LineFeedTidy, CursorAt, ScreenAssumption
  <1>2. g.cursor = r * VGA_WIDTH + 0 \/ g.cursor = (r + 1) * VGA_WIDTH + 0
    BY LineFeedFields
  <1> HIDE DEF r, g
  <1>3. 0 \in 0 .. VGA_WIDTH - 1 /\ r + 1 \in Nat
    BY <1>1
  <1>4. (r * VGA_WIDTH + 0) % VGA_WIDTH = 0 /\ ((r + 1) * VGA_WIDTH + 0) % VGA_WIDTH = 0
    BY <1>1, <1>3, RowCol
  <1> QED
    BY <1>2, <1>4 DEF Col, g

LEMMA PromptKeeps ==
    ASSUME NEW s, IsPrompt(s), NEW f, OnScreen(f)
    PROVE  OnScreen(puts_buff(f, s)) /\ (Tidy(f) => Tidy(puts_buff(f, s)))
  <1>1. PICK n \in 1 .. VGA_WIDTH : /\ DOMAIN s = 1 .. n
                                    /\ s[1] = NEWLINE
                                    /\ \A i \in 2 .. n : s[i] \notin {NEWLINE, NUL}
    BY DEF IsPrompt
  <1>2. n \in Nat /\ n >= 1 /\ n <= VGA_WIDTH /\ VGA_WIDTH \in Nat
    BY <1>1, ScreenAssumption
  <1>3. PICK h : /\ h[0] = f
                 /\ \A i \in 1 .. n : h[i] = PutChar(h[i - 1], s[i])
                 /\ puts_buff(f, s) = h[n]
    <2>1. DOMAIN s = 1 .. n /\ n \in Nat
      BY <1>1, <1>2
    <2> QED
      BY ONLY <2>1, PutsSteps
  <1> DEFINE Good(i) == /\ OnScreen(h[i]) /\ Col(h[i]) = i - 1
                        /\ Tidy(f) => Tidy(h[i])
             K == {i \in 1 .. n : ~Good(i)}
  <1>4. Good(1)
    <2>1. h[1] = LineFeed(f)
      <3>1. 1 \in 1 .. n /\ 1 - 1 = 0
        BY <1>2
      <3>2. h[1] = PutChar(f, NEWLINE)
        BY <1>1, <1>3, <3>1
      <3> QED
        BY <3>2 DEF PutChar
    <2> QED
      BY <2>1, LineFeedTidy, LineFeedCol
  <1>5. ASSUME NEW i \in 2 .. n, Good(i - 1) PROVE Good(i)
    <2>1. i - 1 - 1 # VGA_WIDTH - 1 /\ i - 1 - 1 + 1 = i - 1 /\ i \in 1 .. n
      BY <1>2
    <2>2. h[i] = PutChar(h[i - 1], s[i]) /\ s[i] \notin {NEWLINE, NUL}
      BY <1>1, <1>3, <2>1
    <2>3. OnScreen(h[i - 1]) /\ Col(h[i - 1]) = i - 1 - 1 /\ (Tidy(f) => Tidy(h[i - 1]))
      BY <1>5
    <2>4. OnScreen(h[i]) /\ Col(h[i]) = Col(h[i - 1]) + 1 /\ (Tidy(h[i - 1]) => Tidy(h[i]))
      BY <2>1, <2>2, <2>3, PutCharInRow
    <2> QED
      BY <2>1, <2>3, <2>4
  <1> HIDE DEF Good
  <1>6. K = {}
    <2> SUFFICES ASSUME K # {} PROVE FALSE
      OBVIOUS
    <2>1. PICK m \in K : \A k \in K : m <= k
      <3>1. K \in SUBSET Nat
        OBVIOUS
      <3> HIDE DEF K
      <3> QED
        BY <3>1, MinNat
    <2>2. m \in 1 .. n /\ ~Good(m)
      BY <2>1
    <2>3. m # 1
      BY <1>4, <2>2
    <2>4. m \in 2 .. n /\ m - 1 \in 1 .. n /\ ~(m <= m - 1)
      BY <2>2, <2>3
    <2>5. Good(m - 1)
      BY <2>1, <2>4
    <2> QED
      BY <1>5, <2>2, <2>4, <2>5
  <1>7. Good(n)
    BY <1>2, <1>6
  <1> QED
    BY <1>3, <1>7 DEF Good

\* With a shell that prints nothing but such prompts, the cursor stays on the
\* screen and the line typed is the line before it.
THEOREM PromptsAreSafe ==
    ASSUME \A s \in Outputs : IsPrompt(s)
    PROVE  Spec => []CursorOnScreen /\ []EchoMatches
  <1> DEFINE I == IInv /\ LineInv /\ EchoInv
  <1>1. Init => I
    BY InitIInv, InitLineInv, InitTidy DEF Init, EchoInv, Echoing
  <1>2. I /\ [Next]_vars => I'
    <2> SUFFICES ASSUME I, [Next]_vars PROVE I'
      OBVIOUS
    <2>1. IInv' /\ LineInv' /\ OnScreen(fb)
      BY StepIInv, StepLineInv DEF EchoInv, Tidy
    <2>2. PutsTidy
      BY <2>1, PromptKeeps DEF PutsTidy, Puts
    <2>3. EchoInv'
      BY <2>2, StepEcho
    <2> QED
      BY <2>1, <2>3
  <1>3. I => CursorOnScreen /\ EchoMatches
    BY ScreenAssumption
       DEF EchoInv, Tidy, OnScreen, CursorOnScreen, Echoing, Matches, EchoMatches
  <1> QED
    BY <1>1, <1>2, <1>3, PTL DEF Spec
=============================================================================

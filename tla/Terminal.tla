------------------------------ MODULE Terminal ------------------------------
(***************************************************************************)
(* What is on the screen: AWD's console, which has it first, then Lobo's   *)
(* log on the VGA device, written by every thread, and the line editor of  *)
(* the kernel debugger, which reads the keyboard and echoes to the log.    *)
(*                                                                         *)
(* A call of the log is the sequence of device calls it makes: characters  *)
(* ("ch" stands for any that prints, "nl" for '\n', "bs" for '\b') and     *)
(* FormatSetLeftColumn ("in" and "out"); "process" is where the debugger   *)
(* looks at the line it has read.  PrintChar is split into its             *)
(* statements; nothing keeps a tick from switching to another thread       *)
(* between two of them.  A cell of the screen is TRUE when it shows ink.   *)
(***************************************************************************)
EXTENDS Integers, Sequences, FiniteSets

CONSTANTS Width, Height,  \* 80 and 25 in the code
          Margin,         \* 13, FormatSetLeftColumn in LogArg
          Threads,        \* the threads that use the log
          Keyboard,       \* the one that reads the keyboard, k/keyboard
          Messages,       \* what vprintf makes of a Log's format
          Letters,        \* keys that type a character
          ExitCommand,    \* "exit"
          LineMax,        \* bytes of input_buffer, 100 in the code
          MaxCalls,       \* bound: calls of the consoles
          MaxKeys,        \* bound: keys typed at one prompt
          MaxBusy         \* environment: threads inside PrintChar at once

ASSUME SizesAssumption ==
    /\ Width \in Nat \ {0} /\ Height \in Nat \ {0, 1} /\ LineMax \in Nat \ {0, 1}
    /\ Margin \in 0 .. (Width - 1) /\ MaxCalls \in Nat /\ MaxKeys \in Nat /\ MaxBusy \in Nat \ {0}

Awd == "awd"
Ops == {"ch", "nl", "bs", "in", "out", "process"}

ASSUME NamesAssumption ==
    /\ Keyboard \in Threads /\ Awd \notin Threads
    /\ Messages \subseteq Seq({"ch", "nl"})
    /\ "bs" \notin Letters /\ "nul" \notin Letters /\ ExitCommand \in Seq(Letters)

VARIABLES
    lobo,          \* Lobo has been entered
    screen,        \* the text buffer, by y * Width + x
    x, y,          \* console.x and y, then the VGA device's
    leftColumn,    \* the device's left column
    todo,          \* device calls each writer has still to make
    at, offset,    \* where each thread is in PrintChar, and its local offset
    open,          \* the debugger has suspended scheduling
    input_buffer, input_index,
    typed,         \* history: keys typed since the prompt
    live,          \* history: ink stored, less ink erased or scrolled away
    calls

vars == <<lobo, screen, x, y, leftColumn, todo, at, offset, open, input_buffer,
          input_index, typed, live, calls>>
editor == <<input_buffer, input_index, typed>>

Cells == 0 .. (Width * Height - 1)
Row(n) == {c \in Cells : c \div Width = n}
Ink(cells) == Cardinality({c \in cells : screen[c]})
EmptyLine == [n \in 0 .. (LineMax - 1) |-> "nul"]

\* console_init, which clears the screen
Init ==
    /\ lobo = FALSE
    /\ screen = [c \in Cells |-> FALSE]
    /\ x = 0 /\ y = 0 /\ leftColumn = 0
    /\ todo = [t \in Threads \union {Awd} |-> <<>>]
    /\ at = [t \in Threads |-> "out"] /\ offset = [t \in Threads |-> 0]
    /\ open = FALSE
    /\ input_buffer = EmptyLine /\ input_index = 0 /\ typed = <<>>
    /\ live = 0 /\ calls = 0

-----------------------------------------------------------------------------
(* AWD's console *)

\* the screen moved up by one row, and the row that was last
MovedUp(s) == [c \in Cells |-> IF c + Width \in Cells THEN s[c + Width] ELSE s[c]]
BlankLast(s) == [c \in Cells |-> s[c] /\ c \notin Row(Height - 1)]

\* a line of AWD's: log_info and the others print whole lines
AwdLine ==
    /\ ~lobo /\ todo[Awd] = <<>> /\ calls < MaxCalls
    /\ \E m \in Messages : todo' = [todo EXCEPT ![Awd] = Append(m, "nl")]
    /\ calls' = calls + 1
    /\ UNCHANGED <<lobo, screen, x, y, leftColumn, at, offset, open, editor, live>>

\* console_newline on the screen s
console_newline(s) ==
    /\ x' = 0
    /\ y' = IF y + 1 >= Height THEN Height - 1 ELSE y + 1
    /\ screen' = IF y + 1 >= Height THEN BlankLast(MovedUp(s)) ELSE s

\* console_print_char and console_write_char
console_print_char ==
    /\ ~lobo /\ todo[Awd] # <<>>
    /\ todo' = [todo EXCEPT ![Awd] = Tail(@)]
    /\ LET prints == Head(todo[Awd]) = "ch"
           s == [screen EXCEPT ![y * Width + x] = @ \/ prints]
           newline == ~prints \/ x + 1 >= Width
       IN  /\ IF newline THEN console_newline(s)
              ELSE x' = x + 1 /\ screen' = s /\ UNCHANGED y
           /\ live' = live + (IF prints THEN 1 ELSE 0)
                           - (IF newline /\ y + 1 >= Height
                              THEN Cardinality({c \in Row(0) : s[c]}) ELSE 0)
    /\ UNCHANGED <<lobo, leftColumn, at, offset, open, editor, calls>>

\* log_cursor_y
log_cursor_y == y

\* kernel_early: boot_vga_console_device.Init(0, log_cursor_y)
EnterLobo ==
    /\ ~lobo /\ todo[Awd] = <<>>
    /\ lobo' = TRUE
    /\ x' = 0 /\ y' = log_cursor_y
    /\ UNCHANGED <<screen, leftColumn, todo, at, offset, open, editor, live, calls>>

-----------------------------------------------------------------------------
(* The log *)

\* Threads inside PrintChar.
Inside == {t \in Threads : at[t] # "out"}

\* t may execute: ticks switch threads unless the debugger suspended that, and
\* inside PrintChar while fewer than MaxBusy threads are in it
Runs(t) ==
    /\ lobo /\ (open => t = Keyboard)
    /\ Cardinality(Inside) >= MaxBusy => t \in Inside
Ready(t) == Runs(t) /\ todo[t] = <<>>
Idle(t) == Ready(t) /\ calls < MaxCalls

\* Faulty variant: the left column is not put back.
LogArgNoReset(m) == <<"ch", "in">> \o m \o <<"nl">>

\* LogArg: the category, the left column, the message, and the end of the line
LogArg(m) == <<"ch", "in">> \o m \o <<"out", "nl">>

Log(t) ==
    /\ Idle(t) /\ ~open
    /\ \E m \in Messages : todo' = [todo EXCEPT ![t] = LogArg(m)]
    /\ calls' = calls + 1
    /\ UNCHANGED <<lobo, screen, x, y, leftColumn, at, offset, open, editor, live>>

\* thread_read_keyboard echoes what is typed
WriteChar ==
    /\ Idle(Keyboard) /\ ~open
    /\ \E c \in {"ch", "nl", "bs"} : todo' = [todo EXCEPT ![Keyboard] = <<c>>]
    /\ calls' = calls + 1
    /\ UNCHANGED <<lobo, screen, x, y, leftColumn, at, offset, open, editor, live>>

\* log::FormatSetLeftColumn and the device's
FormatSetLeftColumn(t) ==
    /\ Runs(t) /\ todo[t] # <<>> /\ Head(todo[t]) \in {"in", "out"}
    /\ leftColumn' = IF Head(todo[t]) = "in" THEN Margin ELSE 0
    /\ todo' = [todo EXCEPT ![t] = Tail(@)]
    /\ UNCHANGED <<lobo, screen, x, y, at, offset, open, editor, live, calls>>

-----------------------------------------------------------------------------
(* VGAConsoleDevice::PrintChar and AttemptScroll *)

Step(t, from, to) ==
    /\ Runs(t) /\ at[t] = from
    /\ at' = [at EXCEPT ![t] = to]
    /\ UNCHANGED <<lobo, leftColumn, open, editor, calls>>

Done(t) == todo' = [todo EXCEPT ![t] = Tail(@)]

\* offset = ((y * width) + x) * 2
Enter(t) ==
    /\ todo[t] # <<>> /\ Head(todo[t]) \in {"ch", "nl", "bs"}
    /\ Step(t, "out", "store")
    /\ offset' = [offset EXCEPT ![t] = y * Width + x]
    /\ UNCHANGED <<screen, x, y, todo, live>>

\* the switch's first statements: the character, x = leftColumn, or a step back
\* that stops at the left column.  A store past the last row is not on the screen.
Store(t) ==
    /\ Step(t, "store", "advance")
    /\ CASE Head(todo[t]) = "ch" ->
              /\ screen' = [c \in Cells |-> screen[c] \/ c = offset[t]]
              /\ live' = live + 1
              /\ UNCHANGED x
         [] Head(todo[t]) = "nl" -> x' = leftColumn /\ UNCHANGED <<screen, live>>
         [] Head(todo[t]) = "bs" ->
              /\ x' = IF x - 1 < leftColumn THEN leftColumn ELSE x - 1
              /\ UNCHANGED <<screen, live>>
    /\ UNCHANGED <<y, todo, offset>>

\* and its last: x++, y++, or the blank
Advance(t) ==
    /\ Step(t, "advance", "wrap")
    /\ CASE Head(todo[t]) = "ch" -> x' = x + 1 /\ UNCHANGED <<screen, y, live>>
         [] Head(todo[t]) = "nl" -> y' = y + 1 /\ UNCHANGED <<screen, x, live>>
         [] Head(todo[t]) = "bs" ->
              /\ screen' = [c \in Cells |-> screen[c] /\ c # y * Width + x]
              /\ live' = live - Ink({y * Width + x} \intersect Cells)
              /\ UNCHANGED <<x, y>>
    /\ UNCHANGED <<todo, offset>>

\* Faulty variant: x > width where the code has x >= width.
PastLastColumnLate == x > Width

\* x >= width
PastLastColumn == x >= Width

Wrap(t) ==
    /\ \/ /\ PastLastColumn
          /\ Step(t, "wrap", "left")
          /\ y' = y + 1
       \/ /\ ~PastLastColumn
          /\ Step(t, "wrap", "scroll")
          /\ UNCHANGED y
    /\ UNCHANGED <<screen, x, todo, offset, live>>

Left(t) ==
    /\ Step(t, "left", "scroll")
    /\ x' = leftColumn
    /\ UNCHANGED <<screen, y, todo, offset, live>>

\* y >= height: the rows move up, or PrintChar returns
Scroll(t) ==
    /\ \/ /\ y >= Height
          /\ Step(t, "scroll", "up")
          /\ screen' = MovedUp(screen)
          /\ live' = live - Ink(Row(0))
          /\ UNCHANGED todo
       \/ /\ y < Height
          /\ Step(t, "scroll", "out")
          /\ Done(t)
          /\ UNCHANGED <<screen, live>>
    /\ UNCHANGED <<x, y, offset>>

Up(t) ==
    /\ Step(t, "up", "blank")
    /\ y' = y - 1
    /\ UNCHANGED <<screen, x, todo, offset, live>>

\* Faulty variant: the last row is not blanked.
BlankNothing(t) ==
    /\ Step(t, "blank", "out")
    /\ Done(t)
    /\ UNCHANGED <<screen, x, y, offset, live>>

Blank(t) ==
    /\ Step(t, "blank", "out")
    /\ screen' = BlankLast(screen)
    /\ Done(t)
    /\ UNCHANGED <<x, y, offset, live>>

PrintChar(t) ==
    \/ Enter(t) \/ Store(t) \/ Advance(t) \/ Wrap(t) \/ Left(t)
    \/ Scroll(t) \/ Up(t) \/ Blank(t)

-----------------------------------------------------------------------------
(* The debugger's line editor *)

\* a prompt, and the buffer cleared by memset
Prompt ==
    /\ input_buffer' = EmptyLine /\ input_index' = 0 /\ typed' = <<>>

\* '~' in thread_read_keyboard: debugger::enter
EnterDebugger ==
    /\ Idle(Keyboard) /\ ~open
    /\ open' = TRUE
    /\ todo' = [todo EXCEPT ![Keyboard] = LogArg(<<"ch">>) \o <<"ch">>]
    /\ Prompt
    /\ calls' = calls + 1
    /\ UNCHANGED <<lobo, screen, x, y, leftColumn, at, offset, live>>

\* the buffer as strcmp reads it
Command ==
    LET ends == {n \in DOMAIN input_buffer : input_buffer[n] = "nul"}
        len == CHOOSE n \in ends : \A k \in ends : n <= k
    IN  [n \in 1 .. len |-> input_buffer[n - 1]]

Echo(c) ==
    /\ Ready(Keyboard) /\ open /\ Len(typed) < MaxKeys
    /\ todo' = [todo EXCEPT ![Keyboard] = <<c>>]
    /\ UNCHANGED <<lobo, screen, x, y, leftColumn, at, offset, open, live, calls>>

\* Faulty variant: the full buffer is noticed one character late.
KeyLate(k) ==
    /\ Echo("ch")
    /\ LET n == IF input_index > LineMax - 1 THEN LineMax - 1 ELSE input_index
       IN  /\ input_buffer' = [input_buffer EXCEPT ![n] = k]
           /\ input_index' = n + 1
    /\ typed' = Append(typed, k)

\* a character; the last but one byte is typed over when the buffer is full
Key(k) ==
    /\ Echo("ch")
    /\ LET n == IF input_index > LineMax - 2 THEN LineMax - 2 ELSE input_index
       IN  /\ input_buffer' = [input_buffer EXCEPT ![n] = k]
           /\ input_index' = n + 1
    /\ typed' = Append(typed, k)

\* Faulty variant: the slot after the cursor is not cleared.
BackspaceOnly ==
    /\ Echo("bs")
    /\ input_index' = IF input_index = 0 THEN 0 ELSE input_index - 1
    /\ typed' = Append(typed, "bs")
    /\ UNCHANGED input_buffer

\* '\b' clears the slot after the cursor and steps back
Backspace ==
    /\ Echo("bs")
    /\ input_buffer' = [input_buffer EXCEPT ![input_index] = "nul"]
    /\ input_index' = IF input_index = 0 THEN 0 ELSE input_index - 1
    /\ typed' = Append(typed, "bs")

\* '\n' is echoed, and then the line is processed
Return ==
    /\ Idle(Keyboard) /\ open
    /\ todo' = [todo EXCEPT ![Keyboard] = <<"nl", "process">>]
    /\ calls' = calls + 1
    /\ UNCHANGED <<lobo, screen, x, y, leftColumn, at, offset, open, editor, live>>

\* "exit" gives scheduling back, anything else logs something and prompts
Process ==
    /\ Runs(Keyboard) /\ todo[Keyboard] # <<>> /\ Head(todo[Keyboard]) = "process"
    /\ \/ /\ Command = ExitCommand
          /\ open' = FALSE
          /\ todo' = [todo EXCEPT ![Keyboard] = <<>>]
          /\ UNCHANGED editor
       \/ /\ Command # ExitCommand
          /\ todo' = [todo EXCEPT ![Keyboard] = LogArg(<<"ch">>) \o <<"ch">>]
          /\ Prompt
          /\ UNCHANGED open
    /\ UNCHANGED <<lobo, screen, x, y, leftColumn, at, offset, live, calls>>

Next ==
    \/ AwdLine \/ console_print_char \/ EnterLobo
    \/ \E t \in Threads : Log(t) \/ FormatSetLeftColumn(t) \/ PrintChar(t)
    \/ WriteChar \/ EnterDebugger \/ Backspace \/ Return \/ Process
    \/ \E k \in Letters : Key(k)

Spec == Init /\ [][Next]_vars

-----------------------------------------------------------------------------
(* Properties *)

\* The consoles' variables hold values of their types.
TypeOK ==
    /\ lobo \in BOOLEAN /\ open \in BOOLEAN
    /\ screen \in [Cells -> BOOLEAN]
    /\ x \in Nat /\ y \in Nat /\ leftColumn \in {0, Margin}
    /\ todo \in [Threads \union {Awd} -> Seq(Ops)]
    /\ at \in [Threads -> {"out", "store", "advance", "wrap", "left", "scroll", "up", "blank"}]
    /\ offset \in [Threads -> Nat]
    /\ input_buffer \in [0 .. (LineMax - 1) -> Letters \union {"nul"}]
    /\ input_index \in 0 .. (LineMax - 1)
    /\ typed \in Seq(Letters \union {"bs"}) /\ live \in Int /\ calls \in 0 .. MaxCalls

\* Whenever no thread is inside PrintChar the cursor is on the screen, and the
\* cell under it and all after it are blank, from AWD's first line through the
\* hand-over of log_cursor_y on, however characters of several threads, left
\* columns and backspaces follow each other: nothing printed is printed over.
CursorAtEnd ==
    Inside = {} =>
        /\ x < Width /\ y < Height
        /\ \A c \in Cells : c >= y * Width + x => ~screen[c]

\* What was printed and not erased is on the screen or was scrolled off its
\* top: neither scrolling loop drops a row or leaves one twice.
NothingLost == Inside = {} => Ink(Cells) = live

\* Outside of LogArg the left column is 0, however calls of the log overlap:
\* no message leaves the next one indented.
MarginRestored ==
    (\A t \in Threads : \A n \in 1 .. Len(todo[t]) : todo[t][n] # "out") => leftColumn = 0

\* The line s after key k: a full line loses its last character to the next.
EditedBy(s, k) ==
    IF k = "bs" THEN (IF s = <<>> THEN <<>> ELSE SubSeq(s, 1, Len(s) - 1))
    ELSE Append(IF Len(s) = LineMax - 1 THEN SubSeq(s, 1, LineMax - 2) ELSE s, k)

\* The line that the keys of a sequence leave, stated as editing.
Edited(keys) ==
    LET e[n \in 0 .. Len(keys)] == IF n = 0 THEN <<>> ELSE EditedBy(e[n - 1], keys[n])
    IN  e[Len(keys)]

\* The command the debugger runs is the line as edited, unless the last key
\* before the return was a backspace: then one erased character may still be
\* at its end.  The buffer always ends with a 0 that stops strcmp.
CommandIsEdited ==
    /\ input_buffer[LineMax - 1] = "nul"
    /\ LET line == Edited(typed)
       IN  IF typed = <<>> \/ typed[Len(typed)] # "bs" THEN Command = line
           ELSE \/ Command = line
                \/ \E k \in Letters : Command = Append(line, k)
=============================================================================

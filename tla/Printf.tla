------------------------------- MODULE Printf -------------------------------
(***************************************************************************)
(* The formatter under every line the loader and the kernel print: vprintf *)
(* of the C library, which AWD has a copy of, with atoi, strlen and itoa.  *)
(*                                                                         *)
(* itoa leaves its digits in one static buffer and hands out a pointer     *)
(* into it, which vprintf reads, character by character, while interrupts  *)
(* are on: interrupt_handler formats a line of its own on the same buffer. *)
(* A call in progress is a frame of the stack, and the top one runs.       *)
(*                                                                         *)
(* A call is given as what its author means, a sequence of directives, and *)
(* Format spells the format string that vprintf is to take apart again.    *)
(***************************************************************************)
EXTENDS Integers, Sequences, FiniteSets, FiniteSetsExt, SequencesExt

CONSTANTS Calls,        \* what the kernel formats: sequences of directives
          IrqCalls,     \* what interrupt_handler formats
          IntBits,      \* bits of an unsigned int, 32 in the code
          WordBits,     \* bits of an unsigned long, 64
          Slot,         \* where itoa puts the terminator in its buffer, 49
          WidthDigits,  \* digits of a width that vprintf takes, 7
          MaxIrqs       \* bound: interrupts that print, in one behaviour

Lut == <<"0", "1", "2", "3", "4", "5", "6", "7", "8", "9", "A", "B", "C", "D", "E", "F">>
Digits == {Lut[i] : i \in 1 .. 10}
Specifiers == {"%", "s", "c", "i", "d", "x", "p"}
Numbers == {"i", "d", "x", "p"}
Base(spec) == IF spec \in {"x", "p"} THEN 16 ELSE 10
Bits(spec) == IF spec = "p" THEN WordBits ELSE IntBits

Pow(base, k) ==
    LET power[i \in 0 .. k] == IF i = 0 THEN 1 ELSE base * power[i - 1]
    IN  power[k]

\* The buffer has room for the digits of the largest number.
ASSUME SizesAssumption ==
    /\ IntBits \in Nat \ {0} /\ WordBits \in Nat \ {0}
    /\ Slot \in Nat \ {0} /\ WidthDigits \in Nat \ {0} /\ MaxIrqs \in Nat
    /\ \A spec \in Numbers : Pow(2, Bits(spec)) <= Pow(Base(spec), Slot)

\* Formats as the kernel writes them: the width fits, and a character that
\* stands for itself is neither the '%' that would open a directive nor '\0'.
\* A "spec" that is no specifier is such a character.
Directive(d) ==
    /\ d.left \in BOOLEAN
    /\ d.width \in Seq(Digits) /\ Len(d.width) <= WidthDigits
    /\ d.spec # "nul"
    /\ d.spec \in Numbers => d.arg \in Int
    /\ d.spec = "s" => d.arg \in Seq(Range(d.arg)) /\ "nul" \notin Range(d.arg)

ASSUME CallsAssumption ==
    \A call \in Calls \cup IrqCalls :
        call \in Seq(Range(call)) /\ \A d \in Range(call) : Directive(d)

VARIABLES
    stack,   \* the calls of vprintf in progress, the running one last
    buffer,  \* itoa's static buffer
    done,    \* the frame of the last call that returned, in a set
    irqs     \* interrupts that have printed

vars == <<stack, buffer, done, irqs>>

\* The characters of the format string a call passes, '\0' included.
Spelled(d) ==
    IF d.spec \in Specifiers
    THEN <<"%">> \o (IF d.left THEN <<"-">> ELSE << >>) \o d.width \o <<d.spec>>
    ELSE <<d.spec>>
Format(call) == FlattenSeq([i \in DOMAIN call |-> Spelled(call[i])]) \o <<"nul">>
Passed(d) == IF d.spec \in Specifiers \ {"%"} THEN <<d.arg>> ELSE << >>
Args(call) == FlattenSeq([i \in DOMAIN call |-> Passed(call[i])])

\* vprintf's arguments and locals; "at" is where it is, "next" the argument that
\* va_arg takes next, "str" and "own" say what arg_str points to: a string of the
\* caller's or itoa's buffer.
Frame(call) ==
    [call |-> call, fmt |-> Format(call), args |-> Args(call), at |-> "scan",
     fmt_scan |-> 1, next |-> 1, left |-> FALSE, zeropad |-> FALSE, length |-> 0,
     n |-> 0, own |-> TRUE, str |-> <<"nul">>, arg_str |-> 1, read |-> 1,
     pad |-> 0, out |-> << >>, clobbered |-> FALSE]

Top == stack[Len(stack)]
Running(at) == stack # << >> /\ Top.at = at
Argument == Top.args[Top.next]
Run(f) == stack' = [stack EXCEPT ![Len(stack)] = f]

Init ==
    /\ \E call \in Calls : stack = <<Frame(call)>>
    /\ buffer = [i \in 0 .. Slot |-> "nul"]
    /\ done = {} /\ irqs = 0

-----------------------------------------------------------------------------
(* Pure helpers.                                                           *)

\* Digits of the width at position p, as many as the buffer on the stack takes.
WidthLength(fmt, p) ==
    Max({k \in 0 .. WidthDigits : p + k <= Len(fmt)
                                  /\ \A i \in p .. (p + k - 1) : fmt[i] \in Digits})

DigitValue(c) == (CHOOSE i \in 1 .. 16 : Lut[i] = c) - 1

atoi(s) ==
    LET result[i \in 0 .. Len(s)] ==
            IF i = 0 THEN 0 ELSE result[i - 1] * 10 + DigitValue(s[i])
    IN  result[Len(s)]

\* The byte at p of what arg_str points into, and the length from there.
Byte(f, p) == IF f.own THEN f.str[p] ELSE buffer[p]
LastByte(f) == IF f.own THEN Len(f.str) ELSE Slot
strlen(f) == Min({p \in f.arg_str .. LastByte(f) : Byte(f, p) = "nul"}) - f.arg_str

\* One step of fmt_scan, as the loop's increment does it.
Advanced(f) == [f EXCEPT !.at = "scan", !.fmt_scan = @ + 1]
Put(f, c) == [f EXCEPT !.out = Append(@, c)]

\* A string and its padding, in the order the justification asks for.
Justified(f) == [f EXCEPT !.at = IF f.left THEN "string" ELSE "measure", !.read = f.arg_str]

\* Only %x and %p hand the zero flag to the padding helper.
ZeroPads(f) == f.zeropad /\ f.fmt[f.fmt_scan] \in {"x", "p"}

-----------------------------------------------------------------------------
(* Steps of vprintf.                                                       *)

\* A character that opens no directive is printed.
Literal ==
    /\ Running("scan") /\ Top.fmt[Top.fmt_scan] \notin {"%", "nul"}
    /\ Run(Advanced(Put(Top, Top.fmt[Top.fmt_scan])))
    /\ UNCHANGED <<buffer, done, irqs>>

\* Faulty variant: zero padding is kept when justifying to the left.
OpenZeroLeft ==
    LET left == Top.fmt[Top.fmt_scan + 1] = "-"
        start == Top.fmt_scan + (IF left THEN 2 ELSE 1)
        k == WidthLength(Top.fmt, start)
        width == SubSeq(Top.fmt, start, start + k - 1)
    IN  /\ Running("scan") /\ Top.fmt[Top.fmt_scan] = "%"
        /\ Run([Top EXCEPT !.at = "specifier", !.fmt_scan = start + k, !.left = left,
                           !.length = atoi(width), !.zeropad = k > 0 /\ width[1] = "0"])
        /\ UNCHANGED <<buffer, done, irqs>>

\* '%', then the flags and the width, up to the specifier.
Open ==
    LET left == Top.fmt[Top.fmt_scan + 1] = "-"
        start == Top.fmt_scan + (IF left THEN 2 ELSE 1)
        k == WidthLength(Top.fmt, start)
        width == SubSeq(Top.fmt, start, start + k - 1)
    IN  /\ Running("scan") /\ Top.fmt[Top.fmt_scan] = "%"
        /\ Run([Top EXCEPT !.at = "specifier", !.fmt_scan = start + k, !.left = left,
                           !.length = atoi(width),
                           !.zeropad = k > 0 /\ width[1] = "0" /\ ~left])
        /\ UNCHANGED <<buffer, done, irqs>>

\* The specifiers that print one character: 'c' its argument, '%' and any
\* that vprintf does not know themselves.
Single ==
    LET spec == Top.fmt[Top.fmt_scan]
    IN  /\ Running("specifier") /\ spec \notin {"s"} \cup Numbers
        /\ Run(IF spec = "c" THEN [Advanced(Put(Top, Argument)) EXCEPT !.next = @ + 1]
                ELSE Advanced(Put(Top, spec)))
        /\ UNCHANGED <<buffer, done, irqs>>

String ==
    /\ Running("specifier") /\ Top.fmt[Top.fmt_scan] = "s"
    /\ Run(Justified([Top EXCEPT !.next = @ + 1, !.own = TRUE, !.arg_str = 1,
                                 !.str = Append(Argument, "nul")]))
    /\ UNCHANGED <<buffer, done, irqs>>

\* Faulty variant: the terminator goes one slot too low.
NumberLow ==
    LET spec == Top.fmt[Top.fmt_scan]
        arg == Argument % Pow(2, Bits(spec))
    IN  /\ Running("specifier") /\ spec \in Numbers
        /\ Run([Top EXCEPT !.at = "itoa", !.next = @ + 1, !.own = FALSE, !.n = arg,
                           !.arg_str = Slot - 1])
        /\ buffer' = [buffer EXCEPT ![Slot - 1] = "nul"]
        /\ UNCHANGED <<done, irqs>>

\* A number: the argument is taken as an unsigned int, or for %p as a word,
\* and itoa puts the terminator into its buffer.
Number ==
    LET spec == Top.fmt[Top.fmt_scan]
        arg == Argument % Pow(2, Bits(spec))
    IN  /\ Running("specifier") /\ spec \in Numbers
        /\ Run([Top EXCEPT !.at = "itoa", !.next = @ + 1, !.own = FALSE, !.n = arg,
                           !.arg_str = Slot])
        /\ buffer' = [buffer EXCEPT ![Slot] = "nul"]
        /\ UNCHANGED <<done, irqs>>

\* A digit written at p hits the calls below that have one there to print.
Unread(f) ==
    IF f.own \/ f.at \in {"scan", "specifier"} \/ (f.left /\ f.at \in {"measure", "pad"})
    THEN {}
    ELSE (IF f.at = "string" THEN f.read ELSE f.arg_str) .. (Slot - 1)
Clobber(s, p) ==
    [i \in DOMAIN s |-> IF i < Len(s) /\ p \in Unread(s[i])
                        THEN [s[i] EXCEPT !.clobbered = TRUE] ELSE s[i]]

\* Faulty variant: the loop tests before its first turn.
itoaWhileDo ==
    LET base == Base(Top.fmt[Top.fmt_scan])
        turned == [Top EXCEPT !.n = @ \div base, !.arg_str = @ - 1]
    IN  /\ Running("itoa")
        /\ IF Top.n = 0
           THEN buffer' = buffer /\ Run(Justified(Top))
           ELSE /\ buffer' = [buffer EXCEPT ![Top.arg_str - 1] = Lut[(Top.n % base) + 1]]
                /\ stack' = Clobber([stack EXCEPT ![Len(stack)] = turned], turned.arg_str)
        /\ UNCHANGED <<done, irqs>>

\* One turn of itoa's loop, the last one when the quotient is zero.
itoa ==
    LET base == Base(Top.fmt[Top.fmt_scan])
        turned == [Top EXCEPT !.n = @ \div base, !.arg_str = @ - 1]
    IN  /\ Running("itoa")
        /\ buffer' = [buffer EXCEPT ![Top.arg_str - 1] = Lut[(Top.n % base) + 1]]
        /\ stack' = Clobber([stack EXCEPT ![Len(stack)] =
                                IF turned.n > 0 THEN turned ELSE Justified(turned)],
                            turned.arg_str)
        /\ UNCHANGED <<done, irqs>>

\* The padding helper measures the string it is handed ...
Measure ==
    /\ Running("measure")
    /\ Run([Top EXCEPT !.at = "pad",
                       !.pad = IF Top.length # 0 THEN Top.length - strlen(Top) ELSE 0])
    /\ UNCHANGED <<buffer, done, irqs>>

\* ... and prints what is missing.
Pad ==
    /\ Running("pad")
    /\ Run(IF Top.pad > 0
            THEN [Put(Top, IF ZeroPads(Top) THEN "0" ELSE " ") EXCEPT !.pad = @ - 1]
            ELSE IF Top.left THEN Advanced(Top) ELSE [Top EXCEPT !.at = "string"])
    /\ UNCHANGED <<buffer, done, irqs>>

\* vprintf_print_helper_string: one character, or on to what follows.
PrintString ==
    LET c == Byte(Top, Top.read)
    IN  /\ Running("string")
        /\ Run(IF c # "nul" THEN [Put(Top, c) EXCEPT !.read = @ + 1]
                ELSE IF Top.left THEN [Top EXCEPT !.at = "measure"] ELSE Advanced(Top))
        /\ UNCHANGED <<buffer, done, irqs>>

\* The format string is at its end: the call returns.
Finish ==
    /\ Running("scan") /\ Top.fmt[Top.fmt_scan] = "nul"
    /\ done' = {Top}
    /\ stack' = Front(stack)
    /\ UNCHANGED <<buffer, irqs>>

\* An interrupt that is neither the timer's nor the keyboard's is reported.
\* Its gate keeps interrupts off until the handler returns.
Interrupt ==
    /\ Len(stack) = 1 /\ irqs < MaxIrqs
    /\ \E call \in IrqCalls : stack' = Append(stack, Frame(call))
    /\ irqs' = irqs + 1
    /\ UNCHANGED <<buffer, done>>

Vprintf ==
    \/ Literal \/ Open \/ Single \/ String \/ Number \/ itoa
    \/ Measure \/ Pad \/ PrintString \/ Finish

Next == Vprintf \/ Interrupt

Spec == Init /\ [][Next]_vars

-----------------------------------------------------------------------------
(* What a call is to print, said without scanning anything.                *)

Places(n, base) == Min({k \in 1 .. Slot : n < Pow(base, k)})
Numeral(n, base) ==
    LET k == Places(n, base)
    IN  [i \in 1 .. k |-> Lut[((n \div Pow(base, k - i)) % base) + 1]]

Body(d) ==
    CASE d.spec = "s" -> d.arg
      [] d.spec = "c" -> <<d.arg>>
      [] d.spec \in Numbers -> Numeral(d.arg % Pow(2, Bits(d.spec)), Base(d.spec))
      [] OTHER -> <<d.spec>>

\* The number that decimal digits spell: each has the weight of its place.
Value(s) ==
    LET sum[i \in 0 .. Len(s)] ==
            IF i = 0 THEN 0 ELSE sum[i - 1] + DigitValue(s[i]) * Pow(10, Len(s) - i)
    IN  sum[Len(s)]

\* The width is what its digits spell; zeros fill hexadecimal numbers on the
\* left, blanks everything else.
Meant(d) ==
    LET body == Body(d)
        width == Value(d.width)
        zero == d.spec \in {"x", "p"} /\ ~d.left /\ d.width # << >> /\ d.width[1] = "0"
        missing == IF d.spec \in {"s"} \cup Numbers THEN Max({0, width - Len(body)}) ELSE 0
        filling == [i \in 1 .. missing |-> IF zero THEN "0" ELSE " "]
    IN  IF d.left THEN body \o filling ELSE filling \o body

Printed(call) == FlattenSeq([i \in DOMAIN call |-> Meant(call[i])])

-----------------------------------------------------------------------------
(* Properties.                                                             *)

\* The scan stays inside the format string and its terminator, and itoa's
\* digits and their readers stay inside the buffer.
TypeOK ==
    /\ DOMAIN buffer = 0 .. Slot /\ Range(buffer) \subseteq Range(Lut) \cup {"nul"}
    /\ irqs \in 0 .. MaxIrqs /\ Len(stack) <= 2
    /\ \A f \in Range(stack) :
        /\ f.fmt_scan \in DOMAIN f.fmt /\ f.next \in 1 .. (Len(f.args) + 1)
        /\ ~f.own => f.arg_str \in 0 .. Slot /\ (f.at = "string" => f.read \in f.arg_str .. Slot)
        /\ f.own => f.read \in DOMAIN f.str

\* A call none of whose digits was overwritten before it was read prints what
\* its directives mean: vprintf takes apart every format as it was spelled,
\* whatever directive came before.
AsMeant == \A f \in done : ~f.clobbered => f.out = Printed(f.call)

\* An interrupt in the middle of a number may change its digits (itoa's buffer
\* is static) and nothing else of what its call prints.  The number of characters
\* is the one meant, since both terminators are at the same place, and every
\* character that is no digit of a number is the one meant.  On the screen the
\* interrupt's own line still lands in the middle of the call's text.
TextKept ==
    \A f \in done :
        LET meant == Printed(f.call)
        IN  /\ Len(f.out) = Len(meant)
            /\ \A i \in DOMAIN meant :
                  f.out[i] # meant[i] => {f.out[i], meant[i]} \subseteq Range(Lut)

=============================================================================

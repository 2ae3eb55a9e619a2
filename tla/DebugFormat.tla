---------------------------- MODULE DebugFormat ----------------------------
(***************************************************************************)
(* debug_write() of sylib/debug/debug.c: a format is walked through once,  *)
(* each conversion taking the next argument and sending its text to the    *)
(* UART.  Characters are integers: a digit is itself, the others are the   *)
(* negative codes below.  An argument is a word of WordBits bits; int and  *)
(* long are both one word, and so is a pointer.                            *)
(***************************************************************************)
EXTENDS Integers, Sequences, FiniteSets

CONSTANTS
  WordBits,     \* 32 in the code
  Values,       \* arguments, as signed words
  Widths,       \* field widths, 0 for none
  NullValues,   \* the arguments that are a null pointer to %s
  MaxItems      \* bound: items of a format

ASSUME FormatAssumption ==
  /\ WordBits \in Nat /\ 2^WordBits \in Nat \ {0}
  /\ Values \subseteq Int /\ Widths \subseteq Nat
  /\ MaxItems \in Nat

Minus    == -1
Blank    == -2
Prefix0x == -3
Question == -4
Percent  == -5
CharOf(v) == -100 - v     \* the character, and ...
TextOf(v) == -500 - v     \* ... the (non-empty) string an argument stands for
NullText  == -6           \* "(null)"

Unsigned(v) == v % 2^WordBits
Base == [d |-> 10, u |-> 10, x |-> 16, o |-> 8, p |-> 16]

Conversions == {"d", "u", "x", "o", "p", "s", "c", "%", "other"}
Items == [conv : Conversions, zero_pad : BOOLEAN, width : Widths]

VARIABLES
  format, args,   \* what debug_write() is called with
  taken,          \* arguments va_arg() has handed out
  out             \* history: for each item done, the characters sent
vars == <<format, args, taken, out>>

Init ==
  /\ format \in [1..MaxItems -> Items] /\ args \in [1..MaxItems -> Values]
  /\ taken = 0 /\ out = <<>>

-----------------------------------------------------------------------------
(* The loop `buffer[i++] = num % base; num /= base', the buffer read back  *)
(* in reverse order.                                                       *)
Numerals(n, base) ==
  LET digits[k \in 0..n] == IF k < base THEN <<k>> ELSE Append(digits[k \div base], k % base)
  IN  digits

Numeral(n, base) == Numerals(n, base)[n]

(* The loop `for (int pad = i; pad < width; pad++)'.                       *)
Padding(len, width, zero_pad) == [k \in 1..(width - len) |-> IF zero_pad THEN 0 ELSE Blank]

(* Mutant of uart_send_int: the sign is not counted in the width.          *)
send_int_sign_uncounted(num, width, zero_pad) ==
  LET text == Numeral(IF num < 0 THEN -num ELSE num, 10)
  IN  Padding(Len(text), width, zero_pad) \o (IF num < 0 THEN <<Minus>> ELSE <<>>) \o text

(* The least word has no negative; the build's negation leaves it as it    *)
(* is, and the cast makes it the magnitude all the same.                   *)
uart_send_int(num, width, zero_pad) ==
  LET unum == IF num < 0 THEN -num ELSE num
      text == (IF num < 0 THEN <<Minus>> ELSE <<>>) \o Numeral(unum, 10)
  IN  Padding(Len(text), width, zero_pad) \o text

uart_send_uint(num, base, width, zero_pad) ==
  LET text == Numeral(num, base)
  IN  Padding(Len(text), width, zero_pad) \o text

uart_send_string(v) == IF v \in NullValues THEN <<NullText>> ELSE <<TextOf(v)>>

(* The switch on the conversion character: what it sends for an argument.  *)
Conversion(item, v) ==
  CASE item.conv = "d"     -> uart_send_int(v, item.width, item.zero_pad)
    [] item.conv \in {"u", "x", "o"} ->
         uart_send_uint(Unsigned(v), Base[item.conv], item.width, item.zero_pad)
    [] item.conv = "p"     -> <<Prefix0x>> \o uart_send_uint(Unsigned(v), 16, WordBits \div 4, TRUE)
    [] item.conv = "s"     -> uart_send_string(v)
    [] item.conv = "c"     -> <<CharOf(v)>>
    [] item.conv = "%"     -> <<Percent>>
    [] item.conv = "other" -> <<Question>>

(* Mutant of TakesArgument: an unknown conversion eats an argument.        *)
TakesArgumentAlways(conv) == conv # "%"

(* va_arg() is called in these cases of the switch only.                   *)
TakesArgument(conv) == conv \notin {"%", "other"}

(* One turn of the loop of debug_write().  Formats are whole: one that     *)
(* ends in the middle of a conversion makes the loop step over its NUL and *)
(* read on, which is not modelled.                                         *)
debug_write ==
  /\ Len(out) < Len(format)
  /\ LET item == format[Len(out) + 1]
     IN  /\ out' = Append(out, Conversion(item, args[taken + 1]))
         /\ taken' = IF TakesArgument(item.conv) THEN taken + 1 ELSE taken
  /\ UNCHANGED <<format, args>>

Next == debug_write
Spec == Init /\ [][Next]_vars

-----------------------------------------------------------------------------
(* What C's printf() sends, as a condition on the text.                    *)

(* The number that the first k digits of a text stand for.                 *)
PrefixValues(s, base) ==
  LET value[k \in 0..Len(s)] == IF k = 0 THEN 0 ELSE value[k - 1] * base + s[k]
  IN  value

IsNumeral(s, n, base) ==
  /\ s # <<>> /\ \A k \in 1..Len(s) : s[k] \in 0..(base - 1)
  /\ PrefixValues(s, base)[Len(s)] = n

(* A number: its sign and its digits, filled up to the width with blanks   *)
(* before the sign or with zeros behind it.                                *)
IsNumber(s, negative, n, base, item) ==
  \E b \in 0..(Len(s) - 1) :
    LET body   == SubSeq(s, b + 1, Len(s))
        digits == IF negative THEN Tail(body) ELSE body
        filled == IF item.zero_pad THEN digits[1] = 0 /\ Len(digits) > 1 ELSE b > 0
    IN  /\ \A k \in 1..b : s[k] = Blank
        /\ negative => Head(body) = Minus
        /\ IsNumeral(digits, n, base)
        /\ item.zero_pad => b = 0
        /\ Len(digits) > 1 /\ digits[1] = 0 => item.zero_pad
        /\ Len(s) >= item.width /\ (filled => Len(s) = item.width)

(* Only numbers are held to their width.  %c and %s are sent as they are,  *)
(* although debug.h announces a field width for every conversion; what C   *)
(* leaves undefined may be any one character.                              *)
IsPrintf(s, item, v) ==
  CASE item.conv = "d" -> IsNumber(s, v < 0, IF v < 0 THEN -v ELSE v, 10, item)
    [] item.conv \in {"u", "x", "o"} -> IsNumber(s, FALSE, Unsigned(v), Base[item.conv], item)
    [] item.conv = "p" -> Head(s) = Prefix0x /\ IsNumeral(Tail(s), Unsigned(v), 16)
    [] item.conv = "c" -> s = <<CharOf(v)>>
    [] item.conv = "s" -> s = <<IF v \in NullValues THEN NullText ELSE TextOf(v)>>
    [] item.conv = "%" -> s = <<Percent>>
    [] OTHER -> Len(s) = 1

(* The argument C gives to the k-th item: each item before it has taken    *)
(* one, but %% and those that C does not know.                             *)
ArgumentOf(k) == args[1 + Cardinality({j \in 1..(k - 1) : format[j].conv \notin {"%", "other"}})]

(* Every item of a format is printed as printf() prints it, from the       *)
(* argument that belongs to it, whatever the items before it are.  There   *)
(* are three exceptions: a negative number in a field filled with zeros;   *)
(* the field width of %c and %s, which debug_write() ignores (debug.h      *)
(* announces one); and an unknown conversion, for which any one character  *)
(* will do.                                                                *)
PrintsAsPrintf ==
  \A k \in 1..Len(out) :
    \/ format[k].conv = "d" /\ format[k].zero_pad /\ ArgumentOf(k) < 0
    \/ IsPrintf(out[k], format[k], ArgumentOf(k))
=============================================================================

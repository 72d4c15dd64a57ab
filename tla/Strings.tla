-------------------------------- MODULE Strings --------------------------------
(***************************************************************************)
(* The string functions of the kernel (string.c) and of programs (ulib.c,  *)
(* printf.c of project01): each step is one call, on a memory of a few     *)
(* characters.  A character is a number, and 0 ends a string.              *)
(***************************************************************************)
EXTENDS Integers, SequencesExt

CONSTANTS
  Size,   \* the memory is 1 .. Size
  Char,   \* characters, besides 0
  Width,  \* bits of an integer: 32 in the program
  Inputs, \* what gets has to read
  Items,  \* of formats: directives, and characters that are not of one
  MaxItems

VARIABLES
  mem,
  before, \* the memory before the last call
  call,   \* the last call and its arguments
  ret     \* what it gave

vars == <<mem, before, call, ret>>

StringsAssumption ==
  /\ Size \in Nat \ {0} /\ Width \in Nat \ {0} /\ Char \subseteq Nat \ {0}
  /\ MaxItems \in Nat

NUL == 0
Addr == 1 .. Size
Span(a, n) == a .. (a + n - 1)
Call(op, d, s, n) == [op |-> op, d |-> d, s |-> s, n |-> n]

Least(S) == CHOOSE x \in S : \A y \in S : x <= y

Init ==
  /\ mem \in [Addr -> Char \cup {NUL}] /\ mem[Size] = NUL
  /\ before = mem /\ call = Call("none", 1, 1, 0) /\ ret = 0

-----------------------------------------------------------------------------
(* Copies *)

\* n characters, the first or the last of them first.
Upwards(m, d, s, n) ==
  LET f[k \in 0 .. n] == IF k = 0 THEN m ELSE [f[k - 1] EXCEPT ![d + k - 1] = f[k - 1][s + k - 1]] IN f[n]
Downwards(m, d, s, n) ==
  LET f[k \in 0 .. n] == IF k = 0 THEN m ELSE [f[k - 1] EXCEPT ![d + n - k] = f[k - 1][s + n - k]] IN f[n]

\* A mutant: memmove of programs, for the kernel.
MemmoveUp(m, d, s, n) == Upwards(m, d, s, n)

Memmove(m, d, s, n) == IF s < d /\ s + n > d THEN Downwards(m, d, s, n) ELSE Upwards(m, d, s, n)

Strlen(m, s) == Least({k \in 0 .. Size - s : m[s + k] = NUL})

\* How many characters the loop of strncpy copies: the end of the string is one.
Copied(m, s, n) == IF n <= Strlen(m, s) THEN n ELSE Strlen(m, s) + 1

Strncpy(m, d, s, n) ==
  LET k == Copied(m, s, n)
      c == Upwards(m, d, s, k)
  IN [a \in Addr |-> IF a \in Span(d + k, n - k) THEN NUL ELSE c[a]]

\* A mutant: the last character is one too far.
SafestrcpyBeyond(m, d, s, n) ==
  LET k == Copied(m, s, n) IN
  IF n = 0 THEN m ELSE [Upwards(m, d, s, k) EXCEPT ![d + k] = NUL]

Safestrcpy(m, d, s, n) ==
  LET k == Copied(m, s, n - 1) IN
  IF n = 0 THEN m ELSE [Upwards(m, d, s, k) EXCEPT ![d + k] = NUL]

-----------------------------------------------------------------------------
(* Comparisons: where the strings first differ, or end, within n *)

Strncmp(m, p, q, n) ==
  LET ends == {k \in 0 .. n : k = n \/ m[p + k] = NUL \/ m[p + k] # m[q + k]}
      k == Least(ends)
  IN IF k = n THEN 0 ELSE m[p + k] - m[q + k]

\* memcmp does not stop at the end of a string.
Memcmp(m, p, q, n) ==
  LET k == Least({j \in 0 .. n : j = n \/ m[p + j] # m[q + j]}) IN
  IF k = n THEN 0 ELSE m[p + k] - m[q + k]

Strchr(m, s, c) ==
  LET at == {k \in 0 .. Strlen(m, s) - 1 : m[s + k] = c} IN
  IF at = {} THEN 0 ELSE s + Least(at)

-----------------------------------------------------------------------------
(* Numbers: integers of Width bits, as patterns *)

Word == 0 .. 2 ^ Width - 1
Negative(x) == x >= 2 ^ (Width - 1)

\* The digits from the lowest, put in front of each other.
Digits(x, base) ==
  LET f[y \in Nat] == IF y < base THEN <<y>> ELSE Append(f[y \div base], y % base) IN f[x]

\* A mutant: the absolute value is taken for a positive number of Width - 1 bits.
PrintintHalf(x, base, sgn) ==
  IF sgn /\ Negative(x) THEN <<"-">> \o Digits(((2 ^ Width) - x) % (2 ^ (Width - 1)), base) ELSE Digits(x, base)

Printint(x, base, sgn) ==
  IF sgn /\ Negative(x) THEN <<"-">> \o Digits(((2 ^ Width) - x) % (2 ^ Width), base) ELSE Digits(x, base)

\* atoi: the sum, which overflows.
Atoi(s) ==
  LET f[k \in 0 .. Len(s)] == IF k = 0 THEN 0 ELSE (f[k - 1] * 10 + s[k]) % (2 ^ Width) IN f[Len(s)]

-----------------------------------------------------------------------------
(* printf: what fmt gives, with the arguments args in order.  A number is   *)
(* one item of the output, and a string too.                               *)

Arg == {"d", "x", "s", "c"}
Started == [percent |-> FALSE, out |-> <<>>, args |-> 0]

\* A mutant: the state is not left after a directive.
StepKeeps(f, c) ==
  IF ~f.percent
    THEN IF c = "%" THEN [f EXCEPT !.percent = TRUE] ELSE [f EXCEPT !.out = Append(@, <<c>>)]
    ELSE IF c \in Arg THEN [f EXCEPT !.out = Append(@, <<c, f.args>>), !.args = @ + 1]
         ELSE [f EXCEPT !.percent = FALSE, !.out = Append(@, IF c = "%" THEN <<c>> ELSE <<"%", c>>)]

Step(f, c) ==
  IF ~f.percent
    THEN IF c = "%" THEN [f EXCEPT !.percent = TRUE] ELSE [f EXCEPT !.out = Append(@, <<c>>)]
    ELSE IF c \in Arg
           THEN [percent |-> FALSE, out |-> Append(f.out, <<c, f.args>>), args |-> f.args + 1]
         ELSE [f EXCEPT !.percent = FALSE, !.out = Append(@, IF c = "%" THEN <<c>> ELSE <<"%", c>>)]

Printf(fmt) ==
  LET f[k \in 0 .. Len(fmt)] == IF k = 0 THEN Started ELSE Step(f[k - 1], fmt[k]) IN f[Len(fmt)].out

-----------------------------------------------------------------------------
(* gets: characters up to the end of a line, of the input or of the buffer; *)
(* what is left is for the next call                                       *)

Got(input, max) ==
  Least({k \in 0 .. Len(input) : k = Len(input) \/ k + 1 >= max \/ (k > 0 /\ input[k] = "nl")})
Gets(input, max) == SubSeq(input, 1, Got(input, max))
Rest(input, max) == SubSeq(input, Got(input, max) + 1, Len(input))

-----------------------------------------------------------------------------
(* The calls *)

Writes(c, m) == call' = c /\ before' = mem /\ mem' = m /\ UNCHANGED ret
Gives(c, r) == call' = c /\ ret' = r /\ before' = mem /\ UNCHANGED mem

InMemory(a, n) == Span(a, n) \subseteq Addr
\* The string at s ends, and is not where n characters are written.
Apart(d, s, n) == s + Strlen(mem, s) < d \/ d + n <= s

Copy ==
  \E d \in Addr, s \in Addr, n \in 0 .. Size :
    /\ InMemory(d, n)
    /\ \/ /\ InMemory(s, n)
          /\ \/ Writes(Call("memmove", d, s, n), Memmove(mem, d, s, n))
             \/ Writes(Call("ulib memmove", d, s, n), Upwards(mem, d, s, n))
       \/ /\ Apart(d, s, n)
          /\ \/ Writes(Call("strncpy", d, s, n), Strncpy(mem, d, s, n))
             \/ Writes(Call("safestrcpy", d, s, n), Safestrcpy(mem, d, s, n))

Compare ==
  \E p \in Addr, q \in Addr, n \in 0 .. Size :
    /\ InMemory(p, n) /\ InMemory(q, n)
    /\ \/ Gives(Call("memcmp", p, q, n), Memcmp(mem, p, q, n))
       \/ Gives(Call("strncmp", p, q, n), Strncmp(mem, p, q, n))

Find == \E s \in Addr, c \in Char : Gives(Call("strchr", s, s, c), Strchr(mem, s, c))

\* The calls that the memory does not matter to.
Blank == \A a \in Addr : mem[a] = NUL

Convert ==
  \/ \E x \in Word, base \in {10, 16}, sgn \in BOOLEAN : Gives(Call("printint", x, sgn, base), Printint(x, base, sgn))
  \/ \E x \in Word : Gives(Call("atoi", x, 1, 0), Atoi(Digits(x, 10)))

Format ==
  \E n \in 0 .. MaxItems : \E fmt \in [1 .. n -> Items] : Gives(Call("printf", fmt, 1, 0), Printf(FlattenSeq(fmt)))

GetLine ==
  \E input \in Inputs, max \in 2 .. 4 : Gives(Call("gets", input, 1, max), Gets(input, max))

Next ==
  /\ call.op = "none"
  /\ Copy \/ Compare \/ Find \/ (Blank /\ (Convert \/ Format \/ GetLine))

Spec == Init /\ [][Next]_vars

-----------------------------------------------------------------------------
\* What the calls are for.

Is(op) == call.op = op
\* The string at a, if it ends before n characters: or n characters.
Name(m, a, n) == SubSeq([k \in 1 .. Size - a + 1 |-> m[a + k - 1]], 1, IF n < Strlen(m, a) THEN n ELSE Strlen(m, a))
Outside(d, n) == \A a \in Addr \ Span(d, n) : mem[a] = before[a]

MovesCopy ==
  Is("memmove") \/ (Is("ulib memmove") /\ ~(call.s < call.d /\ call.d < call.s + call.n)) =>
    /\ \A k \in 0 .. call.n - 1 : mem[call.d + k] = before[call.s + k]
    /\ Outside(call.d, call.n)

\* A name that is copied as dirlink does is one that namecmp finds, though it need not end; a
\* name that is copied as fork and exec do ends.
NamesCopied ==
  /\ Is("strncpy") => Outside(call.d, call.n) /\ Strncmp(mem, call.d, call.s, call.n) = 0
  /\ Is("safestrcpy") /\ call.n > 0 =>
       /\ Outside(call.d, call.n)
       /\ NUL \in {mem[a] : a \in Span(call.d, call.n)}
       /\ Name(mem, call.d, call.n) = Name(before, call.s, call.n - 1)

ComparesNames ==
  /\ Is("strncmp") => (ret = 0 <=> Name(mem, call.d, call.n) = Name(mem, call.s, call.n))
  /\ Is("memcmp") => (ret = 0 <=> \A k \in 0 .. call.n - 1 : mem[call.d + k] = mem[call.s + k])
  /\ Is("strchr") => (ret = 0 <=> \A k \in 0 .. Strlen(mem, call.d) - 1 : mem[call.d + k] # call.n)

\* A number is read as it was printed, the least of all too; and no two are printed alike.
NumbersReturn ==
  /\ Is("atoi") => ret = call.d
  /\ Is("printint") /\ call.n = 10 =>
       IF call.s /\ Negative(call.d) THEN Atoi(Tail(ret)) = (2 ^ Width) - call.d ELSE Atoi(ret) = call.d

\* A format prints its items in order, each directive with the argument that is its own.
FormatsSplit ==
  LET items == call.d
      Directives(k) == {j \in 1 .. k - 1 : Len(items[j]) = 2 /\ items[j][2] \in Arg}
  IN
  Is("printf") => ret = [k \in 1 .. Len(items) |->
    IF items[k] = <<"%", "%">> THEN <<"%">>
    ELSE IF k \in Directives(k + 1) THEN <<items[k][2], Cardinality(Directives(k))>>
    ELSE items[k]]

\* Calls of gets after each other give all that there is to read, in lines or parts of them.
LinesGot ==
  Is("gets") =>
    /\ Len(ret) < call.n /\ ret \o Rest(call.d, call.n) = call.d
    /\ \A k \in 1 .. Len(ret) - 1 : ret[k] # "nl"
    /\ call.d # <<>> => ret # <<>>

\* The functions of strings do what their callers take them to do.
LibraryRight == MovesCopy /\ NamesCopied /\ ComparesNames /\ NumbersReturn /\ FormatsSplit /\ LinesGot
=============================================================================

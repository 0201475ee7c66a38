--------------------------------- MODULE CLib ---------------------------------
(***************************************************************************)
(* The C library (libc/string.c, conversion.c, tmath.c, bitwise.c): its    *)
(* loops as functions on a small memory and on integers of few bits, and   *)
(* what they should compute.  The state is a memory that calls of the      *)
(* library change, and a number for the functions that convert.            *)
(*                                                                         *)
(* A character is a small number, 0 ends a string.  In the text of a       *)
(* number a digit is itself and the sign is -1.  Conversions of doubles    *)
(* are left out.                                                           *)
(***************************************************************************)
EXTENDS Integers, Sequences, SequencesExt

CONSTANTS
    Size,           \* of the memory
    Chars,          \* the values of its bytes, 0 among them
    IntBits         \* of an int; a long has twice as many

VARIABLES memory, number

vars == <<memory, number>>
Addresses == 0 .. Size - 1

-----------------------------------------------------------------------------
(* string.c.                                                               *)

\* Byte by byte upwards, and downwards: each step reads what the ones before
\* have written.
Upwards(m, d, s, n) ==
    LET copy[i \in 0 .. n] ==
            IF i = 0 THEN m ELSE [copy[i - 1] EXCEPT ![d + i - 1] = copy[i - 1][s + i - 1]]
    IN  copy[n]

Downwards(m, d, s, n) ==
    LET copy[i \in 0 .. n] ==
            IF i = n THEN m ELSE [copy[i + 1] EXCEPT ![d + i] = copy[i + 1][s + i]]
    IN  copy[0]

memcpy(m, d, s, n) == Upwards(m, d, s, n)

\* Mutant: the directions are swapped.
MoveSwapped(m, d, s, n) ==
    CASE s > d -> Downwards(m, d, s, n)
      [] s < d -> Upwards(m, d, s, n)
      [] OTHER -> m

memmove(m, d, s, n) ==
    CASE s > d -> Upwards(m, d, s, n)
      [] s < d -> Downwards(m, d, s, n)
      [] OTHER -> m

memset(m, p, c, n) == [a \in Addresses |-> IF a \in p .. p + n - 1 THEN c ELSE m[a]]

Terminated(m, p) == \E a \in p .. Size - 1 : m[a] = 0

\* Of a string: no byte behind the memory is looked at.
strlen(m, p) ==
    LET len[a \in p .. Size] == IF a = Size \/ m[a] = 0 THEN 0 ELSE 1 + len[a + 1]
    IN  len[p]

strcpy(m, d, s) == Upwards(m, d, s, strlen(m, s) + 1)
strcat(m, d, s) == strcpy(m, d + strlen(m, d), s)

\* The loop for a long source tests i < n behind the copy: n + 1 bytes.
strncpy(m, d, s, n) ==
    LET len == strlen(m, s) IN
    IF len < n THEN memset(Upwards(m, d, s, len), d + len, 0, n - len)
    ELSE Upwards(m, d, s, n + 1)

\* The difference of the first bytes that differ, up to a terminator.
strncmp(m, s, t, n) ==
    LET compare[i \in 0 .. n] ==
            IF i = n THEN 0
            ELSE IF m[s + i] # m[t + i] THEN m[s + i] - m[t + i]
            ELSE IF m[s + i] = 0 THEN 0 ELSE compare[i + 1]
    IN  compare[0]

strcmp(m, s, t) == strncmp(m, s, t, strlen(m, s) + 1)

memcmp(m, s, t, n) ==
    LET compare[i \in 0 .. n] ==
            IF i = n THEN 0
            ELSE IF m[s + i] # m[t + i] THEN (IF m[s + i] < m[t + i] THEN -1 ELSE 1)
            ELSE compare[i + 1]
    IN  compare[0]

\* Where the needle first matches, -1 for NULL.
strstr(m, haystack, needle) ==
    LET len == strlen(m, needle)
        find[a \in haystack .. Size] ==
            IF len = 0 THEN haystack
            ELSE IF a = Size \/ m[a] = 0 THEN -1
            ELSE IF \A i \in 0 .. len - 1 :
                        (\A j \in 0 .. i - 1 : m[a + j] # 0) /\ m[a + i] = m[needle + i]
            THEN a ELSE find[a + 1]
    IN  find[haystack]

-----------------------------------------------------------------------------
(* conversion.c, tmath.c, bitwise.c.                                       *)

Power2[n \in 0 .. 2 * IntBits] == IF n = 0 THEN 1 ELSE 2 * Power2[n - 1]
Values == Power2[IntBits]
IntMin == -Power2[IntBits - 1]
Wrap(v) == ((v - IntMin) % Values) + IntMin

\* The digits from the last one, for no value no digits.
Buffer(v) ==
    LET digits[x \in 0 .. v] == IF x = 0 THEN <<>> ELSE <<x % 10>> \o digits[x \div 10]
    IN  IF v > 0 THEN digits[v] ELSE <<>>

\* -value is the value itself for the least int.
int_to_string(value) ==
    LET v == IF value < 0 THEN Wrap(-value) ELSE value
        buffer == IF v = 0 THEN <<0>> ELSE Buffer(v)
    IN  Reverse(buffer \o (IF value < 0 THEN <<-1>> ELSE <<>>))

\* The parameter is an int, whatever the caller has.
long_to_string(value) == int_to_string(Wrap(value))

unsigned_long_to_string(value) == IF value = 0 THEN <<0>> ELSE Reverse(Buffer(value))

pointer_to_hex_string(value) ==
    LET nibbles == IntBits \div 2 IN
    [i \in 1 .. nibbles |-> (value \div (16 ^ (nibbles - i))) % 16]

uint64_power(base, expo) ==
    LET power[i \in 0 .. expo] == IF i <= 1 THEN base ELSE (power[i - 1] * base) % (Values * Values)
    IN  IF expo = 0 THEN 1 ELSE power[expo]

absolute(value) == IF value < 0 THEN Wrap(-value) ELSE value

\* 1 << n is an int, for the widest shift negative, and then 64 bits wide.
Mask(n) == Wrap(Power2[n % IntBits]) % (Values * Values)
Bit(v, n) == (v \div Power2[n]) % 2
flip_bit(num, n) ==
    LET flipped[i \in 0 .. 2 * IntBits] ==
            IF i = 0 THEN 0
            ELSE flipped[i - 1] + Power2[i - 1] * ((Bit(num, i - 1) + Bit(Mask(n), i - 1)) % 2)
    IN  flipped[2 * IntBits]
check_bit(value, n) == Bit(value, n)

-----------------------------------------------------------------------------
Init == memory = [a \in Addresses |-> 0] /\ number = 0

Room(p, n) == p + n <= Size
Apart(d, s, n) == d + n <= s \/ s + n <= d

\* A caller fills, moves and copies.
Fill == \E p \in Addresses, c \in Chars : memory' = memset(memory, p, c, 1)
Move == \E d, s \in Addresses, n \in 0 .. Size :
            Room(d, n) /\ Room(s, n) /\ memory' = memmove(memory, d, s, n)
Strings ==
    \E d, s \in Addresses :
        /\ Terminated(memory, d) /\ Terminated(memory, s)
        /\ LET n == strlen(memory, d) + strlen(memory, s) + 1 IN
            /\ Room(d, n) /\ Apart(d, s, n)
            /\ memory' \in {strcpy(memory, d, s), strcat(memory, d, s)}

Next ==
    \/ number = 0 /\ (Fill \/ Move \/ Strings) /\ UNCHANGED number
    \/ (\A a \in Addresses : memory[a] = 0) /\ number < Values * Values - 1
       /\ number' = number + 1 /\ UNCHANGED memory

Spec == Init /\ [][Next]_vars

-----------------------------------------------------------------------------
(* What the functions should compute.                                      *)

Moved(m, d, s, n) ==
    [a \in Addresses |-> IF a \in d .. d + n - 1 THEN m[a - d + s] ELSE m[a]]

Text(m, p) == [i \in 1 .. strlen(m, p) |-> m[p + i - 1]]
Precedes(u, v) == \E k \in 1 .. Len(u) + 1 :
    /\ k <= Len(v) /\ SubSeq(u, 1, k - 1) = SubSeq(v, 1, k - 1)
    /\ k <= Len(u) => u[k] < v[k]

MemoryFunctions ==
    \A d, s \in Addresses, n \in 0 .. Size :
        Room(d, n) /\ Room(s, n) =>
            /\ memmove(memory, d, s, n) = Moved(memory, d, s, n)
            /\ d <= s \/ Apart(d, s, n) => memcpy(memory, d, s, n) = Moved(memory, d, s, n)
            /\ memcmp(memory, d, s, n) = 0 <=> memmove(memory, d, s, n) = memory

StringFunctions ==
    \A s, t \in {a \in Addresses : Terminated(memory, a)} :
        /\ strcmp(memory, s, t) < 0 <=> Precedes(Text(memory, s), Text(memory, t))
        /\ strcmp(memory, s, t) = 0 <=> Text(memory, s) = Text(memory, t)
        /\ strstr(memory, s, t) # -1 <=>
              \E k \in 0 .. strlen(memory, s) :
                  /\ k + strlen(memory, t) <= strlen(memory, s)
                  /\ \A i \in 1 .. strlen(memory, t) :
                        Text(memory, s)[k + i] = Text(memory, t)[i]
        /\ \A n \in 0 .. Size - 1 :
              Apart(s, t, n + 1) /\ Room(s, n + 1) /\ Room(t, n + 1) =>
                  \A a \in Addresses :
                      strncpy(memory, s, t, n)[a] =
                          IF a \in s .. s + n - 1
                          THEN IF a - s <= strlen(memory, t) THEN memory[a - s + t] ELSE 0
                          ELSE IF a = s + n /\ strlen(memory, t) >= n THEN memory[t + n]
                          ELSE memory[a]

ValueOf(text) ==
    LET value[i \in 0 .. Len(text)] ==
            IF i = 0 THEN 0 ELSE IF text[i] = -1 THEN 0 ELSE 10 * value[i - 1] + text[i]
    IN  IF text # <<>> /\ text[1] = -1 THEN -value[Len(text)] ELSE value[Len(text)]

NumberFunctions ==
    /\ ValueOf(unsigned_long_to_string(number)) = number
    /\ Wrap(number) # IntMin =>
          /\ ValueOf(int_to_string(Wrap(number))) = Wrap(number)
          /\ ValueOf(long_to_string(number)) = Wrap(number)
          /\ absolute(Wrap(number)) >= 0
    /\ \A n \in 0 .. IntBits - 2 :
          check_bit(flip_bit(number, n), n) # check_bit(number, n)
          /\ flip_bit(flip_bit(number, n), n) = number
    /\ uint64_power(number, 0) = 1
    /\ number < Values => \A e \in 1 .. 3 :
          uint64_power(number, e) =
              <<number, number * number, number * number * number>>[e] % (Values * Values)

\* On every memory calls can make and every number, the functions compute
\* what their names promise, except: strncpy writes one byte behind the size it
\* is given when the source is not shorter, the text of the least int is a sign
\* without digits, and a long that does not fit an int is printed as one.
LibraryMeetsReference == MemoryFunctions /\ StringFunctions /\ NumberFunctions
=============================================================================

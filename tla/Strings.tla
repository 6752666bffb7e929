------------------------------- MODULE Strings -------------------------------
(***************************************************************************)
(* kernel/core/string.c and the number conversion of                       *)
(* arch/x86/kernel/multiboot.c.                                            *)
(*                                                                         *)
(* A string is the sequence of its bytes without the terminating '\0'; a   *)
(* buffer is a sequence of bytes of fixed length that may hold '\0's.  A   *)
(* word has WORD bits, so that what overflows in the code overflows here.  *)
(***************************************************************************)
EXTENDS Integers, Sequences, FiniteSets, SequencesExt

CONSTANTS
  WORD,            \* bits of an int; 32
  MAX_STRING_LEN,  \* 512
  SIZE_1K          \* 1024

ASSUME StringsConstants ==
  /\ WORD \in Nat /\ WORD % 4 = 0 /\ WORD > 4
  /\ MAX_STRING_LEN \in Nat \ {0}
  /\ SIZE_1K \in Nat /\ SIZE_1K > 1 /\ 2^WORD % SIZE_1K = 0

NUL == 0
Percent == 37
Plus == 43
Minus == 45
Dot == 46
Zero == 48

Unsigned == 0 .. 2^WORD - 1
INT_MIN == -(2^(WORD - 1))
Signed == INT_MIN .. -INT_MIN - 1

\* What a word holds, read as a signed number
ToSigned(n) == IF n % 2^WORD < -INT_MIN THEN n % 2^WORD ELSE (n % 2^WORD) - 2^WORD

\* Byte k of a string, its terminator included
At(s, k) == IF k \in DOMAIN s THEN s[k] ELSE NUL

IsDecimal(c) == c \in Zero .. Zero + 9

-----------------------------------------------------------------------------
(* Buffers and strings *)

\* strlen: the length of a string, MAX_STRING_LEN at most
strlen(s) == Min({Len(s), MAX_STRING_LEN})

\* The string a buffer holds: its bytes before the first '\0'
StringIn(b) == SubSeq(b, 1, SelectInSeq(b, LAMBDA c : c = NUL) - 1)

memset(b, value, n) == [k \in DOMAIN b |-> IF k <= n THEN value % 256 ELSE b[k]]

memcpy(b, src, n) == [k \in DOMAIN b |-> IF k <= n THEN src[k] ELSE b[k]]

\* Stores s and its terminator in b, behind the first "from" bytes
StoreFrom(b, from, s) ==
  [k \in DOMAIN b |-> IF k - from \in 1 .. Len(s) + 1 THEN At(s, k - from) ELSE b[k]]

strcpy(b, s) == StoreFrom(b, 0, s)

\* strncpy: fills the whole of the first n bytes, and terminates only if s is
\* shorter than n
strncpy(b, s, n) == [k \in DOMAIN b |-> IF k <= n THEN At(s, k) ELSE b[k]]

strcat(b, s) == StoreFrom(b, strlen(StringIn(b)), s)

\* strcmp: the difference of the first bytes that differ, or of the terminators
strcmp(s1, s2) ==
  LET k == Min({j \in 1 .. Len(s1) + 1 : At(s1, j) = NUL \/ At(s1, j) # At(s2, j)})
  IN  At(s1, k) - At(s2, k)

\* reverse: swaps the first "length" bytes end for end
reverse(s, length) ==
  [k \in DOMAIN s |-> IF k <= length THEN s[length + 1 - k] ELSE s[k]]

-----------------------------------------------------------------------------
(* Numbers *)

\* C's / and % round towards zero
QuotientOf10(n) == IF n >= 0 THEN n \div 10 ELSE -((-n) \div 10)
RemainderOf10(n) == n - 10 * QuotientOf10(n)

\* The loops of int_to_str and uint_to_str: the last digit first
DigitsOf[n \in Int] ==
  IF n = 0 THEN <<>>
  ELSE <<Zero + RemainderOf10(n)>> \o DigitsOf[QuotientOf10(n)]

\* int_to_str: the negation of INT_MIN is INT_MIN again, whose remainders are
\* negative
int_to_str(num) ==
  LET abs == IF num < 0 THEN ToSigned(-num) ELSE num
      str == DigitsOf[abs] \o (IF num < 0 THEN <<Minus>> ELSE <<>>)
  IN  IF num = 0 THEN <<Zero>> ELSE reverse(str, Len(str))

uint_to_str(num) ==
  LET str == DigitsOf[num]
  IN  IF num = 0 THEN <<Zero>> ELSE reverse(str, Len(str))

HexDigit(d) == IF d < 10 THEN Zero + d ELSE 97 + d - 10

\* int_to_hex_str: from the first nibble that is not zero
int_to_hex_str(num) ==
  LET n == WORD \div 4
      nibble == [j \in 1 .. n |-> (num \div 16^(n - j)) % 16]
      first == Min({j \in 1 .. n : nibble[j] # 0})
  IN  IF num = 0 THEN <<Zero>>
      ELSE [k \in 1 .. n + 1 - first |-> HexDigit(nibble[first + k - 1])]

\* The divisor itoa starts from: the largest power of ten in a word
TopDivisor == Max({10^k : k \in 0 .. WORD} \cap Unsigned)

\* itoa: one digit per divisor, the leading zeros skipped
itoa(num) ==
  LET Digits[divisor \in Nat] ==
        IF divisor = 0 THEN <<>>
        ELSE <<Zero + ((num \div divisor) % 10)>> \o Digits[divisor \div 10]
      all == Digits[TopDivisor]
  IN  IF num = 0 THEN <<Zero>>
      ELSE SubSeq(all, SelectInSeq(all, LAMBDA c : c # Zero), Len(all))

\* atoi: a sign, then every byte as if it were a digit
atoi(str) ==
  LET skip == IF At(str, 1) \in {Minus, Plus} THEN 1 ELSE 0
      sign == IF At(str, 1) = Minus THEN -1 ELSE 1
      AddDigit(res, c) == ToSigned(res * 10 + (c - Zero))
  IN  ToSigned(sign * FoldLeft(AddDigit, 0, SubSeq(str, skip + 1, Len(str))))

\* udivmod64: long division, one bit of the dividend at a time from the top;
\* the remainder is shifted within the word
udivmod64(dividend, divisor) ==
  LET After[k \in 0 .. WORD] ==
        IF k = 0 THEN [quotient |-> 0, remainder |-> 0]
        ELSE LET bit == WORD - k
                 before == After[k - 1]
                 q == before.quotient
                 r == ((2 * before.remainder) % 2^WORD) + ((dividend \div 2^bit) % 2)
             IN  IF r >= divisor THEN [quotient |-> q + 2^bit, remainder |-> r - divisor]
                 ELSE [quotient |-> q, remainder |-> r]
  IN  After[WORD]

\* uint64_to_str: at least one digit, the last one first, then reversed
uint64_to_str(value, base) ==
  LET Digits[v \in Nat] ==
        LET d == udivmod64(v, base)
        IN  <<HexDigit(d.remainder)>>
              \o (IF d.quotient = 0 THEN <<>> ELSE Digits[d.quotient])
  IN  reverse(Digits[value], Len(Digits[value]))

\* The suffixes of format_size: B, KB, MB, GB, TB
Suffixes5 == <<<<66>>, <<75, 66>>, <<77, 66>>, <<71, 66>>, <<84, 66>>>>

\* format_size: the product with 1024 is a multiple of the base, so the
\* fraction it computes is always zero
format_size(bytes) ==
  LET Scale[k \in 0 .. 4] == IF k = 0 THEN bytes ELSE Scale[k - 1] \div SIZE_1K
      index == Min({k \in 0 .. 4 : Scale[k] < SIZE_1K} \cup {4})
      whole == Scale[index]
      fraction == ((((whole * SIZE_1K) % 2^WORD) % SIZE_1K) * 10) \div SIZE_1K
  IN  int_to_str(ToSigned(whole))
        \o (IF fraction > 0 THEN <<Dot, Zero + fraction>> ELSE <<>>)
        \o Suffixes5[index + 1]

-----------------------------------------------------------------------------
(* sprintf *)

fill_buffer(c, count) == [k \in 1 .. Max({count, 0}) |-> c]

\* Mutant: the width is taken for the number of zeros
PaddedByWidth(padding, length, str) == fill_buffer(Zero, padding) \o str

\* What one conversion stores: the argument, zeros in front of it
Padded(padding, length, str) == fill_buffer(Zero, padding - length) \o str

Convert(spec, padding, arg) ==
  CASE spec = 115 -> Padded(padding, strlen(arg), arg)                      \* 's'
    [] spec = 100 -> Padded(padding, strlen(int_to_str(arg)), int_to_str(arg))      \* 'd'
    [] spec = 117 -> Padded(padding, strlen(uint_to_str(arg)), uint_to_str(arg))    \* 'u'
    [] spec = 120 -> Padded(padding, strlen(int_to_hex_str(arg)), int_to_hex_str(arg)) \* 'x'
    [] spec = 99  -> Padded(padding, 1, <<arg>>)                            \* 'c'

TakesArgument(spec) == spec \in {115, 100, 117, 120, 99}

\* sprintf: From[i, a] is what is stored from byte i of the format on, the
\* first a arguments being used.  Any other specifier is copied; if that is
\* the terminator, the string stored ends there (and the loop reads on behind
\* the format).
sprintf(format_str, args) ==
  LET From[i \in Nat, a \in Nat] ==
        LET c == At(format_str, i)
            k == Min({j \in i + 1 .. Len(format_str) + 1 : ~IsDecimal(At(format_str, j))})
            spec == At(format_str, k)
            Number(n, d) == n * 10 + (d - Zero)
            padding == FoldLeft(Number, 0, SubSeq(format_str, i + 1, k - 1))
        IN  CASE c = NUL -> <<>>
              [] c \notin {NUL, Percent} -> <<c>> \o From[i + 1, a]
              [] c = Percent /\ TakesArgument(spec) ->
                   Convert(spec, padding, args[a + 1]) \o From[k + 1, a + 1]
              [] c = Percent /\ spec = NUL -> <<>>
              [] OTHER -> <<spec>> \o From[k + 1, a]
  IN  From[1, 0]

-----------------------------------------------------------------------------
(* What the conversions promise *)

DigitValue(c) == IF IsDecimal(c) THEN c - Zero ELSE c - 97 + 10

\* str is the numeral of n in that base: digits only, no leading zero, and
\* their weighted sum is n
Numeral(str, base, n) ==
  /\ str # <<>>
  /\ \A k \in DOMAIN str : DigitValue(str[k]) \in 0 .. base - 1
  /\ Len(str) > 1 => str[1] # Zero
  /\ n = SumFunction([k \in DOMAIN str |-> DigitValue(str[k]) * base^(Len(str) - k)])

\* Every unsigned number is printed as its numeral; every signed one but
\* INT_MIN too, and atoi reads it back.  The division holds while the doubled
\* remainder fits a word.
NumbersExact(Divisors) ==
  /\ \A n \in Unsigned :
       /\ Numeral(uint_to_str(n), 10, n)
       /\ Numeral(itoa(n), 10, n)
       /\ Numeral(int_to_hex_str(n), 16, n)
       /\ \A base \in {2, 10, 16} : Numeral(uint64_to_str(n, base), base, n)
       /\ \A d \in Divisors :
            udivmod64(n, d) = [quotient |-> n \div d, remainder |-> n % d]
  /\ \A n \in Signed \ {INT_MIN} :
       LET str == int_to_str(n)
       IN  /\ IF n < 0 THEN str[1] = Minus /\ Numeral(Tail(str), 10, -n)
                       ELSE Numeral(str, 10, n)
           /\ atoi(str) = n
           /\ atoi(IF n < 0 THEN str ELSE <<Plus>> \o str) = n
  /\ \A n \in Unsigned :
       LET str == format_size(n)
           power == Max({k \in 0 .. 4 : SIZE_1K^k <= n} \cup {0})
       IN  \E k \in DOMAIN str :
             /\ Numeral(SubSeq(str, 1, k), 10, n \div SIZE_1K^power)
             /\ SubSeq(str, k + 1, Len(str)) = Suffixes5[power + 1]

\* Copies store the string, its terminator and nothing behind it, whatever the
\* buffer held; strcmp is the lexicographic order
BuffersExact(Buffers, Texts) ==
  /\ \A b \in Buffers, s \in Texts :
       /\ Len(s) < Len(b) =>
            /\ StringIn(strcpy(b, s)) = s
            /\ \A k \in Len(s) + 2 .. Len(b) : strcpy(b, s)[k] = b[k]
       /\ \A n \in DOMAIN b :
            /\ n > Len(s) => StringIn(strncpy(b, s, n)) = s
            /\ n <= Len(s) => SubSeq(strncpy(b, s, n), 1, n) = SubSeq(s, 1, n)
            /\ SubSeq(strncpy(b, s, n), n + 1, Len(b)) = SubSeq(b, n + 1, Len(b))
            /\ memcpy(memset(b, -1, Len(b)), b, n)
                 = SubSeq(b, 1, n) \o [k \in 1 .. Len(b) - n |-> 255]
       /\ (NUL \in Range(b) /\ Len(StringIn(b)) + Len(s) < Len(b)) =>
            StringIn(strcat(b, s)) = StringIn(b) \o s
  /\ \A s, t \in Texts :
       /\ strcmp(s, t) = 0 <=> s = t
       /\ strcmp(s, t) < 0 <=>
            \/ IsStrictPrefix(s, t)
            \/ \E k \in DOMAIN s \cap DOMAIN t :
                 s[k] < t[k] /\ \A j \in 1 .. k - 1 : s[j] = t[j]
       /\ reverse(s \o t, Len(s)) = Reverse(s) \o t

\* A format made of pieces prints what the pieces print: a conversion takes
\* its own width and argument and nothing of its neighbours'
FormatsExact(Pieces) ==
  \A p, q, r \in Pieces :
    sprintf(p.fmt \o q.fmt \o r.fmt, p.args \o q.args \o r.args) = p.out \o q.out \o r.out

=============================================================================

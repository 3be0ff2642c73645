----------------------------- MODULE SpotifyId ------------------------------
(* Spotify's identifiers (core/src/spotify_id.rs): a number of Words words and *)
(* its text of Size digits to the base Base. The arithmetic is that of the     *)
(* code, word by word with a carry of two words; only the sizes are constants  *)
(* (there: 4 words of 32 bits, 22 digits to the base 62).                      *)
EXTENDS Integers, Sequences, SequencesExt

CONSTANTS Base, Size, \* of the text
          Word, Words \* of the number

MaxId == Word ^ Words - 1
Invalid == -1

\* checked_mul and checked_add; a character that is no digit is Base.
AddDigit(dst, d) ==
    IF dst = Invalid \/ d = Base \/ dst * Base > MaxId \/ dst * Base + d > MaxId
    THEN Invalid ELSE dst * Base + d

FromBase62(text) == IF Len(text) # Size THEN Invalid ELSE FoldLeft(AddDigit, 0, text)

\* The digits so far, the lowest one first, times a word, plus what is carried.
Wide == Word ^ 2
Multiply(digits, carry) ==
    FoldLeft(LAMBDA acc, b :
                LET sum == (acc.carry + b * Word) % Wide
                IN [digits |-> Append(acc.digits, sum % Base), carry |-> sum \div Base],
             [digits |-> <<>>, carry |-> carry], digits)

RECURSIVE PushCarry(_, _)
PushCarry(digits, carry) ==
    IF carry = 0 THEN digits ELSE PushCarry(Append(digits, carry % Base), carry \div Base)

AddWord(digits, word) ==
    LET m == Multiply(digits, word) IN PushCarry(m.digits, m.carry)

\* The words of n, the highest one first.
WordsOf(n) == [i \in 1 .. Words |-> (n \div Word ^ (Words - i)) % Word]

\* dst has Size places: to write behind them panics.
Digits(n) == FoldLeft(AddWord, <<>>, WordsOf(n))
ToBase62(n) == [i \in 1 .. Size - Len(Digits(n)) |-> 0] \o Reverse(Digits(n))

-----------------------------------------------------------------------------
Value(text) == FoldLeft(LAMBDA v, d : v * Base + d, 0, text)

\* Every identifier has a text, which is read as the same identifier; every text
\* of Size digits is the text of one identifier, or too large for any.
IdsKeepPromise ==
    /\ \A n \in 0 .. MaxId :
         /\ \A i \in 1 .. Words : Len(FoldLeft(AddWord, <<>>, SubSeq(WordsOf(n), 1, i))) <= Size
         /\ FromBase62(ToBase62(n)) = n
    /\ \A text \in [1 .. Size -> 0 .. Base] :
         LET n == FromBase62(text)
         IN /\ (n = Invalid) = ((\E i \in 1 .. Size : text[i] = Base) \/ Value(text) > MaxId)
            /\ n # Invalid => ToBase62(n) = text
=============================================================================

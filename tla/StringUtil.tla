----------------------------- MODULE StringUtil -----------------------------
(***************************************************************************)
(* StringUtil (src/common/string_util.cppm): trimming, searching,          *)
(* comparing without regard to case, and Strtok, whose loop is the only    *)
(* thing here that takes steps.                                            *)
(*                                                                         *)
(* A string is a sequence of character codes.  Positions count from 0 and  *)
(* are std::size_t: sums and differences wrap around, and npos is the      *)
(* greatest of them.  Split, which writes into its argument, is not here.  *)
(***************************************************************************)
EXTENDS Integers, Sequences, SequencesExt

CONSTANTS
    Char,           \* the characters, by their codes
    separator,      \* the one Strtok is called with
    MaxLength,      \* bounds: the length of str, and of the other string
    MaxToken,
    SizeBits        \* the width of std::size_t

ASSUME CharAssumption == Char \subseteq 0..127 /\ separator \in Char
ASSUME SizeAssumption ==
    MaxLength \in Nat /\ MaxToken \in Nat /\ SizeBits \in Nat /\ MaxLength + MaxToken + 1 < 2^SizeBits

VARIABLES
    str, token,     \* the arguments
    newPos, arr,    \* Strtok's local variables
    found_all       \* Strtok has returned

stringVars == <<str, token, newPos, arr, found_all>>

npos == 2^SizeBits - 1
Wrap(n) == n % 2^SizeBits

Strings(n) == UNION {[1..k -> Char] : k \in 0..n}
Positions(s) == 0..Len(s) - 1
CharAt(s, i) == s[i + 1]

\* The least, or the greatest, of the positions; npos if there are none.
Least(S) == IF S = {} THEN npos ELSE CHOOSE i \in S : \A j \in S : i <= j
Greatest(S) == IF S = {} THEN npos ELSE CHOOSE i \in S : \A j \in S : i >= j

-----------------------------------------------------------------------------
(* std::string, as it is used here.                                        *)

NotOf(s, t) == {i \in Positions(s) : CharAt(s, i) \notin ToSet(t)}
find_first_not_of(s, t) == Least(NotOf(s, t))
find_last_not_of(s, t) == Greatest(NotOf(s, t))
find_first_of(s, c, from) == Least({i \in Positions(s) : i >= from /\ CharAt(s, i) = c})

Occurrences(s, t) == {i \in 0..Len(s) - Len(t) : SubSeq(s, i + 1, i + Len(t)) = t}
find(s, t) == Least(Occurrences(s, t))
rfind(s, t) == Greatest(Occurrences(s, t))

\* The string without its n first characters, and with only those; n may be npos.
Without(s, n) == SubSeq(s, n + 1, Len(s))
UpTo(s, n) == IF n >= Len(s) THEN s ELSE SubSeq(s, 1, n)
substr(s, pos, n) == UpTo(Without(s, pos), n)

-----------------------------------------------------------------------------
(* StringUtil.                                                             *)

TrimLeft(s, t) == Without(s, find_first_not_of(s, t))

\* A slip: the last character that stays is cut too.
TrimRightShort(s, t) == UpTo(s, find_last_not_of(s, t))

\* Nothing stays of a string that has only characters to trim: npos + 1 is 0.
TrimRight(s, t) == UpTo(s, Wrap(find_last_not_of(s, t) + 1))

Trim(s, t) == TrimRight(TrimLeft(s, t), t)

StartsWith(s, t) == find(s, t) = 0
EndsWith(s, t) == rfind(s, t) = Wrap(Len(s) - Len(t))
contains(s, t) == find(s, t) # npos

charIsLetter(c) == c \in 65..90 \cup 97..122
Lower(c) == IF c \in 65..90 THEN c + 32 ELSE c
ToLower(s) == [i \in DOMAIN s |-> Lower(s[i])]

EqualsIgnoreCaseSample(s, t) == ToLower(s) = ToLower(t)

EqualsIgnoreCase(s, t) ==
    /\ Len(s) = Len(t)
    /\ \A i \in DOMAIN s :
           s[i] = t[i] \/ /\ charIsLetter(s[i]) /\ charIsLetter(t[i])
                          /\ s[i] - t[i] \in {32, -32}

StringInit ==
    /\ str \in Strings(MaxLength) /\ token \in Strings(MaxToken)
    /\ newPos = 0 /\ arr = <<>> /\ found_all = FALSE

\* One round of Strtok's loop.
StrtokRound ==
    LET pos == find_first_of(str, separator, newPos)
    IN  /\ ~found_all
        /\ arr' = IF pos > newPos THEN Append(arr, substr(str, newPos, pos - newPos)) ELSE arr
        /\ found_all' = (pos = npos)
        /\ newPos' = IF pos = npos THEN newPos ELSE pos + 1
        /\ UNCHANGED <<str, token>>

StringSpec == StringInit /\ [][StrtokRound]_stringVars

-----------------------------------------------------------------------------
Only(s, t) == ToSet(s) \subseteq ToSet(t)

\* What Trim leaves is the middle of the string, between two ends of nothing but characters
\* of the token, and begins and ends with others.
Trimmed ==
    LET t == Trim(str, token)
    IN  /\ \E n \in 0..Len(str) : /\ IsPrefix(t, Without(str, n)) /\ Only(UpTo(str, n), token)
                                  /\ Only(Without(str, n + Len(t)), token)
        /\ t # <<>> => Head(t) \notin ToSet(token) /\ Last(t) \notin ToSet(token)

\* What the three searches answer, for all lengths.  EndsWith is what its comment says (lines 121
\* to 126) but for a string that is shorter than the ending by one character: there it always
\* says yes, since rfind returns npos and the difference of the lengths wraps around to npos
\* (string_util.cppm:128).
Found ==
    /\ StartsWith(str, token) <=> IsPrefix(token, str)
    /\ contains(str, token) <=> \E n \in 0..Len(str) : IsPrefix(token, Without(str, n))
    /\ EndsWith(str, token) <=> IsSuffix(token, str) \/ Len(token) = Len(str) + 1

\* The positions, from 1, at which a piece between separators begins, and where it ends.  An
\* empty piece counts only at the end of the string.
Beginnings ==
    {i \in 1..Len(str) + 1 : /\ i = 1 \/ str[i - 1] = separator
                             /\ i = Len(str) + 1 \/ str[i] # separator}
PieceAt(i) == SubSeq(str, i, (CHOOSE j \in i..Len(str) + 1 :
    /\ j = Len(str) + 1 \/ str[j] = separator
    /\ \A k \in i..j - 1 : str[k] # separator) - 1)
Before(n) == {b \in Beginnings : b <= n}
InOrder(starts) == \A m, n \in DOMAIN starts : m < n => starts[m] < starts[n]
\* arr has the pieces at these beginnings, in their order.
ListsPieces(places) ==
    \E starts \in [DOMAIN arr -> places] :
        /\ InOrder(starts)
        /\ \A b \in places : \E n \in DOMAIN arr : starts[n] = b
        /\ \A n \in DOMAIN arr : arr[n] = PieceAt(starts[n])
StrtokPieces == found_all => ListsPieces(Beginnings)

\* What the rounds preserve: newPos comes after a separator, and arr has the pieces that begin
\* before it.
StrtokInv ==
    /\ str \in Strings(MaxLength) /\ token \in Strings(MaxToken)
    /\ newPos \in 0..Len(str) /\ found_all \in BOOLEAN
    /\ arr \in Seq(Strings(MaxLength))
    /\ newPos = 0 \/ str[newPos] = separator
    /\ ~found_all => ListsPieces(Before(newPos))
    /\ StrtokPieces

\* The functions are what their comments say (line 49 to 141), for empty strings, strings with
\* nothing but separators or characters to trim, and strings of any two lengths, except for the
\* one edge at which EndsWith says yes and should not: that edge is part of Found.  And the two
\* comparisons that ignore case are the same.
StringsAgree ==
    /\ Trimmed /\ Found /\ StrtokPieces
    /\ EqualsIgnoreCase(str, token) <=> EqualsIgnoreCaseSample(str, token)
=============================================================================

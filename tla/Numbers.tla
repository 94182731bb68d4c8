-------------------------------- MODULE Numbers --------------------------------
(***************************************************************************)
(* The pure algorithms: the signed words of the shunt (can_decode.c, with  *)
(* the bench's encoder in ui/sim_can.c), the speed on the dash, the        *)
(* hand-rolled digits of a log row (can_logger.c), and the bounded list of *)
(* sessions (ble_nus.c), each checked against a definition of its own over *)
(* all small inputs.                                                       *)
(*                                                                         *)
(* Widths are parameters, kept in the proportions that matter: a word is   *)
(* four bytes, the base's power below the largest 32-bit number has one    *)
(* digit less than that number.  Loops are recursive functions.            *)
(***************************************************************************)
EXTENDS Integers, Sequences, FiniteSets

CONSTANTS
  ByteBase,            \* 256
  CurrentScale, Divisor,  \* 1000, CONFIG_DASH_CURRENT_DIVISOR
  Base, HexBase,       \* 10, 16
  MaxU32, LowDigits,   \* 2^32 - 1, 9
  MaxValue,            \* bound: numbers printed
  ListMax,             \* LIST_MAX_SESSIONS
  HeadLen, Room,       \* lengths of "LIST " and of the response
  Ids, EntryLens       \* bound: session numbers, lengths of entries

\* b to the n.
Power(b) == LET p[n \in Nat] == IF n = 0 THEN 1 ELSE b * p[n - 1] IN p

ASSUME Widths ==
  /\ ByteBase \in Nat \ {0} /\ ByteBase % 2 = 0 /\ CurrentScale \in Nat \ {0} /\ Divisor \in Nat \ {0}
  /\ {Base, HexBase} \subseteq Nat \ {0, 1} /\ {MaxU32, MaxValue} \subseteq Nat /\ LowDigits \in Nat \ {0}
  /\ Power(Base)[LowDigits] <= MaxU32 /\ MaxU32 < Power(Base)[LowDigits + 1]
ASSUME ListBounds ==
  /\ ListMax \in Nat \ {0} /\ IsFiniteSet(Ids) /\ Ids \subseteq Nat \ {0} /\ EntryLens \subseteq Nat
  /\ {HeadLen, Room} \subseteq Nat /\ HeadLen + 2 <= Room

VARIABLE input         \* what is computed on: nothing yet, then one of Inputs

Word == ByteBase * ByteBase * ByteBase * ByteBase
Int32 == -(Word \div 2)..(Word \div 2 - 1)
Signed(u) == IF u < Word \div 2 THEN u ELSE u - Word      \* of an unsigned word
Wrapped(n) == Signed(n % Word)

\* C divides towards zero.
Quotient(a, b) == IF a >= 0 THEN a \div b ELSE -((-a) \div b)

-----------------------------------------------------------------------------
(* Words of the shunt, pack current, speed.                                  *)

\* put_isa: bytes 2 to 5, least significant first.
PutIsa(v) ==
  <<v % ByteBase, (v \div ByteBase) % ByteBase, (v \div (ByteBase * ByteBase)) % ByteBase,
    (v \div (ByteBase * ByteBase * ByteBase)) % ByteBase>>

\* Mutant of IsaInt32: most significant first.
IsaBigEndian(d) ==
  Signed(((d[1] * ByteBase + d[2]) * ByteBase + d[3]) * ByteBase + d[4])

IsaInt32(d) ==
  Signed(((d[4] * ByteBase + d[3]) * ByteBase + d[2]) * ByteBase + d[1])

\* The current in mA.  Overflow is undefined: the product may wrap before the division,
\* or the two constants may have been divided first.
PackCurrent(d) ==
  LET raw == -IsaInt32(d)
      product == raw * CurrentScale
  IN IF raw \in Int32 /\ product \in Int32 THEN {Quotient(product, Divisor)}
     ELSE {Quotient(Wrapped(product), Divisor)} \cup
          (IF CurrentScale % Divisor = 0 THEN {Wrapped(raw * (CurrentScale \div Divisor))} ELSE {})

\* refresh_cb: whole miles per hour of tenths.
MphRound(x10) == IF x10 >= 0 THEN (x10 + 5) \div 10 ELSE -((-x10 + 5) \div 10)

-----------------------------------------------------------------------------
(* Digits, most significant first.                                           *)

\* put_u32.
PutU32[v \in Nat] == IF v < Base THEN <<v>> ELSE Append(PutU32[v \div Base], v % Base)

\* Mutant of LowPart: without its leading zeros.
LowPartUnpadded(lo) == PutU32[lo]

\* What is left of v after digits were taken from its end, and the last n of them.
Rest(base, v) == LET rest[n \in Nat] == IF n = 0 THEN v ELSE rest[n - 1] \div base IN rest
LastDigits(base, n, v) == [i \in 1..n |-> Rest(base, v)[n - i] % base]

\* The LowDigits lowest digits, all of them.
LowPart(lo) == LastDigits(Base, LowDigits, lo)

\* put_u64: one division by a power of the base for every LowDigits digits.
LowUnit == Power(Base)[LowDigits]
PutU64[v \in Nat] ==
  IF v <= MaxU32 THEN PutU32[v] ELSE PutU64[v \div LowUnit] \o LowPart(v % LowUnit)

\* put_hex: at least min_digits digits.
HexDigits[v \in Nat] == IF v < HexBase THEN 1 ELSE 1 + HexDigits[v \div HexBase]
PutHex(v, min_digits) ==
  LastDigits(HexBase, IF HexDigits[v] < min_digits THEN min_digits ELSE HexDigits[v], v)

-----------------------------------------------------------------------------
(* handle_list_command: the lowest numbers, in whatever order the directory  *)
(* names them, then as many whole entries as fit.                            *)

\* Mutant of Keep: when ListMax are kept, no other is looked at.
KeepFirst(ids, sid) ==
  LET pos == Cardinality({i \in 1..Len(ids) : ids[i] <= sid})
  IN IF Len(ids) >= ListMax THEN ids
     ELSE SubSeq(ids, 1, pos) \o <<sid>> \o SubSeq(ids, pos + 1, Len(ids))

\* Put into its place; the highest drops off.
Keep(ids, sid) ==
  LET pos == Cardinality({i \in 1..Len(ids) : ids[i] <= sid})
      longer == SubSeq(ids, 1, pos) \o <<sid>> \o SubSeq(ids, pos + 1, Len(ids))
  IN IF pos >= ListMax THEN ids
     ELSE IF Len(longer) > ListMax THEN SubSeq(longer, 1, ListMax) ELSE longer

\* What is kept of the first n names of the directory; what is active or synced is
\* passed over.
Kept(dir, active, last_synced) ==
  LET kept[n \in 0..Len(dir)] ==
        IF n = 0 THEN <<>>
        ELSE IF dir[n] = active \/ dir[n] <= last_synced THEN kept[n - 1]
             ELSE Keep(kept[n - 1], dir[n])
  IN kept[Len(dir)]

\* The response after n of the sessions: entries of files that are not empty, up to the
\* first without room.
Response(ids, entry_len) ==
  LET response[n \in 0..Len(ids)] ==
        IF n = 0 THEN [full |-> FALSE, used |-> HeadLen, sent |-> <<>>]
        ELSE LET r == response[n - 1]
                 len == entry_len[ids[n]]
             IN IF r.full \/ len = 0 THEN r
                ELSE IF r.used + len + 2 > Room THEN [r EXCEPT !.full = TRUE]
                ELSE [r EXCEPT !.used = @ + len, !.sent = Append(@, ids[n])]
  IN response[Len(ids)]

-----------------------------------------------------------------------------

None == [kind |-> "none"]

\* Every order of every set of session numbers.
Orders == {dir \in UNION {[1..n -> Ids] : n \in 0..Cardinality(Ids)} :
             \A i, j \in DOMAIN dir : i # j => dir[i] # dir[j]}

Inputs ==
  [kind : {"word"}, v : Int32] \cup [kind : {"digits"}, v : 0..MaxValue, min : 1..LowDigits + 1]
  \cup [kind : {"list"}, dir : Orders,
        entry_len : [Ids -> EntryLens], active : {0} \cup Ids, last_synced : 0..1]

NumbersInit == input = None
Feed == input = None /\ input' \in Inputs
NumbersNext == Feed
NumbersSpec == NumbersInit /\ [][NumbersNext]_input

-----------------------------------------------------------------------------
(* Properties. *)

\* What the bench encodes is what the decoder reads, for every word; the current is the
\* exact quotient wherever the product fits the word, whatever the compiler does with
\* one that does not; and the speed shown is the nearest whole number, the same for
\* reverse as for forward.
DecodedExactly ==
  input.kind = "word" =>
    LET v == input.v IN
      /\ IsaInt32(PutIsa(v)) = v
      /\ ((-v) * CurrentScale) \in Int32 =>
           \A ma \in PackCurrent(PutIsa(v)) :
             LET rest == (-v) * CurrentScale - ma * Divisor
             IN -Divisor < rest /\ rest < Divisor /\ rest * v <= 0
      /\ LET off == v - 10 * MphRound(v) IN -5 <= off /\ off <= 5
      /\ MphRound(-v) = -MphRound(v)

Value(digits, base) ==
  LET value[n \in 0..Len(digits)] == IF n = 0 THEN 0 ELSE value[n - 1] * base + digits[n]
  IN value[Len(digits)]

\* The digits of a row read back as the number, across the border of 32 bits too, with
\* no leading zero in the decimal and no more digits in the hexadecimal than needed or
\* asked for; a 32-bit number fits put_u32's buffer of ten.
RowsReadBack ==
  input.kind = "digits" =>
    LET v == input.v
        hex == PutHex(v, input.min)
    IN /\ Value(PutU64[v], Base) = v /\ (v > 0 => PutU64[v][1] > 0)
       /\ v <= MaxU32 => Len(PutU32[v]) <= LowDigits + 1
       /\ Value(hex, HexBase) = v /\ Len(hex) >= input.min
       /\ Len(hex) > input.min => hex[1] > 0

\* For every order of the directory LIST sends sessions in ascending order, and none is
\* left out below one that was sent, unless it is active, synced or empty: what the
\* phone confirms hides nothing.  What is left out at the end is so for want of places
\* or of room.
ListKeepsLowest ==
  input.kind = "list" =>
    LET wanted == {s \in {input.dir[i] : i \in DOMAIN input.dir} :
                     s # input.active /\ s > input.last_synced}
        kept == Kept(input.dir, input.active, input.last_synced)
        reply == Response(kept, input.entry_len)
        sent == {reply.sent[i] : i \in DOMAIN reply.sent}
    IN /\ \A i, j \in DOMAIN reply.sent : i < j => reply.sent[i] < reply.sent[j]
       /\ sent \subseteq wanted /\ reply.used + 2 <= Room
       /\ \A s \in wanted \ sent :
            \/ input.entry_len[s] = 0
            \/ /\ Len(kept) = ListMax \/ reply.full
               /\ \A t \in sent : t < s
       /\ (Cardinality(wanted) <= ListMax /\ ~reply.full) =>
            sent = {s \in wanted : input.entry_len[s] > 0}

=============================================================================

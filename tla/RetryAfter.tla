----------------------------- MODULE RetryAfter ------------------------------
(***************************************************************************)
(* extract_retry_after_seconds() of src/drcom/src/auth.c: the cooldown a   *)
(* server names in the text of a refusal, which begins at byte 20 of the   *)
(* reply.  A text is a sequence of bytes, digits and blanks among them.    *)
(***************************************************************************)
EXTENDS Integers, Sequences

NUL == 0
Blank == 32
IsDigit(byte) == byte \in 48 .. 57
IsSecond(byte) == byte \in {83, 115}

LongestCooldown == 1800

(* The value read so far stops growing before it can overflow an int. *)
NextValue(value, byte) ==
    IF value < 100000 THEN value * 10 + (byte - 48) ELSE value

(* Is the first byte from position i on that is no blank an s?             *)
SecondsFollow(text, i) ==
    \E j \in i .. Len(text) :
        IsSecond(text[j]) /\ \A k \in i .. j - 1 : text[k] = Blank

InRange(value) == IF value \in 1 .. LongestCooldown THEN value ELSE 0

(* Mutant: a number without a unit is not forgotten. *)
ReadByteOn(text, acc, i) ==
    CASE acc.over -> acc
      [] ~ acc.over /\ text[i] = NUL -> [acc EXCEPT !.over = TRUE]
      [] ~ acc.over /\ IsDigit(text[i]) ->
            [acc EXCEPT !.value = NextValue(@, text[i]), !.digits = TRUE]
      [] ~ acc.over /\ ~ IsDigit(text[i]) /\ text[i] # NUL ->
            IF acc.digits /\ SecondsFollow(text, i)
            THEN [acc EXCEPT !.over = TRUE, !.result = InRange(acc.value)]
            ELSE acc

(* One turn of the loop; `over' once it has been left. *)
ReadByte(text, acc, i) ==
    CASE acc.over -> acc
      [] ~ acc.over /\ text[i] = NUL -> [acc EXCEPT !.over = TRUE]
      [] ~ acc.over /\ IsDigit(text[i]) ->
            [acc EXCEPT !.value = NextValue(@, text[i]), !.digits = TRUE]
      [] ~ acc.over /\ ~ IsDigit(text[i]) /\ text[i] # NUL ->
            IF acc.digits /\ SecondsFollow(text, i)
            THEN [acc EXCEPT !.over = TRUE, !.result = InRange(acc.value)]
            ELSE [acc EXCEPT !.value = 0, !.digits = FALSE]

NothingFound == [value |-> 0, digits |-> FALSE, over |-> FALSE, result |-> 0]

(* What the loop has found after each byte of the text. *)
Scan(text) ==
    LET found[i \in 0 .. Len(text)] ==
            IF i = 0 THEN NothingFound ELSE ReadByte(text, found[i - 1], i)
    IN  found

RetryAfterSeconds(text) == Scan(text)[Len(text)].result

-----------------------------------------------------------------------------
(* What the function is for, without its loop: the first number of the     *)
(* text that is followed by a unit of seconds, if it is no longer than     *)
(* half an hour.  A number of more than four digits, leading zeros apart,  *)
(* is longer, whatever an int makes of it.                                 *)

(* The text up to its terminating NUL. *)
Readable(text) ==
    {i \in DOMAIN text : \A k \in 1 .. i : text[k] # NUL}

(* Maximal runs of digits with their unit behind them. *)
Numbers(text) ==
    {r \in Readable(text) \X Readable(text) :
        /\ r[1] <= r[2] /\ \A k \in r[1] .. r[2] : IsDigit(text[k])
        /\ r[1] > 1 => ~ IsDigit(text[r[1] - 1])
        /\ r[2] + 1 \in Readable(text) /\ ~ IsDigit(text[r[2] + 1])
        /\ SecondsFollow(text, r[2] + 1)}

Significant(text, r) == {k \in r[1] .. r[2] : \E j \in r[1] .. k : text[j] # 48}

Digit(text, r, k) == IF k \in Significant(text, r) THEN text[k] - 48 ELSE 0

Decimal(text, r) ==
    IF r[2] - 4 \in Significant(text, r) THEN LongestCooldown + 1
    ELSE 1000 * Digit(text, r, r[2] - 3) + 100 * Digit(text, r, r[2] - 2)
             + 10 * Digit(text, r, r[2] - 1) + Digit(text, r, r[2])

Cooldown(text) ==
    IF Numbers(text) = {} THEN 0
    ELSE LET first == CHOOSE r \in Numbers(text) :
                        \A q \in Numbers(text) : r[1] <= q[1]
         IN  InRange(Decimal(text, first))
=============================================================================

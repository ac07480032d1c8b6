------------------------------ MODULE EventIds ------------------------------
(***************************************************************************)
(* Event ids as text: EventIdGenerator writes them, Last-Event-ID carries  *)
(* them, and RedisOfflineQueue sorts its members by a key made of them.    *)
(* All the orders the code relies on are orders of strings, so a string is *)
(* the sequence of its characters here: a digit is its value, '-' sorts    *)
(* before every digit and '|' after, as in ASCII.                          *)
(***************************************************************************)
EXTENDS Integers, Sequences

CONSTANTS
    Base,         \* the digits of a number: 10 in the code
    CounterWidth, \* COUNTER_WIDTH, and COUNTER_PAD of the queue: 6 in the code
    MsWidth       \* MS_PAD of the queue: 16 in the code

ASSUME EventIdsAssumption ==
    /\ Base \in Nat \ {0, 1}
    /\ CounterWidth \in Nat \ {0}
    /\ MsWidth \in Nat \ {0}

Dash == -1
Bar  == Base

-----------------------------------------------------------------------------
(* Strings. *)

\* Base to the power of k.
Power[k \in Nat] == IF k = 0 THEN 1 ELSE Base * Power[k - 1]

\* The number of digits of n.
Width(n) == CHOOSE w \in 1..(n + 1) : n < Power[w] /\ (w = 1 \/ Power[w - 1] <= n)

\* String(n).
Digits(n) == [k \in 1..Width(n) |-> (n \div Power[Width(n) - k]) % Base]

padStart(s, width) == [k \in 1..(width - Len(s)) |-> 0] \o s

LexLess(a, b) ==
    \E k \in 1..(Len(a) + 1) :
        /\ k <= Len(b)
        /\ \A j \in 1..(k - 1) : a[j] = b[j]
        /\ k = Len(a) + 1 \/ a[k] < b[k]

-----------------------------------------------------------------------------
(* EventIdGenerator.  An id is kept as the two numbers it is made of. *)

IdPairs == [ms : Nat, counter : Nat]

\* The fields of a new generator; the first call sets both.
NewGenerator == [ms |-> 0, counter |-> 0]

\* A slip: the millisecond of the last id is not remembered.
nextForgets(gen, now) == [ms |-> now, counter |-> 1]

\* next(): the pair is both the generator's new state and the id it returns.
next(gen, now) ==
    IF now = gen.ms
    THEN [gen EXCEPT !.counter = @ + 1]
    ELSE [ms |-> now, counter |-> 1]

IdText(id) == Digits(id.ms) \o <<Dash>> \o padStart(Digits(id.counter), CounterWidth)

\* The counter keeps its width, as it does below a million ids a millisecond.
FitsWidth(id) == id.counter < Power[CounterWidth]

-----------------------------------------------------------------------------
(* The keys of RedisOfflineQueue. *)

lexKey(id) ==
    padStart(Digits(id.ms), MsWidth) \o <<Dash>> \o padStart(Digits(id.counter), CounterWidth)

\* A slip: no carry into the millisecond.
lexKeyNextNoCarry(id) == lexKey([id EXCEPT !.counter = (@ + 1) % Power[CounterWidth]])

lexKeyNext(id) ==
    IF id.counter < Power[CounterWidth] - 1
    THEN lexKey([id EXCEPT !.counter = @ + 1])
    ELSE lexKey([ms |-> id.ms + 1, counter |-> 0])

\* The key, '|' and the JSON of the event, whose first character is fixed and
\* which is told apart from others by its event.
encodeMember(id, event) == lexKey(id) \o <<Bar, Base + event>>

\* The ZRANGEBYLEX of retrieveSince: `[lexKeyNext(sinceId)` to `+`.
InRetrieveRange(member, sinceId) == ~LexLess(member, lexKeyNext(sinceId))

\* The ZRANGEBYLEX of acknowledge: `-` to `(lexKeyNext(upToId)`.
InAcknowledgeRange(member, upToId) == LexLess(member, lexKeyNext(upToId))

=============================================================================

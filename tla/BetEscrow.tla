----------------------------- MODULE BetEscrow -----------------------------
(***************************************************************************)
(* What the Colosseum promises of the money it holds.  A character has a   *)
(* stake in one room at most; a stake is paid back once, whole, or the     *)
(* stakes of a room are shared once by winners that had one; a room whose  *)
(* last stake is gone never takes money again.                             *)
(***************************************************************************)
EXTENDS Naturals, FiniteSets

CONSTANTS Rooms, Characters, Bet, MaxMoney, Purse

VARIABLES
    money,     \* the wallets
    stakes,    \* who has a bet in each room
    closed     \* rooms that are over

escrowVars == <<money, stakes, closed>>

Credited(wallets, S, amount) ==
    [c \in Characters |->
        IF c \notin S THEN wallets[c]
        ELSE IF wallets[c] + amount > MaxMoney THEN MaxMoney ELSE wallets[c] + amount]

EscrowInit ==
    /\ money = [c \in Characters |-> Purse]
    /\ stakes = [r \in Rooms |-> {}]
    /\ closed = {}

Deposit(r, c) ==
    /\ r \notin closed
    /\ \A s \in Rooms : c \notin stakes[s]
    /\ money[c] >= Bet
    /\ money' = [money EXCEPT ![c] = @ - Bet]
    /\ stakes' = [stakes EXCEPT ![r] = @ \cup {c}]
    /\ UNCHANGED closed

Refund(r, S) ==
    /\ S # {}
    /\ money' = Credited(money, S, Bet)
    /\ stakes' = [stakes EXCEPT ![r] = @ \ S]
    /\ closed' = IF S = stakes[r] THEN closed \cup {r} ELSE closed

Share(r, S) ==
    /\ S # {}
    /\ money' = Credited(money, S, (Bet * Cardinality(stakes[r])) \div Cardinality(S))
    /\ stakes' = [stakes EXCEPT ![r] = {}]
    /\ closed' = closed \cup {r}

EscrowNext ==
    \E r \in Rooms :
        \/ \E c \in Characters : Deposit(r, c)
        \/ \E S \in SUBSET stakes[r] : Refund(r, S) \/ Share(r, S)

EscrowSpec == EscrowInit /\ [][EscrowNext]_escrowVars
=============================================================================

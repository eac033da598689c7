----------------------------- MODULE AtomLedger -----------------------------
(* The atom ledger (simulator/accounting/ledger.py), for the atoms of one   *)
(* element in one species: what each account holds, which of it came from   *)
(* the feedstock and which from reagents, and how much cannot be told.      *)
(*                                                                          *)
(* Amounts are whole numbers. Where the code divides, only the transitions  *)
(* whose shares are whole are considered; its tolerances are then zero. A   *)
(* transition that is refused changes nothing: the code projects every      *)
(* container before it assigns one (apply, 637).                            *)
EXTENDS Integers, FiniteSets

CONSTANTS
    Accounts,      \* the accounts of the ledger
    Reservoirs,    \* those that may be overdrawn
    Terminals,     \* those that are not debited,
    Vents,         \* but for these pairs of a terminal and where it may go
    Origins,       \* of material: feedstock and reagent
    CreditLimit,   \* how far a reservoir may be overdrawn
    Loads,         \* external loads: an account, an origin, an amount
    Drawn,         \* debits that may name their origin: an account, an origin
    Amounts,       \* the amounts that are moved at once
    Initial,       \* initial balances, of no known origin
    MaxLots,       \* bound: lots of one transition
    MaxSteps       \* bound: changes of the ledger

Unknown == "unresolved"
Parts == Origins \cup {Unknown}

ASSUME LedgerAssumption ==
    /\ IsFiniteSet(Accounts) /\ IsFiniteSet(Origins)
    /\ {Unknown, "none"} \cap Origins = {}
    /\ Reservoirs \subseteq Accounts
    /\ Terminals \subseteq Accounts
    /\ Vents \subseteq Terminals \X Accounts
    /\ Loads \subseteq Accounts \X Origins \X (Nat \ {0})
    /\ Drawn \subseteq Accounts \X Origins
    /\ CreditLimit \in Nat /\ MaxLots \in Nat /\ MaxSteps \in Nat
    /\ Amounts \subseteq Nat \ {0}
    /\ Initial \in [Accounts -> Nat]

VARIABLES
    balance,     \* _balances
    held,        \* _origin_atom_moles and _unresolved_origin_atom_moles: the parts
                 \* of what an account holds, per origin and of no known one
    external,    \* _external_origin_atom_moles, per origin
    debt,        \* _origin_unattributed_debt_atom_moles_by_account
    cumulative,  \* _cumulative_origin_unattributed_atom_moles
    pooled,      \* _amalgamated_pool_elements: accounts
    steps,       \* bound: changes so far
    drawn        \* history: what reservoirs gave that they did not have

vars == <<balance, held, external, debt, cumulative, pooled, steps, drawn>>

\* The sum of a function into Nat
Total(f) == Cardinality(UNION {{x} \X (1..f[x]) : x \in DOMAIN f})
Positive(n) == IF n > 0 THEN n ELSE 0
Smaller(m, n) == IF m < n THEN m ELSE n

Init ==
    /\ balance = Initial
    /\ held = [a \in Accounts |-> [p \in Parts |-> IF p = Unknown THEN Initial[a] ELSE 0]]
    /\ debt = Initial
    /\ cumulative = Total(Initial)
    /\ external = [o \in Origins |-> 0]
    /\ pooled = {}
    /\ steps = 0
    /\ drawn = 0

Counted == steps < MaxSteps /\ steps' = steps + 1

Kept(a, after) == after >= IF a \in Reservoirs THEN -CreditLimit ELSE 0

(* load_external, load_external_mol: material comes from outside.           *)
Load(a, o, n) ==
    /\ Counted
    /\ Kept(a, balance[a] + n)
    /\ balance' = [balance EXCEPT ![a] = @ + n]
    /\ held' = [held EXCEPT ![a][o] = @ + n]
    /\ external' = [external EXCEPT ![o] = @ + n]
    /\ UNCHANGED <<debt, cumulative, pooled, drawn>>

-----------------------------------------------------------------------------
(* A transition: lots are functions from accounts to amounts, 0 for none.   *)
(* "typed" is the origin its debits name, or "none". An account that is     *)
(* debited and credited at once changes the species of its atoms, so it has *)
(* to hold what it gives, whatever it gets; a reservoir has one species.    *)

Touched(f) == {a \in DOMAIN f : f[a] # 0}
Lots == {f \in [Accounts -> Amounts \cup {0}] : Cardinality(Touched(f)) \in 1..(MaxLots - 1)}
Balanced == {t \in Lots \X Lots :
                /\ Total(t[1]) = Total(t[2])
                /\ Cardinality(Touched(t[1])) + Cardinality(Touched(t[2])) \in 3..MaxLots
                /\ Touched(t[1]) \cap Touched(t[2]) \cap Reservoirs = {}}

TerminalDebitsAllowed(debits, credits) ==
    \A a \in Touched(debits) \cap Terminals :
        \A b \in Touched(credits) : <<a, b>> \in Vents

Tracked(a) == Total(held[a])
Share(part, n, whole) == (n * part) \div whole
Whole(part, n, whole) == (n * part) % whole = 0

(* A debit that names no origin takes of each in proportion; a mixed one is *)
(* split only when it is a pool or is emptied. An account without a tracked *)
(* atom gives atoms nobody can attribute.                                   *)
Divisible(a, n) ==
    Tracked(a) > 0 =>
       /\ n <= Tracked(a)
       /\ \/ Cardinality({o \in Origins : held[a][o] > 0}) <= 1
          \/ a \in pooled
          \/ n = Tracked(a)
       /\ \A p \in Parts : Whole(held[a][p], n, Tracked(a))

Deficit(a, o, n) == Positive(n - held[a][o])

(* A debit that names its origin is refused when there is not enough of it, *)
(* unless the account is a reservoir: then it counts as an external load.   *)
Available(a, n, typed) ==
    IF typed = "none" THEN Divisible(a, n)
    ELSE Deficit(a, typed, n) = 0 \/ a \in Reservoirs

Taken(a, n, typed, p) ==
    CASE n = 0 -> 0
      [] n > 0 /\ typed # "none" -> IF p = typed THEN n ELSE 0
      [] n > 0 /\ typed = "none" /\ Tracked(a) = 0 -> IF p = Unknown THEN n ELSE 0
      [] OTHER -> Share(held[a][p], n, Tracked(a))

\* Mutant: what a reservoir gives beyond its stock is loaded by nobody.
LoadedByNobody(debits, typed, o) == 0

LoadedBy(debits, typed, o) ==
    IF o # typed THEN 0
    ELSE Total([a \in Accounts |-> Deficit(a, o, debits[a])])

\* Mutant: unattributed atoms are forgotten where they arrive.
DebtForgotten(left, arrived) == left

DebtWith(left, arrived) == left + arrived

(* _reconcile_origin_projection: what is tracked is scaled to what is       *)
(* there, and what nobody tracks is of no known origin.                     *)
Scaled(parts, there) ==
    [p \in Parts |-> IF Total(parts) > 0 THEN Share(parts[p], there, Total(parts))
                     ELSE IF p = Unknown THEN there ELSE 0]

Scalable(parts, there) ==
    Total(parts) > 0 => \A p \in Parts : Whole(parts[p], there, Total(parts))

(* Credits share what all debits took, in proportion to their amounts.      *)
Apply(debits, credits, typed) ==
    LET moved == Total(debits)
        after == [a \in Accounts |-> balance[a] - debits[a] + credits[a]]
        gone(a) == Taken(a, debits[a], typed, Unknown)
        backed == [a \in Accounts |-> Smaller(gone(a), debt[a])] IN
    /\ Counted
    /\ TerminalDebitsAllowed(debits, credits)
    /\ \A a \in Touched(debits) :
          /\ Kept(a, balance[a] - debits[a])
          /\ Available(a, debits[a], typed)
    /\ \E all \in [Parts -> 0..moved] :
          LET parts(a) == [p \in Parts |->
                             Positive(held[a][p] - Taken(a, debits[a], typed, p))
                               + Share(all[p], credits[a], moved)] IN
          /\ \A p \in Parts :
                all[p] = Total([a \in Touched(debits) |-> Taken(a, debits[a], typed, p)])
          /\ \A a \in Touched(credits) : \A p \in Parts : Whole(all[p], credits[a], moved)
          /\ \A a \in Accounts : Scalable(parts(a), Positive(after[a]))
          /\ held' = [a \in Accounts |-> Scaled(parts(a), Positive(after[a]))]
          /\ debt' = [a \in Accounts |->
                        DebtWith(debt[a] - backed[a], Share(all[Unknown], credits[a], moved))]
          /\ cumulative' = cumulative + all[Unknown] - Total(backed)
    /\ balance' = after
    /\ external' = [o \in Origins |-> external[o] + LoadedBy(debits, typed, o)]
    /\ drawn' = drawn + Total([a \in Reservoirs |-> Positive(debits[a] - Positive(balance[a]))])

(* transfer, and a proposal that is committed (kernel.planner.commit_batch), *)
(* of three lots or more.                                                   *)
Transfer(debits, credits, typed) ==
    /\ typed # "none" => Touched(debits) \X {typed} \subseteq Drawn
    /\ Apply(debits, credits, typed)
    /\ UNCHANGED pooled

(* move: from one account to one other, which it may declare a pool.        *)
Move(a, b, n, typed, amalgamated) ==
    /\ a # b
    /\ Apply([c \in Accounts |-> IF c = a THEN n ELSE 0],
             [c \in Accounts |-> IF c = b THEN n ELSE 0], typed)
    /\ pooled' = IF amalgamated THEN pooled \cup {b} ELSE pooled

Next ==
    \/ \E l \in Loads : Load(l[1], l[2], l[3])
    \/ \E t \in Balanced, typed \in Origins \cup {"none"} : Transfer(t[1], t[2], typed)
    \/ \E a \in Accounts, b \in Accounts, n \in Amounts, amalgamated \in BOOLEAN :
          Move(a, b, n, "none", amalgamated)
    \/ \E d \in Drawn, b \in Accounts, n \in Amounts : Move(d[1], b, n, d[2], FALSE)

Spec == Init /\ [][Next]_vars

-----------------------------------------------------------------------------
(* Splitting, pooling, overdrafts and the scaling of what is tracked to     *)
(* what is there never make more material of an origin than was loaded of   *)
(* it (ledger.py 834, 2088; yield_disposition.py 1297 refuses a run whose   *)
(* reagents do not close).                                                  *)
NoOriginMinted ==
    \A o \in Origins : Total([a \in Accounts |-> held[a][o]]) <= external[o]

(* Atoms nobody can attribute are counted, as a run's limit on them needs,  *)
(* and passing them around counts them once: the count covers what accounts *)
(* hold of them, and stays within the initial balances and what reservoirs  *)
(* gave that they did not have (ledger.py 1985, 637;                        *)
(* tests/test_yield_disposition.py 1050).                                   *)
CountedOnce ==
    /\ Total([a \in Accounts |-> held[a][Unknown]]) <= cumulative
    /\ cumulative <= Total(Initial) + drawn
=============================================================================

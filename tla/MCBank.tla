------------------------------ MODULE MCBank ------------------------------
(* Bank, instantiated: three goroutines, two accounts. *)
EXTENDS Bank, FiniteSets, FiniteSetsExt

CONSTANTS a1, a2

MakeCall(op, a, r, over) ==
  [op |-> op, account |-> a, receiver |-> r, amount |-> 1,
   allowOverdraw |-> over, threshold |-> 3]

MCCall ==
  {MakeCall(op, a1, a1, FALSE) : op \in {"Withdraw", "DepositAndCompare"}}
  \cup {MakeCall(op, a2, a2, FALSE) : op \in {"CreateAccount", "GetBalance"}}
  \cup {MakeCall("Transfer", a1, r, FALSE) : r \in {a1, a2}}
  \cup {MakeCall("Transfer", a2, a1, TRUE)}

-----------------------------------------------------------------------------
\* The call has written the account it debits or credits first.
Written(c) ==
  \/ pc[c] = "credit"
  \/ pc[c] \in {"find", "get"} /\ Depositing(c)
  \/ pc[c] = "done" /\ (result[c] \/ call[c].op = "DepositAndCompare")

Effect(c, a) ==
  LET k == call[c] IN
  (IF Written(c) /\ Depositing(c) /\ a = k.account THEN k.amount ELSE 0)
  - (IF Written(c) /\ k.op \in {"Withdraw", "Transfer"} /\ a = k.account
     THEN k.amount ELSE 0)
  + (IF pc[c] = "done" /\ result[c] /\ k.op = "Transfer" /\ a = k.receiver
     THEN k.amount ELSE 0)

\* Every balance is what it was plus what the calls that took effect added and
\* took away, whatever their interleaving (the sums that the tests keep beside
\* the bank and compare at the end).
BalancesExplained ==
  (\A c \in Client : pc[c] # "killed") =>
    \A a \in Account :
      balance[a] = opening[a] + MapThenSumSet(LAMBDA c : Effect(c, a), Client)

Debits(c, a) == call[c].op \in {"Withdraw", "Transfer"} /\ call[c].account = a

Below(a) == {c \in Client : /\ call[c].op = "DepositAndCompare" /\ call[c].account = a
                            /\ pc[c] = "done" /\ ~result[c]}

\* When nothing is taken from an account, no more calls of DepositAndCompare
\* report a balance below the threshold than there are deposits that leave it
\* there.  (The test expects exactly that many; a deposit of another call
\* between the deposit and the comparison makes it fewer.)
CompareCount ==
  \A a \in Account : (\A c \in Client : ~Debits(c, a)) =>
    \A c \in Below(a) :
      opening[a] + Cardinality(Below(a)) * call[c].amount < call[c].threshold
=============================================================================

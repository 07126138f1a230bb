------------------------------- MODULE Bank -------------------------------
(***************************************************************************)
(* The bank of src/bank/bank.go: accounts, each with a mutex, in a map     *)
(* guarded by the bank's mutex.  Every client is a goroutine that makes    *)
(* one call.  A step ends where the goroutine may have to wait for a       *)
(* mutex, or between a read and a write of a balance; releasing a mutex    *)
(* belongs to the step before it.                                          *)
(***************************************************************************)
EXTENDS Integers

CONSTANTS Client,    \* the goroutines that call the bank
          Account,   \* account ids
          Call,      \* the calls they may make
          Opening,   \* the balances an account may have at the start
          Nil        \* the holder of a mutex that is free

Op == {"CreateAccount", "Deposit", "Withdraw", "Transfer",
       "DepositAndCompare", "GetBalance"}

\* A call that has no receiver, overdraw or threshold ignores that field.
ASSUME CallAssumption ==
  /\ Call \subseteq [op: Op, account: Account, receiver: Account, amount: Nat,
                     allowOverdraw: BOOLEAN, threshold: Int]
  /\ Opening \subseteq Nat
  /\ Nil \notin Client

VARIABLES accounts,  \* the keys of b.accounts
          opening,   \* the balances at the start (history)
          balance,   \* Account.balance
          bankLock,  \* who holds b.bankLock
          lock,      \* who holds Account.lock
          pc,        \* where each goroutine is
          call,      \* what it called
          seen,      \* the balance it read last
          result     \* what the call returned

vars == <<accounts, opening, balance, bankLock, lock, pc, call, seen, result>>

Place == {"bank", "map", "first", "second", "read", "write", "credit", "find",
           "get", "done", "panicked", "killed"}

-----------------------------------------------------------------------------
\* GetBalance starts at the map, every other call at the bank's mutex.
Entry(op) == IF op = "GetBalance" THEN "find" ELSE "bank"

\* BankInit, and any later state in which no call is in progress.
Init ==
  /\ accounts \in SUBSET Account
  /\ opening \in [Account -> Opening \cup {0}]
  /\ \A a \in Account : opening[a] \in IF a \in accounts THEN Opening ELSE {0}
  /\ balance = opening
  /\ bankLock = Nil
  /\ lock = [a \in Account |-> Nil]
  /\ call \in [Client -> Call]
  /\ pc = [c \in Client |-> Entry(call[c].op)]
  /\ seen = [c \in Client |-> 0]
  /\ result = [c \in Client |-> FALSE]

Goto(c, p) == pc' = [pc EXCEPT ![c] = p]

BadRelease(A) == lock

\* The mutexes of the accounts in A, released or taken.
Release(A) == [a \in Account |-> IF a \in A THEN Nil ELSE lock[a]]
Acquire(a, c) == lock[a] = Nil /\ lock' = [lock EXCEPT ![a] = c]

Depositing(c) == call[c].op \in {"Deposit", "DepositAndCompare"}

\* The accounts whose mutex the call takes.
Touched(c) == {call[c].account} \cup
              (IF call[c].op = "Transfer" THEN {call[c].receiver} ELSE {})

LockBank(c) ==
  /\ pc[c] = "bank" /\ bankLock = Nil
  /\ bankLock' = c
  /\ Goto(c, "map")
  /\ UNCHANGED <<accounts, balance, lock, seen, result>>

\* A panic unwinds without releasing a mutex: no unlock is deferred.  The caller
\* recovers, as the tests do; otherwise the program ends here.
Panic(c) ==
  Goto(c, "panicked") /\ UNCHANGED <<accounts, balance, bankLock, lock, seen, result>>

CreateAccount(c) ==
  LET a == call[c].account IN
  /\ pc[c] = "map" /\ call[c].op = "CreateAccount"
  /\ \/ a \in accounts /\ Panic(c)
     \/ /\ a \notin accounts
        /\ accounts' = accounts \cup {a} /\ balance' = [balance EXCEPT ![a] = 0]
        /\ bankLock' = Nil
        /\ Goto(c, "done")
        /\ UNCHANGED <<lock, seen, result>>

\* Deposit, Withdraw and Transfer look their accounts up; Withdraw releases the
\* bank before it waits for the account.  Deposit on a missing account panics
\* on the nil pointer before it reaches its own check.
LookUp(c) ==
  /\ pc[c] = "map" /\ call[c].op # "CreateAccount"
  /\ \/ ~(Touched(c) \subseteq accounts) /\ Panic(c)
     \/ /\ Touched(c) \subseteq accounts
        /\ bankLock' = IF call[c].op = "Withdraw" THEN Nil ELSE bankLock
        /\ Goto(c, "first")
        /\ UNCHANGED <<accounts, balance, lock, seen, result>>

BadReleasesBank(c) == TRUE

\* Deposit releases the bank once it has the account.
ReleasesBank(c) == Depositing(c)

\* The mutex of the account, or of the sender.
LockFirst(c) ==
  /\ pc[c] = "first" /\ Acquire(call[c].account, c)
  /\ bankLock' = IF ReleasesBank(c) THEN Nil ELSE bankLock
  /\ Goto(c, IF call[c].op = "Transfer" THEN "second" ELSE "read")
  /\ UNCHANGED <<accounts, balance, seen, result>>

BadLockSecond(c) ==
  /\ pc[c] = "second" /\ bankLock' = Nil /\ Goto(c, "read")
  /\ UNCHANGED <<accounts, balance, lock, seen, result>>

\* The receiver's mutex; only then does Transfer release the bank.
LockSecond(c) ==
  /\ pc[c] = "second" /\ Acquire(call[c].receiver, c)
  /\ bankLock' = Nil
  /\ Goto(c, "read")
  /\ UNCHANGED <<accounts, balance, seen, result>>

BadEnough(c) == balance[call[c].account] >= 0 \/ call[c].allowOverdraw

\* Withdraw and Transfer go on if there is enough.
Enough(c) ==
  \/ Depositing(c)
  \/ balance[call[c].account] >= call[c].amount
  \/ call[c].op = "Transfer" /\ call[c].allowOverdraw

ReadBalance(c) ==
  /\ pc[c] = "read"
  /\ seen' = [seen EXCEPT ![c] = balance[call[c].account]]
  /\ \/ Enough(c) /\ Goto(c, "write") /\ UNCHANGED lock
     \/ ~Enough(c) /\ Goto(c, "done") /\ lock' = Release(Touched(c))
  /\ UNCHANGED <<accounts, balance, bankLock, result>>

\* Deposit and Withdraw write the balance and are done, but for the comparison
\* of DepositAndCompare.
WriteBalance(c) ==
  /\ pc[c] = "write" /\ call[c].op # "Transfer"
  /\ balance' = [balance EXCEPT ![call[c].account] =
                   IF Depositing(c) THEN seen[c] + call[c].amount
                                    ELSE seen[c] - call[c].amount]
  /\ lock' = Release(Touched(c))
  /\ result' = [result EXCEPT ![c] = TRUE]
  /\ Goto(c, IF call[c].op = "DepositAndCompare" THEN "find" ELSE "done")
  /\ UNCHANGED <<accounts, bankLock, seen>>

\* Transfer takes the amount from the sender and reads the receiver's balance.
Debit(c) ==
  /\ pc[c] = "write" /\ call[c].op = "Transfer"
  /\ balance' = [balance EXCEPT ![call[c].account] = seen[c] - call[c].amount]
  /\ seen' = [seen EXCEPT ![c] = balance[call[c].receiver]]
  /\ Goto(c, "credit")
  /\ UNCHANGED <<accounts, bankLock, lock, result>>

Credit(c) ==
  /\ pc[c] = "credit"
  /\ balance' = [balance EXCEPT ![call[c].receiver] = seen[c] + call[c].amount]
  /\ lock' = Release(Touched(c))
  /\ result' = [result EXCEPT ![c] = TRUE]
  /\ Goto(c, "done")
  /\ UNCHANGED <<accounts, bankLock, seen>>

\* A CreateAccount is writing the map.
Inserting(d) ==
  pc[d] = "map" /\ call[d].op = "CreateAccount" /\ call[d].account \notin accounts

\* GetBalance reads the map without the bank's mutex.  While an account is
\* inserted it may find the new account or not, and the Go runtime may notice
\* the race and end the program.
FindAccount(c) ==
  LET a == call[c].account IN
  /\ pc[c] = "find"
  /\ \/ a \notin accounts /\ Panic(c)
     \/ /\ a \in accounts \cup {call[d].account : d \in {e \in Client : Inserting(e)}}
        /\ Goto(c, "get")
        /\ UNCHANGED <<accounts, balance, bankLock, lock, seen, result>>
     \/ /\ \E d \in Client : Inserting(d)
        /\ pc' = [d \in Client |-> "killed"]
        /\ UNCHANGED <<accounts, balance, bankLock, lock, seen, result>>

BadCompare(c) == balance[call[c].account] > call[c].threshold

Compare(c) == balance[call[c].account] >= call[c].threshold

\* GetBalance under the account's mutex, and the comparison that follows.
GetBalance(c) ==
  /\ pc[c] = "get" /\ lock[call[c].account] = Nil
  /\ seen' = [seen EXCEPT ![c] = balance[call[c].account]]
  /\ result' = [result EXCEPT ![c] = Compare(c)]
  /\ Goto(c, "done")
  /\ UNCHANGED <<accounts, balance, bankLock, lock>>

Step(c) ==
  /\ \/ LockBank(c) \/ CreateAccount(c) \/ LookUp(c) \/ LockFirst(c) \/ LockSecond(c)
     \/ ReadBalance(c) \/ WriteBalance(c) \/ Debit(c) \/ Credit(c)
     \/ FindAccount(c) \/ GetBalance(c)
  /\ UNCHANGED <<opening, call>>

Next == \E c \in Client : Step(c)

\* A goroutine that can run does run, and sync.Mutex starves nobody: a waiter
\* that finds the mutex free again and again gets it.
Fairness == \A c \in Client : SF_vars(Step(c))

Spec == Init /\ [][Next]_vars

FairSpec == Spec /\ Fairness
-----------------------------------------------------------------------------
\* The types of the fields; a mutex is held by a client or by nobody.
TypeOK ==
  /\ accounts \subseteq Account
  /\ opening \in [Account -> Nat] /\ balance \in [Account -> Int]
  /\ bankLock \in Client \cup {Nil} /\ lock \in [Account -> Client \cup {Nil}]
  /\ pc \in [Client -> Place] /\ call \in [Client -> Call]
  /\ seen \in [Client -> Int] /\ result \in [Client -> BOOLEAN]

\* Between the read and the write of a balance nobody else changes it: Deposit,
\* Withdraw and Transfer write what they read, plus or minus the amount.
NoLostUpdate ==
  \A c \in Client :
    /\ pc[c] = "write" => seen[c] = balance[call[c].account]
    /\ pc[c] = "credit" => seen[c] = balance[call[c].receiver]

InAccount(c, a) == pc[c] \in {"read", "write", "credit"} /\ a \in Touched(c)

\* Two calls are never at one balance together, nor in the map together: the
\* only unsynchronized access of the bank is GetBalance's read of the map.
Exclusive ==
  \A c, d \in Client : c # d =>
    /\ ~(pc[c] = "map" /\ pc[d] = "map")
    /\ \A a \in Account : ~(InAccount(c, a) /\ InAccount(d, a))

Overdrew(c, a) ==
  /\ call[c].op = "Transfer" /\ call[c].allowOverdraw /\ call[c].account = a
  /\ pc[c] \in {"credit", "done", "killed"}

\* The check of Withdraw and Transfer holds when they subtract: only a transfer
\* that allows it makes a balance negative.
NoOverdraft ==
  \A a \in Account : balance[a] >= 0 \/ \E c \in Client : Overdrew(c, a)

Finished(c) == pc[c] \in {"done", "panicked", "killed"}

Waiting(c) ==
  \/ pc[c] = "bank" /\ bankLock # Nil
  \/ pc[c] \in {"first", "get"} /\ lock[call[c].account] # Nil
  \/ pc[c] = "second" /\ lock[call[c].receiver] # Nil

\* A call that panicked in the bank, or a transfer from an account to itself.
Faulty(c) ==
  \/ pc[c] = "panicked" /\ bankLock = c
  \/ pc[c] = "second" /\ call[c].account = call[c].receiver

\* The calls block one another for good only behind a call that panicked with
\* the bank's mutex held or a transfer from an account to itself.
StuckBehindFault ==
  (\A c \in Client : Finished(c) \/ Waiting(c)) =>
    (\A c \in Client : Finished(c)) \/ \E c \in Client : Faulty(c)

\* Every call returns, unless one is faulty: Transfer holds the bank's mutex
\* while it waits for two accounts, and everybody else waits for that mutex.
CallsReturn ==
  \A c \in Client :
    ~Finished(c) ~> (Finished(c) \/ \E d \in Client : Faulty(d))
=============================================================================

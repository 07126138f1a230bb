-------------------------- MODULE GoroutineProofs ---------------------------
(* The programs whose goroutines share memory or channels: who holds which mutex
   of the bank, and what follows from it, for any number of goroutines, accounts
   and calls; both designs of the aggregator implement Aggregator, for any
   stations, readings and number of batches; and the tasks of MapReduce are
   counted, timed and given out in order, for any workers, tasks and crashes. *)
EXTENDS Bank, MutexAggregator, ChannelAggregator, MapReduce, FiniteSetTheorems,
        TLAPS

\* Leaves are first-order unless they say otherwise.
USE ZenonT(60)

-----------------------------------------------------------------------------
(* The bank.                                                               *)

\* c holds the bank's mutex because of where it is.
HoldsBank(c) ==
  \/ pc[c] \in {"map", "second"}
  \/ pc[c] = "first" /\ call[c].op # "Withdraw"

\* c holds the mutex of account a because of where it is.
Holds(c, a) ==
  \/ pc[c] = "second" /\ a = call[c].account
  \/ InAccount(c, a)

\* The mutexes are held where the program text says so, and nowhere else but
\* by goroutines that panicked or were killed.
Holding ==
  /\ \A c \in Client : HoldsBank(c) => bankLock = c
  /\ \A c \in Client :
       bankLock = c => HoldsBank(c) \/ pc[c] \in {"panicked", "killed"}
  /\ \A c \in Client, a \in Account : Holds(c, a) => lock[a] = c
  /\ \A c \in Client, a \in Account : lock[a] = c => Holds(c, a) \/ pc[c] = "killed"

\* What a call has established by the time it has reached a place.
Reached ==
  \A c \in Client :
    /\ pc[c] \in {"bank", "map", "first"} => call[c].op # "GetBalance"
    /\ pc[c] = "first" => call[c].op # "CreateAccount"
    /\ pc[c] \in {"second", "credit"} => call[c].op = "Transfer"
    /\ pc[c] \in {"first", "second", "read", "write", "credit"} =>
         Touched(c) \subseteq accounts
    /\ pc[c] \in {"read", "write", "credit"} /\ call[c].op = "Transfer" =>
         call[c].account # call[c].receiver
    /\ pc[c] = "write" => Enough(c)

BankInv == TypeOK /\ Holding /\ Reached /\ NoLostUpdate /\ NoOverdraft

-----------------------------------------------------------------------------
\* The fields of a call have their types.
LEMMA CallTypes ==
  ASSUME TypeOK, NEW c \in Client
  PROVE  /\ call[c].account \in Account /\ call[c].receiver \in Account
         /\ call[c].amount \in Nat /\ call[c].op \in Op
         /\ call[c].allowOverdraw \in BOOLEAN
         /\ Touched(c) \subseteq Account /\ call[c].account \in Touched(c)
BY CallAssumption, SMTT(60) DEF TypeOK, Touched

\* At the start nobody holds a mutex.
LEMMA InitInv == Init => BankInv
<1> SUFFICES ASSUME Init PROVE BankInv OBVIOUS
<1>2. \A c \in Client : pc[c] = Entry(call[c].op)
  BY DEF Init
<1>1. TypeOK
  <2>1. opening \in [Account -> Nat] /\ balance \in [Account -> Int]
    <3>1. Opening \cup {0} \subseteq Nat
      BY CallAssumption, SMTT(60)
    <3>2. opening \in [Account -> Opening \cup {0}] /\ balance = opening
      BY DEF Init
    <3> QED BY <3>1, <3>2, SMTT(60)
  <2>2. pc \in [Client -> Place]
    BY DEF Init, Entry, Place
  <2>3. result \in [Client -> BOOLEAN] /\ seen \in [Client -> Int]
    BY SMTT(60) DEF Init
  <2> QED BY <2>1, <2>2, <2>3 DEF Init, TypeOK
<1>3. Holding
  BY <1>2, CallAssumption DEF Init, Holding, HoldsBank, Holds, InAccount, Entry
<1>4. Reached /\ NoLostUpdate
  BY <1>2 DEF Reached, NoLostUpdate, Entry
<1>5. NoOverdraft
  BY <1>1, SMTT(60) DEF NoOverdraft, Init, TypeOK
<1> QED BY <1>1, <1>3, <1>4, <1>5 DEF BankInv

\* Nobody but c moves, so nobody else's mutexes change hands.
OthersStay(c) ==
  \A d \in Client : d # c =>
    /\ pc'[d] = pc[d]
    /\ HoldsBank(d)' <=> HoldsBank(d)
    /\ \A a \in Account : Holds(d, a)' <=> Holds(d, a)

\* Every step of a goroutine but the one that ends the program moves it alone.
LEMMA Moves ==
  ASSUME TypeOK, NEW c \in Client, NEW p, pc' = [pc EXCEPT ![c] = p], call' = call
  PROVE  pc'[c] = p /\ OthersStay(c)
<1>1. pc'[c] = p /\ \A d \in Client : d # c => pc'[d] = pc[d]
  BY DEF TypeOK
<1>2. \A d \in Client : Touched(d)' = Touched(d)
  BY DEF Touched
<1> QED BY <1>1, <1>2 DEF HoldsBank, Holds, InAccount, OthersStay

\* A panic in the map keeps the bank's mutex, one in GetBalance holds none.
LEMMA PanicInv ==
  ASSUME BankInv, NEW c \in Client, pc[c] \in {"map", "find"}, Panic(c),
         UNCHANGED <<opening, call>>
  PROVE  BankInv'
<1>0. TypeOK /\ Holding /\ Reached /\ NoLostUpdate /\ NoOverdraft BY DEF BankInv
<1>a. /\ pc' = [pc EXCEPT ![c] = "panicked"]
      /\ UNCHANGED <<accounts, balance, bankLock, lock, seen, result, opening, call>>
  BY DEF Panic, Goto
<1>b. pc \in [Client -> Place] BY <1>0 DEF TypeOK
<1>1. TypeOK'
  BY <1>0, <1>a DEF TypeOK, Place
<1>2. Holding'
  BY <1>0, <1>a, <1>b, CallAssumption, SMTT(60) DEF Holding, HoldsBank, Holds, InAccount, Touched
<1>3. Reached'
  BY <1>0, <1>a, <1>b DEF Reached, Touched, Enough, Depositing
<1>4. NoLostUpdate' /\ NoOverdraft'
  BY <1>0, <1>a, <1>b, SMTT(60) DEF NoLostUpdate, NoOverdraft, Overdrew
<1> QED BY <1>1, <1>2, <1>3, <1>4 DEF BankInv

\* Lock of the bank in CreateAccount, Deposit, Withdraw and Transfer.
LEMMA LockBankInv ==
  ASSUME BankInv, NEW c \in Client, LockBank(c), UNCHANGED <<opening, call>>
  PROVE  BankInv'
<1>0. TypeOK /\ Holding /\ Reached /\ NoLostUpdate /\ NoOverdraft BY DEF BankInv
<1>a. /\ pc[c] = "bank" /\ bankLock = Nil /\ bankLock' = c
      /\ pc' = [pc EXCEPT ![c] = "map"]
      /\ UNCHANGED <<accounts, balance, lock, seen, result, opening, call>>
  BY DEF LockBank, Goto
<1>b. pc \in [Client -> Place] BY <1>0 DEF TypeOK
<1>1. TypeOK'
  BY <1>0, <1>a DEF TypeOK, Place
<1>2. Holding'
  <2>0. pc'[c] = "map" /\ OthersStay(c)
    BY <1>0, <1>a, Moves
  <2>1. ~HoldsBank(c) /\ HoldsBank(c)'
    BY <1>a, <2>0 DEF HoldsBank
  <2>2. \A a \in Account : ~Holds(c, a) /\ ~Holds(c, a)'
    BY <1>a, <2>0 DEF Holds, InAccount
  <2> QED BY <1>0, <1>a, <2>0, <2>1, <2>2, CallAssumption, SMTT(60) DEF Holding, OthersStay
<1>3. Reached'
  BY <1>0, <1>a, <1>b DEF Reached, Touched, Enough, Depositing
<1>4. NoLostUpdate' /\ NoOverdraft'
  BY <1>0, <1>a, <1>b, SMTT(60) DEF NoLostUpdate, NoOverdraft, Overdrew
<1> QED BY <1>1, <1>2, <1>3, <1>4 DEF BankInv

\* CreateAccount inserts an account or panics with the bank's mutex held.
LEMMA CreateAccountInv ==
  ASSUME BankInv, NEW c \in Client, CreateAccount(c), UNCHANGED <<opening, call>>
  PROVE  BankInv'
<1>0. TypeOK /\ Holding /\ Reached /\ NoLostUpdate /\ NoOverdraft BY DEF BankInv
<1>b. pc \in [Client -> Place] /\ balance \in [Account -> Int]
      /\ call[c].account \in Account
  BY <1>0, CallTypes DEF TypeOK
<1>p. CASE Panic(c)
  BY <1>p, PanicInv DEF CreateAccount
<1>i. CASE ~Panic(c)
  <2> DEFINE a == call[c].account
  <2>a. /\ pc[c] = "map" /\ pc' = [pc EXCEPT ![c] = "done"] /\ call[c].op = "CreateAccount"
        /\ a \notin accounts /\ accounts' = accounts \cup {a}
        /\ balance' = [balance EXCEPT ![a] = 0] /\ bankLock' = Nil
        /\ UNCHANGED <<lock, seen, result, opening, call>>
    BY <1>i DEF CreateAccount, Goto
  <2>b. a \in Account BY <1>b
  <2> HIDE DEF a
  <2>1. TypeOK'
    BY <1>0, <2>a, <2>b, SMTT(60) DEF TypeOK, Place
  <2>2. Holding'
    BY <1>0, <2>a, <1>b, CallAssumption, SMTT(60) DEF Holding, HoldsBank, Holds, InAccount, Touched
  <2>c. \A d \in Client : pc[d] \in {"read", "write", "credit"} => a \notin Touched(d)
    BY <1>0, <2>a DEF Reached
  <2>d. \A d \in Client : pc'[d] = "write" => pc[d] = "write" /\ call[d].account # a
    BY <2>a, <2>c, <1>b DEF Touched
  <2>e. \A d \in Client : pc'[d] = "credit" => pc[d] = "credit" /\ call[d].receiver # a
    BY <2>a, <2>c, <1>b, <1>0 DEF Touched, Reached
  <2>f. \A d \in Client : call[d].account \in Account /\ call[d].receiver \in Account
    BY <1>0, CallTypes
  <2>3. Reached'
    <3>1. \A d \in Client : pc'[d] = "write" => Enough(d)'
      BY <1>0, <2>d, <2>a, <1>b, <2>f DEF Reached, Enough, Depositing
    <3>2. \A d \in Client : Touched(d)' = Touched(d)
      BY <2>a DEF Touched
    <3> QED BY <1>0, <2>a, <1>b, <3>1, <3>2 DEF Reached
  <2>4. NoLostUpdate'
    BY <1>0, <2>a, <1>b, <2>d, <2>e, <2>f DEF NoLostUpdate
  <2>5. NoOverdraft'
    BY <1>0, <2>a, <1>b, <2>b, SMTT(60) DEF NoOverdraft, Overdrew
  <2> QED BY <2>1, <2>2, <2>3, <2>4, <2>5 DEF BankInv
<1> QED BY <1>p, <1>i

\* The lookups of Deposit, Withdraw and Transfer.
LEMMA LookUpInv ==
  ASSUME BankInv, NEW c \in Client, LookUp(c), UNCHANGED <<opening, call>>
  PROVE  BankInv'
<1>0. TypeOK /\ Holding /\ Reached /\ NoLostUpdate /\ NoOverdraft BY DEF BankInv
<1>b. pc \in [Client -> Place] BY <1>0 DEF TypeOK
<1>p. CASE Panic(c)
  BY <1>p, PanicInv DEF LookUp
<1>i. CASE ~Panic(c)
  <2>a. /\ pc[c] = "map" /\ pc' = [pc EXCEPT ![c] = "first"] /\ call[c].op # "CreateAccount"
        /\ Touched(c) \subseteq accounts
        /\ bankLock' = (IF call[c].op = "Withdraw" THEN Nil ELSE bankLock)
        /\ UNCHANGED <<accounts, balance, lock, seen, result, opening, call>>
    BY <1>i DEF LookUp, Goto
  <2>1. TypeOK'
    BY <1>0, <2>a DEF TypeOK, Place
  <2>2. Holding'
    <3>0. pc'[c] = "first" /\ OthersStay(c)
      BY <1>0, <2>a, Moves
    <3>1. HoldsBank(c) /\ (HoldsBank(c)' <=> call[c].op # "Withdraw")
      BY <2>a, <3>0 DEF HoldsBank
    <3>2. \A a \in Account : ~Holds(c, a) /\ ~Holds(c, a)'
      BY <2>a, <3>0 DEF Holds, InAccount
    <3> QED BY <1>0, <2>a, <3>0, <3>1, <3>2, CallAssumption, SMTT(60) DEF Holding, OthersStay
  <2>3. Reached'
    BY <1>0, <2>a, <1>b DEF Reached, Touched, Enough, Depositing
  <2>4. NoLostUpdate' /\ NoOverdraft'
    BY <1>0, <2>a, <1>b, SMTT(60) DEF NoLostUpdate, NoOverdraft, Overdrew
  <2> QED BY <2>1, <2>2, <2>3, <2>4 DEF BankInv
<1> QED BY <1>p, <1>i

\* The first mutex of an account; Deposit gives the bank's back.
LEMMA LockFirstInv ==
  ASSUME BankInv, NEW c \in Client, LockFirst(c), UNCHANGED <<opening, call>>
  PROVE  BankInv'
<1> DEFINE a == call[c].account
           p == IF call[c].op = "Transfer" THEN "second" ELSE "read"
<1>0. TypeOK /\ Holding /\ Reached /\ NoLostUpdate /\ NoOverdraft BY DEF BankInv
<1>a. /\ pc[c] = "first" /\ pc' = [pc EXCEPT ![c] = p]
      /\ lock[a] = Nil /\ lock' = [lock EXCEPT ![a] = c]
      /\ bankLock' = (IF Depositing(c) THEN Nil ELSE bankLock)
      /\ UNCHANGED <<accounts, balance, seen, result, opening, call>>
  BY DEF LockFirst, Acquire, ReleasesBank, Goto
<1>b. pc \in [Client -> Place] /\ a \in Account /\ call[c].op \in Op
  BY <1>0, CallTypes DEF TypeOK
<1>c. pc'[c] = p /\ OthersStay(c)
  BY <1>0, <1>a, Moves
<1>d. call[c].op \notin {"GetBalance", "CreateAccount"}
  BY <1>0, <1>a DEF Reached
<1>1. TypeOK'
  BY <1>0, <1>a, <1>b DEF TypeOK, Place
<1>2. Holding'
  <2>1. /\ HoldsBank(c) <=> call[c].op # "Withdraw"
        /\ HoldsBank(c)' <=> call[c].op = "Transfer"
    BY <1>a, <1>c, SMTT(60) DEF HoldsBank
  <2>2. \A b \in Account : ~Holds(c, b)
    BY <1>a DEF Holds, InAccount
  <2>3. \A b \in Account : Holds(c, b)' <=> b = a
    BY <1>a, <1>c, SMTT(60) DEF Holds, InAccount, Touched
  <2>4. Depositing(c) <=> call[c].op \notin {"Withdraw", "Transfer"}
    BY <1>b, <1>d DEF Depositing, Op
  <2> HIDE DEF a, p
  <2>5. /\ \A d \in Client : HoldsBank(d)' => bankLock' = d
        /\ \A d \in Client :
             bankLock' = d => HoldsBank(d)' \/ pc'[d] \in {"panicked", "killed"}
    BY <1>0, <1>a, <1>b, <1>c, <2>1, <2>4, CallAssumption DEF Holding, OthersStay
  <2>6. \A d \in Client, b \in Account : Holds(d, b)' => lock'[b] = d
    BY <1>0, <1>a, <1>b, <1>c, <2>2, <2>3, CallAssumption, SMTT(60) DEF Holding, OthersStay, TypeOK
  <2>7. \A d \in Client, b \in Account :
          lock'[b] = d => Holds(d, b)' \/ pc'[d] = "killed"
    BY <1>0, <1>a, <1>b, <1>c, <2>2, <2>3, CallAssumption, SMTT(60) DEF Holding, OthersStay, TypeOK
  <2> QED BY <2>5, <2>6, <2>7 DEF Holding
<1>3. Reached'
  BY <1>0, <1>a, <1>b, <1>c DEF Reached, Touched, Enough, Depositing
<1>4. NoLostUpdate' /\ NoOverdraft'
  BY <1>0, <1>a, <1>b, SMTT(60) DEF NoLostUpdate, NoOverdraft, Overdrew
<1> QED BY <1>1, <1>2, <1>3, <1>4 DEF BankInv

\* The receiver's mutex; it is not the sender's, which is taken already.
LEMMA LockSecondInv ==
  ASSUME BankInv, NEW c \in Client, LockSecond(c), UNCHANGED <<opening, call>>
  PROVE  BankInv'
<1> DEFINE a == call[c].account
           r == call[c].receiver
<1>0. TypeOK /\ Holding /\ Reached /\ NoLostUpdate /\ NoOverdraft BY DEF BankInv
<1>a. /\ pc[c] = "second" /\ pc' = [pc EXCEPT ![c] = "read"]
      /\ lock[r] = Nil /\ lock' = [lock EXCEPT ![r] = c]
      /\ bankLock' = Nil
      /\ UNCHANGED <<accounts, balance, seen, result, opening, call>>
  BY DEF LockSecond, Acquire, Goto
<1>b. pc \in [Client -> Place] /\ a \in Account /\ r \in Account /\ lock \in [Account -> Client \cup {Nil}]
  BY <1>0, CallTypes DEF TypeOK
<1>c. pc'[c] = "read" /\ OthersStay(c)
  BY <1>0, <1>a, Moves
<1>d. call[c].op = "Transfer" /\ Touched(c) = {a, r} /\ Touched(c)' = {a, r}
  BY <1>0, <1>a DEF Reached, Touched
<1>1. TypeOK'
  BY <1>0, <1>a, <1>b DEF TypeOK, Place
<1>e. \A b \in Account : Holds(c, b) <=> b = a
  BY <1>a DEF Holds, InAccount
<1>f. a # r
  BY <1>0, <1>a, <1>b, <1>e, CallAssumption DEF Holding
<1>2. Holding'
  <2>1. HoldsBank(c) /\ ~HoldsBank(c)'
    BY <1>a, <1>c DEF HoldsBank
  <2>3. \A b \in Account : Holds(c, b)' <=> b \in {a, r}
    BY <1>a, <1>c, <1>d DEF Holds, InAccount
  <2> HIDE DEF a, r
  <2>5. /\ \A d \in Client : HoldsBank(d)' => bankLock' = d
        /\ \A d \in Client :
             bankLock' = d => HoldsBank(d)' \/ pc'[d] \in {"panicked", "killed"}
    BY <1>0, <1>a, <1>b, <1>c, <2>1, CallAssumption DEF Holding, OthersStay
  <2>6. \A d \in Client, b \in Account : Holds(d, b)' => lock'[b] = d
    BY <1>0, <1>a, <1>b, <1>c, <1>e, <2>3, CallAssumption, SMTT(60) DEF Holding, OthersStay
  <2>7. \A d \in Client, b \in Account :
          lock'[b] = d => Holds(d, b)' \/ pc'[d] = "killed"
    BY <1>0, <1>a, <1>b, <1>c, <1>e, <2>3, CallAssumption, SMTT(60) DEF Holding, OthersStay
  <2> QED BY <2>5, <2>6, <2>7 DEF Holding
<1>3. Reached'
  BY <1>0, <1>a, <1>b, <1>c, <1>d, <1>f, SMTT(60) DEF Reached, Touched, Enough, Depositing
<1>4. NoLostUpdate' /\ NoOverdraft'
  BY <1>0, <1>a, <1>b, SMTT(60) DEF NoLostUpdate, NoOverdraft, Overdrew
<1> QED BY <1>1, <1>2, <1>3, <1>4 DEF BankInv

Inside == {"read", "write", "credit"}

\* Calls that are at balances are at different ones.
LEMMA Apart ==
  ASSUME TypeOK, Holding, NEW c \in Client, NEW d \in Client, c # d,
         pc[c] \in Inside, pc[d] \in Inside
  PROVE  Touched(c) \cap Touched(d) = {}
<1>1. Touched(c) \subseteq Account /\ Touched(d) \subseteq Account
  BY CallTypes
<1>2. \A a \in Account : ~(InAccount(c, a) /\ InAccount(d, a))
  BY DEF Holding, Holds
<1> QED BY <1>1, <1>2 DEF InAccount, Inside

\* A call that goes on at its balances keeps its mutexes.
LEMMA GoesOn ==
  ASSUME TypeOK, Holding, NEW c \in Client, NEW p \in Inside, pc[c] \in Inside,
         pc' = [pc EXCEPT ![c] = p], UNCHANGED <<call, bankLock, lock>>
  PROVE  Holding'
<1>1. pc'[c] = p /\ OthersStay(c)
  BY Moves
<1>2. ~HoldsBank(c) /\ ~HoldsBank(c)'
  BY <1>1 DEF HoldsBank, Inside
<1>3. \A a \in Account : Holds(c, a)' <=> Holds(c, a)
  BY <1>1 DEF Holds, InAccount, Inside, Touched
<1>4. pc[c] \notin {"panicked", "killed"} /\ pc'[c] \notin {"panicked", "killed"}
  BY <1>1 DEF Inside
<1> QED BY <1>1, <1>2, <1>3, <1>4, SMTT(60) DEF Holding, OthersStay

\* A call that leaves its balances releases exactly the mutexes it holds.
LEMMA Leaves ==
  ASSUME TypeOK, Holding, NEW c \in Client, NEW p \in {"done", "find"},
         pc[c] \in Inside, pc' = [pc EXCEPT ![c] = p],
         lock' = Release(Touched(c)), UNCHANGED <<call, bankLock>>
  PROVE  Holding' /\ lock' \in [Account -> Client \cup {Nil}]
<1>1. pc'[c] = p /\ OthersStay(c)
  BY Moves
<1>2. ~HoldsBank(c) /\ ~HoldsBank(c)'
  BY <1>1 DEF HoldsBank, Inside
<1>3. \A a \in Account : (Holds(c, a) <=> a \in Touched(c)) /\ ~Holds(c, a)'
  BY <1>1 DEF Holds, InAccount, Inside
<1>4. pc[c] \notin {"panicked", "killed"} /\ pc'[c] \notin {"panicked", "killed"}
  BY <1>1 DEF Inside
<1>5. \A a \in Account : lock'[a] = (IF a \in Touched(c) THEN Nil ELSE lock[a])
  BY DEF Release
<1>6. lock' \in [Account -> Client \cup {Nil}]
  BY DEF Release, TypeOK
<1>7. /\ \A d \in Client : HoldsBank(d)' => bankLock' = d
      /\ \A d \in Client :
           bankLock' = d => HoldsBank(d)' \/ pc'[d] \in {"panicked", "killed"}
  BY <1>1, <1>2, <1>4 DEF Holding, OthersStay
<1>8. \A d \in Client, a \in Account : Holds(d, a)' => lock'[a] = d
  BY <1>1, <1>3, <1>5, SMTT(60) DEF Holding, OthersStay
<1>9. \A d \in Client, a \in Account :
        lock'[a] = d => Holds(d, a)' \/ pc'[d] = "killed"
  BY <1>1, <1>3, <1>4, <1>5, CallAssumption, SMTT(60) DEF Holding, OthersStay
<1> QED BY <1>6, <1>7, <1>8, <1>9 DEF Holding

\* Reading the balance: the call goes on if there is enough, or leaves.
LEMMA ReadBalanceInv ==
  ASSUME BankInv, NEW c \in Client, ReadBalance(c), UNCHANGED <<opening, call>>
  PROVE  BankInv'
<1> DEFINE a == call[c].account
           p == IF Enough(c) THEN "write" ELSE "done"
<1>0. TypeOK /\ Holding /\ Reached /\ NoLostUpdate /\ NoOverdraft BY DEF BankInv
<1>a. /\ pc[c] = "read" /\ pc' = [pc EXCEPT ![c] = p]
      /\ seen' = [seen EXCEPT ![c] = balance[a]]
      /\ UNCHANGED <<accounts, balance, bankLock, result, opening, call>>
  BY DEF ReadBalance, Goto
<1>b. pc \in [Client -> Place] /\ a \in Account /\ balance[a] \in Int
      /\ seen \in [Client -> Int]
  BY <1>0, CallTypes DEF TypeOK
<1>c. pc'[c] = p /\ OthersStay(c)
  BY <1>0, <1>a, Moves
<1>d. \A d \in Client : Touched(d)' = Touched(d) /\ (Enough(d)' <=> Enough(d))
  BY <1>a DEF Touched, Enough, Depositing
<1>2. Holding' /\ lock' \in [Account -> Client \cup {Nil}]
  <2>1. CASE Enough(c)
    <3>1. p = "write" /\ lock' = lock
      BY <2>1 DEF ReadBalance
    <3> QED BY <1>0, <1>a, <3>1, GoesOn DEF Inside, TypeOK
  <2>2. CASE ~Enough(c)
    <3>1. p = "done" /\ lock' = Release(Touched(c))
      BY <2>2 DEF ReadBalance
    <3> QED BY <1>0, <1>a, <3>1, Leaves DEF Inside
  <2> QED BY <2>1, <2>2
<1>1. TypeOK'
  <2>1. seen' \in [Client -> Int] /\ pc' \in [Client -> Place]
    BY <1>a, <1>b DEF Place
  <2> QED BY <1>0, <1>a, <1>2, <2>1 DEF TypeOK
<1>3. Reached'
  <2>1. pc'[c] = "write" => Enough(c) BY <1>c
  <2>2. pc'[c] \in {"write", "done"} BY <1>c
  <2> HIDE DEF p
  <2> QED BY <1>0, <1>a, <1>c, <1>d, <2>1, <2>2 DEF Reached, OthersStay
<1>4. NoLostUpdate'
  BY <1>0, <1>a, <1>b, <1>c DEF NoLostUpdate, OthersStay
<1>5. NoOverdraft'
  BY <1>0, <1>a, <1>b, <1>c, SMTT(60) DEF NoOverdraft, Overdrew, OthersStay
<1> QED BY <1>1, <1>2, <1>3, <1>4, <1>5 DEF BankInv

\* Writing one balance of c leaves what the others saw and checked true.
LEMMA OthersSee ==
  ASSUME TypeOK, Holding, Reached, NoLostUpdate, NEW c \in Client, pc[c] \in Inside,
         NEW b \in Touched(c), NEW v, balance' = [balance EXCEPT ![b] = v],
         UNCHANGED call
  PROVE  \A d \in Client : d # c =>
           /\ pc[d] = "write" => Enough(d)' /\ seen[d] = balance'[call[d].account]
           /\ pc[d] = "credit" => seen[d] = balance'[call[d].receiver]
<1> SUFFICES ASSUME NEW d \in Client, d # c
             PROVE  /\ pc[d] = "write" => Enough(d)' /\ seen[d] = balance'[call[d].account]
                    /\ pc[d] = "credit" => seen[d] = balance'[call[d].receiver]
  OBVIOUS
<1>1. call[d].account \in Account /\ call[d].receiver \in Account /\ b \in Account
      /\ call[d].account \in Touched(d) /\ balance \in [Account -> Int]
  BY CallTypes DEF TypeOK
<1>2. CASE pc[d] = "write"
  <2>1. b # call[d].account
    BY <1>1, <1>2, Apart DEF Inside
  <2>2. balance'[call[d].account] = balance[call[d].account]
    BY <1>1, <2>1
  <2> QED BY <1>2, <2>2 DEF Reached, NoLostUpdate, Enough, Depositing
<1>3. CASE pc[d] = "credit"
  <2>1. call[d].receiver \in Touched(d)
    BY <1>3 DEF Reached, Touched
  <2>2. b # call[d].receiver
    BY <1>3, <2>1, Apart DEF Inside
  <2>3. balance'[call[d].receiver] = balance[call[d].receiver]
    BY <1>1, <2>2
  <2> QED BY <1>3, <2>3 DEF NoLostUpdate
<1> QED BY <1>2, <1>3

\* Deposit and Withdraw write the balance.
LEMMA WriteBalanceInv ==
  ASSUME BankInv, NEW c \in Client, WriteBalance(c), UNCHANGED <<opening, call>>
  PROVE  BankInv'
<1> DEFINE a == call[c].account
           p == IF call[c].op = "DepositAndCompare" THEN "find" ELSE "done"
           v == IF Depositing(c) THEN seen[c] + call[c].amount
                                 ELSE seen[c] - call[c].amount
<1>0. TypeOK /\ Holding /\ Reached /\ NoLostUpdate /\ NoOverdraft BY DEF BankInv
<1>a. /\ pc[c] = "write" /\ pc' = [pc EXCEPT ![c] = p] /\ call[c].op # "Transfer"
      /\ balance' = [balance EXCEPT ![a] = v]
      /\ lock' = Release(Touched(c)) /\ result' = [result EXCEPT ![c] = TRUE]
      /\ UNCHANGED <<accounts, bankLock, seen, opening, call>>
  BY DEF WriteBalance, Goto
<1>b. /\ pc \in [Client -> Place] /\ a \in Account /\ a \in Touched(c)
      /\ balance \in [Account -> Int] /\ seen[c] \in Int /\ call[c].amount \in Nat
  BY <1>0, CallTypes DEF TypeOK
<1>c. pc'[c] = p /\ OthersStay(c)
  BY <1>0, <1>a, Moves
<1>d. \A d \in Client : Touched(d)' = Touched(d)
  BY <1>a DEF Touched
<1>e. pc'[c] \in {"find", "done"} /\ p \in {"find", "done"}
  BY <1>c
<1>f. v \in Int /\ (balance[a] >= 0 => v >= 0)
  <2>1. seen[c] = balance[a] /\ Enough(c)
    BY <1>0, <1>a DEF NoLostUpdate, Reached
  <2> QED BY <1>a, <1>b, <2>1, SMTT(60) DEF Enough
<1> HIDE DEF p, v
<1>2. Holding' /\ lock' \in [Account -> Client \cup {Nil}]
  BY <1>0, <1>a, <1>e, Leaves DEF Inside
<1>1. TypeOK'
  <2>1. pc' \in [Client -> Place] /\ balance' \in [Account -> Int]
    BY <1>a, <1>b, <1>e, <1>f DEF Place
  <2>2. result' \in [Client -> BOOLEAN]
    BY <1>0, <1>a DEF TypeOK
  <2> QED BY <1>0, <1>a, <1>2, <2>1, <2>2 DEF TypeOK
<1>g. \A d \in Client : d # c =>
           /\ pc[d] = "write" => Enough(d)' /\ seen[d] = balance'[call[d].account]
           /\ pc[d] = "credit" => seen[d] = balance'[call[d].receiver]
  BY <1>0, <1>a, <1>b, OthersSee DEF Inside
<1>3. Reached'
  BY <1>0, <1>a, <1>c, <1>d, <1>e, <1>g, SMTT(60) DEF Reached, OthersStay
<1>4. NoLostUpdate'
  BY <1>a, <1>c, <1>e, <1>g DEF NoLostUpdate, OthersStay
<1>5. NoOverdraft'
  BY <1>0, <1>a, <1>b, <1>c, <1>f, SMTT(60) DEF NoOverdraft, Overdrew, OthersStay
<1> QED BY <1>1, <1>2, <1>3, <1>4, <1>5 DEF BankInv

\* Transfer takes the amount from the sender, which is not the receiver.
LEMMA DebitInv ==
  ASSUME BankInv, NEW c \in Client, Debit(c), UNCHANGED <<opening, call>>
  PROVE  BankInv'
<1> DEFINE a == call[c].account
           r == call[c].receiver
           v == seen[c] - call[c].amount
<1>0. TypeOK /\ Holding /\ Reached /\ NoLostUpdate /\ NoOverdraft BY DEF BankInv
<1>a. /\ pc[c] = "write" /\ pc' = [pc EXCEPT ![c] = "credit"] /\ call[c].op = "Transfer"
      /\ balance' = [balance EXCEPT ![a] = v]
      /\ seen' = [seen EXCEPT ![c] = balance[r]]
      /\ UNCHANGED <<accounts, bankLock, lock, result, opening, call>>
  BY DEF Debit, Goto
<1>b. /\ pc \in [Client -> Place] /\ a \in Account /\ a \in Touched(c) /\ r \in Account
      /\ balance \in [Account -> Int] /\ seen \in [Client -> Int]
      /\ call[c].amount \in Nat /\ a # r
  BY <1>0, <1>a, CallTypes DEF TypeOK, Reached
<1>c. pc'[c] = "credit" /\ OthersStay(c)
  BY <1>0, <1>a, Moves
<1>d. \A d \in Client : Touched(d)' = Touched(d)
  BY <1>a DEF Touched
<1>f. v \in Int /\ (call[c].allowOverdraw \/ v >= 0)
  <2>1. seen[c] = balance[a] /\ Enough(c)
    BY <1>0, <1>a DEF NoLostUpdate, Reached
  <2> QED BY <1>a, <1>b, <2>1, SMTT(60) DEF Enough, Depositing
<1> HIDE DEF v
<1>2. Holding'
  BY <1>0, <1>a, GoesOn DEF Inside
<1>1. TypeOK'
  <2>1. pc' \in [Client -> Place] /\ balance' \in [Account -> Int]
        /\ seen' \in [Client -> Int]
    BY <1>a, <1>b, <1>f DEF Place
  <2> QED BY <1>0, <1>a, <2>1 DEF TypeOK
<1>g. \A d \in Client : d # c =>
           /\ pc[d] = "write" => Enough(d)' /\ seen[d] = balance'[call[d].account]
           /\ pc[d] = "credit" => seen[d] = balance'[call[d].receiver]
  BY <1>0, <1>a, <1>b, OthersSee DEF Inside
<1>3. Reached'
  BY <1>0, <1>a, <1>b, <1>c, <1>d, <1>g, SMTT(60) DEF Reached, OthersStay
<1>4. NoLostUpdate'
  BY <1>a, <1>b, <1>c, <1>g DEF NoLostUpdate, OthersStay
<1>5. NoOverdraft'
  <2>1. \A b \in Account : b = a => Overdrew(c, b)' \/ balance'[b] >= 0
    BY <1>a, <1>b, <1>c, <1>f DEF Overdrew
  <2>2. \A d \in Client, b \in Account : Overdrew(d, b) => Overdrew(d, b)'
    BY <1>a, <1>c DEF Overdrew, OthersStay
  <2> HIDE DEF a
  <2>3. \A b \in Account : b # a => balance'[b] = balance[b]
    BY <1>a, <1>b
  <2> QED BY <1>0, <1>b, <2>1, <2>2, <2>3 DEF NoOverdraft
<1> QED BY <1>1, <1>2, <1>3, <1>4, <1>5 DEF BankInv

\* Transfer adds the amount to the receiver.
LEMMA CreditInv ==
  ASSUME BankInv, NEW c \in Client, Credit(c), UNCHANGED <<opening, call>>
  PROVE  BankInv'
<1> DEFINE r == call[c].receiver
           v == seen[c] + call[c].amount
<1>0. TypeOK /\ Holding /\ Reached /\ NoLostUpdate /\ NoOverdraft BY DEF BankInv
<1>a. /\ pc[c] = "credit" /\ pc' = [pc EXCEPT ![c] = "done"]
      /\ balance' = [balance EXCEPT ![r] = v]
      /\ lock' = Release(Touched(c)) /\ result' = [result EXCEPT ![c] = TRUE]
      /\ UNCHANGED <<accounts, bankLock, seen, opening, call>>
  BY DEF Credit, Goto
<1>b. /\ pc \in [Client -> Place] /\ r \in Account /\ r \in Touched(c)
      /\ balance \in [Account -> Int] /\ seen[c] \in Int /\ call[c].amount \in Nat
  BY <1>0, <1>a, CallTypes DEF TypeOK, Reached, Touched
<1>c. pc'[c] = "done" /\ OthersStay(c)
  BY <1>0, <1>a, Moves
<1>d. \A d \in Client : Touched(d)' = Touched(d)
  BY <1>a DEF Touched
<1>f. v \in Int /\ (balance[r] >= 0 => v >= 0)
  BY <1>0, <1>a, <1>b, SMTT(60) DEF NoLostUpdate
<1> HIDE DEF v
<1>2. Holding' /\ lock' \in [Account -> Client \cup {Nil}]
  BY <1>0, <1>a, Leaves DEF Inside
<1>1. TypeOK'
  <2>1. pc' \in [Client -> Place] /\ balance' \in [Account -> Int]
    BY <1>a, <1>b, <1>f DEF Place
  <2>2. result' \in [Client -> BOOLEAN]
    BY <1>0, <1>a DEF TypeOK
  <2> QED BY <1>0, <1>a, <1>2, <2>1, <2>2 DEF TypeOK
<1>g. \A d \in Client : d # c =>
           /\ pc[d] = "write" => Enough(d)' /\ seen[d] = balance'[call[d].account]
           /\ pc[d] = "credit" => seen[d] = balance'[call[d].receiver]
  BY <1>0, <1>a, <1>b, OthersSee DEF Inside
<1>3. Reached'
  BY <1>0, <1>a, <1>c, <1>d, <1>g, SMTT(60) DEF Reached, OthersStay
<1>4. NoLostUpdate'
  BY <1>a, <1>c, <1>g DEF NoLostUpdate, OthersStay
<1>5. NoOverdraft'
  <2>1. \A d \in Client, b \in Account : Overdrew(d, b) => Overdrew(d, b)'
    BY <1>a, <1>c DEF Overdrew, OthersStay
  <2>2. \A b \in Account : balance[b] >= 0 => balance'[b] >= 0
    BY <1>a, <1>b, <1>f
  <2> QED BY <1>0, <2>1, <2>2 DEF NoOverdraft
<1> QED BY <1>1, <1>2, <1>3, <1>4, <1>5 DEF BankInv

\* GetBalance's read of the map takes no mutex; at worst it ends the program.
LEMMA FindAccountInv ==
  ASSUME BankInv, NEW c \in Client, FindAccount(c), UNCHANGED <<opening, call>>
  PROVE  BankInv'
<1>0. TypeOK /\ Holding /\ Reached /\ NoLostUpdate /\ NoOverdraft BY DEF BankInv
<1>b. pc[c] = "find" /\ pc \in [Client -> Place]
  BY <1>0 DEF FindAccount, TypeOK
<1>p. CASE Panic(c)
  BY <1>p, <1>b, PanicInv
<1>i. CASE Goto(c, "get") /\ UNCHANGED <<accounts, balance, bankLock, lock, seen, result>>
  <2>a. /\ pc' = [pc EXCEPT ![c] = "get"]
        /\ UNCHANGED <<accounts, balance, bankLock, lock, seen, result, opening, call>>
    BY <1>i DEF Goto
  <2>0. pc'[c] = "get" /\ OthersStay(c)
    BY <1>0, <2>a, Moves
  <2>1. TypeOK'
    BY <1>0, <2>a DEF TypeOK, Place
  <2>2. Holding'
    <3>1. ~HoldsBank(c) /\ ~HoldsBank(c)'
      BY <1>b, <2>0 DEF HoldsBank
    <3>2. \A a \in Account : ~Holds(c, a) /\ ~Holds(c, a)'
      BY <1>b, <2>0 DEF Holds, InAccount
    <3> QED BY <1>0, <1>b, <2>a, <2>0, <3>1, <3>2, SMTT(60) DEF Holding, OthersStay
  <2>3. Reached'
    BY <1>0, <2>a, <1>b DEF Reached, Touched, Enough, Depositing
  <2>4. NoLostUpdate' /\ NoOverdraft'
    BY <1>0, <2>a, <1>b, SMTT(60) DEF NoLostUpdate, NoOverdraft, Overdrew
  <2> QED BY <2>1, <2>2, <2>3, <2>4 DEF BankInv
<1>k. CASE /\ pc' = [d \in Client |-> "killed"]
           /\ UNCHANGED <<accounts, balance, bankLock, lock, seen, result>>
  <2>a. /\ \A d \in Client : pc'[d] = "killed"
        /\ UNCHANGED <<accounts, balance, bankLock, lock, seen, result, opening, call>>
    BY <1>k
  <2>1. TypeOK'
    BY <1>0, <1>k DEF TypeOK, Place
  <2>2. Holding'
    BY <1>0, <2>a DEF Holding, HoldsBank, Holds, InAccount
  <2>3. Reached' /\ NoLostUpdate'
    BY <2>a DEF Reached, NoLostUpdate
  <2>4. NoOverdraft'
    <3>1. \A d \in Client, b \in Account : Overdrew(d, b) => Overdrew(d, b)'
      BY <2>a DEF Overdrew
    <3> QED BY <1>0, <2>a, <3>1 DEF NoOverdraft
  <2> QED BY <2>1, <2>2, <2>3, <2>4 DEF BankInv
<1> QED BY <1>p, <1>i, <1>k DEF FindAccount

\* GetBalance takes and gives back the account's mutex in one step.
LEMMA GetBalanceInv ==
  ASSUME BankInv, NEW c \in Client, GetBalance(c), UNCHANGED <<opening, call>>
  PROVE  BankInv'
<1>0. TypeOK /\ Holding /\ Reached /\ NoLostUpdate /\ NoOverdraft BY DEF BankInv
<1>a. /\ pc[c] = "get" /\ pc' = [pc EXCEPT ![c] = "done"]
      /\ seen' = [seen EXCEPT ![c] = balance[call[c].account]]
      /\ result' = [result EXCEPT ![c] = Compare(c)]
      /\ UNCHANGED <<accounts, balance, bankLock, lock, opening, call>>
  BY DEF GetBalance, Goto
<1>b. /\ pc \in [Client -> Place] /\ call[c].account \in Account
      /\ balance[call[c].account] \in Int /\ seen \in [Client -> Int]
  BY <1>0, CallTypes DEF TypeOK
<1>c. pc'[c] = "done" /\ OthersStay(c)
  BY <1>0, <1>a, Moves
<1>1. TypeOK'
  <2>1. Compare(c) \in BOOLEAN
    BY SMTT(60) DEF Compare
  <2>2. result' \in [Client -> BOOLEAN]
    BY <1>0, <1>a, <2>1 DEF TypeOK
  <2>3. seen' \in [Client -> Int] /\ pc' \in [Client -> Place]
    BY <1>a, <1>b DEF Place
  <2> QED BY <1>0, <1>a, <2>2, <2>3 DEF TypeOK
<1>2. Holding'
  <2>1. ~HoldsBank(c) /\ ~HoldsBank(c)'
    BY <1>a, <1>c DEF HoldsBank
  <2>2. \A a \in Account : ~Holds(c, a) /\ ~Holds(c, a)'
    BY <1>a, <1>c DEF Holds, InAccount
  <2> QED BY <1>0, <1>a, <1>c, <2>1, <2>2 DEF Holding, OthersStay
<1>3. Reached'
  BY <1>0, <1>a, <1>b DEF Reached, Touched, Enough, Depositing
<1>4. NoLostUpdate' /\ NoOverdraft'
  BY <1>0, <1>a, <1>b, SMTT(60) DEF NoLostUpdate, NoOverdraft, Overdrew
<1> QED BY <1>1, <1>2, <1>3, <1>4 DEF BankInv

\* Every behaviour of the bank keeps the invariant.
LEMMA Invariant == Spec => []BankInv
<1>1. BankInv /\ [Next]_vars => BankInv'
  <2> SUFFICES ASSUME BankInv, [Next]_vars PROVE BankInv' OBVIOUS
  <2>1. ASSUME NEW c \in Client, Step(c) PROVE BankInv'
    <3>1. UNCHANGED <<opening, call>>
      BY <2>1 DEF Step
    <3> QED BY <2>1, <3>1, LockBankInv, CreateAccountInv, LookUpInv, LockFirstInv,
               LockSecondInv, ReadBalanceInv, WriteBalanceInv, DebitInv, CreditInv,
               FindAccountInv, GetBalanceInv DEF Step
  <2>2. CASE UNCHANGED vars
    <3> USE <2>2 DEF vars, BankInv
    <3>1. TypeOK'
      BY DEF TypeOK
    <3>2. Holding'
      BY DEF Holding, HoldsBank, Holds, InAccount, Touched
    <3>3. Reached'
      BY DEF Reached, Touched, Enough, Depositing
    <3>4. NoLostUpdate'
      BY DEF NoLostUpdate
    <3>5. NoOverdraft'
      BY DEF NoOverdraft, Overdrew
    <3> QED BY <3>1, <3>2, <3>3, <3>4, <3>5
  <2> QED BY <2>1, <2>2 DEF Next
<1> QED BY <1>1, InitInv, PTL DEF Spec

\* The race that ends the program ends every goroutine.
KilledTogether == \A c, d \in Client : pc[c] = "killed" => pc[d] = "killed"

\* No goroutine survives another that was killed.
LEMMA TogetherInvariant == Spec => []KilledTogether
<1>1. Init => KilledTogether
  BY DEF Init, Entry, KilledTogether
<1>2. BankInv /\ KilledTogether /\ [Next]_vars => KilledTogether'
  <2> SUFFICES ASSUME BankInv, KilledTogether, [Next]_vars PROVE KilledTogether'
    OBVIOUS
  <2>1. ASSUME NEW c \in Client, Step(c) PROVE KilledTogether'
    <3>1. /\ pc[c] # "killed"
          /\ \/ pc' = [d \in Client |-> "killed"]
             \/ \E p \in Place : p # "killed" /\ pc' = [pc EXCEPT ![c] = p]
      BY <2>1 DEF Step, LockBank, CreateAccount, LookUp, LockFirst, LockSecond,
                  ReadBalance, WriteBalance, Debit, Credit, FindAccount, GetBalance,
                  Panic, Goto, Place
    <3>2. pc \in [Client -> Place]
      BY DEF BankInv, TypeOK
    <3> QED BY <3>1, <3>2 DEF KilledTogether
  <2>2. CASE UNCHANGED vars
    BY <2>2 DEF vars, KilledTogether
  <2> QED BY <2>1, <2>2 DEF Next
<1> QED BY <1>1, <1>2, Invariant, PTL DEF Spec

-----------------------------------------------------------------------------
\* Deposit, Withdraw and Transfer never overwrite one another's updates.
THEOREM UpdatesAreKept == Spec => []NoLostUpdate
<1>1. BankInv => NoLostUpdate
  BY DEF BankInv
<1> QED BY <1>1, Invariant, PTL

\* No two calls are at one balance, or in the map under its mutex, together.
THEOREM CallsExclude == Spec => []Exclusive
<1>1. BankInv => Exclusive
  <2> SUFFICES ASSUME BankInv, NEW c \in Client, NEW d \in Client, c # d
               PROVE  /\ ~(pc[c] = "map" /\ pc[d] = "map")
                      /\ \A a \in Account : ~(InAccount(c, a) /\ InAccount(d, a))
    BY DEF Exclusive
  <2> QED BY DEF BankInv, Holding, HoldsBank, Holds
<1> QED BY <1>1, Invariant, PTL

\* A balance is negative only by a transfer that allows it, though the check of
\* Withdraw and Transfer and the subtraction are separate steps.
THEOREM BalancesStayPositive == Spec => []NoOverdraft
<1>1. BankInv => NoOverdraft
  BY DEF BankInv
<1> QED BY <1>1, Invariant, PTL

\* Taking two account mutexes in any order cannot deadlock, because the bank's
\* mutex is held meanwhile: whoever waits waits, in the end, for a call that can
\* go on, for one that panicked, or for a transfer that waits for itself.
THEOREM OnlyFaultsBlock == Spec => []StuckBehindFault
<1>1. BankInv /\ KilledTogether => StuckBehindFault
  <2> SUFFICES ASSUME BankInv, KilledTogether,
                      \A c \in Client : Finished(c) \/ Waiting(c),
                      NEW w \in Client, ~Finished(w),
                      \A c \in Client : ~Faulty(c)
               PROVE  FALSE
    BY DEF StuckBehindFault
  <2>0. TypeOK /\ Holding /\ Reached BY DEF BankInv
  <2>k. \A c \in Client : pc[c] # "killed"
    BY DEF KilledTogether, Finished
  <2>1. \A c \in Client, a \in Account : lock[a] = c =>
          pc[c] = "second" /\ bankLock = c /\ a = call[c].account
    BY <2>0, <2>k DEF Holding, HoldsBank, Holds, InAccount, Finished, Waiting
  <2>2. ASSUME NEW a \in Account, lock[a] # Nil PROVE FALSE
    <3>0. PICK c \in Client : lock[a] = c
      BY <2>0, <2>2 DEF TypeOK
    <3>1. pc[c] = "second" /\ bankLock = c /\ a = call[c].account
      BY <2>1, <3>0
    <3>2. call[c].receiver \in Account
      BY <2>0, CallTypes
    <3>3. lock[call[c].receiver] # Nil
      BY <3>1 DEF Finished, Waiting
    <3>4. PICK d \in Client : lock[call[c].receiver] = d
      BY <2>0, <3>2, <3>3 DEF TypeOK
    <3>5. bankLock = d /\ call[c].receiver = call[d].account
      BY <2>1, <3>2, <3>4
    <3> QED BY <3>1, <3>5 DEF Faulty
  <2>3. \A c \in Client : call[c].account \in Account /\ call[c].receiver \in Account
    BY <2>0, CallTypes
  <2>4. \A c \in Client : ~Finished(c) => pc[c] = "bank" /\ bankLock # Nil
    BY <2>2, <2>3 DEF Waiting
  <2>5. PICK h \in Client : bankLock = h
    BY <2>0, <2>4 DEF TypeOK
  <2> QED BY <2>0, <2>4, <2>5, <2>k DEF Holding, HoldsBank, Faulty, Finished
<1> QED BY <1>1, Invariant, TogetherInvariant, PTL

-----------------------------------------------------------------------------
(* The aggregators.                                                        *)

\* A station whose report is in the pool has no other report to hand over for the
\* batch.
Reports ==
  /\ batch \in Nat /\ phase = [g \in Goroutine |-> phase[g]]
  /\ published \in Seq({published[i] : i \in DOMAIN published})
  /\ \A g \in Goroutine, r \in pool :
       r.station = g[1] /\ g[2] = batch => phase[g] = "finished"

\* A step of either design.
LoopStep ==
  \/ Environment \/ TakeTick \/ SendAverage \/ TakeQuit
  \/ \E g \in Goroutine : HandOver(g)

-----------------------------------------------------------------------------
\* Publishing a batch adds it to what a reader has seen.
LEMMA OneMore ==
  ASSUME published \in Seq({published[i] : i \in DOMAIN published}), SendAverage
  PROVE  /\ published' \in Seq({published'[i] : i \in DOMAIN published'})
         /\ Stripped' = Append(Stripped, [batch |-> batch, pool |-> pool])
<1> DEFINE x == [batch |-> batch, total |-> total, count |-> count, pool |-> pool]
           y == [batch |-> batch, pool |-> pool]
           S == {published[i] : i \in DOMAIN published}
           T == S \cup {x}
           f(z) == [batch |-> z.batch, pool |-> z.pool]
<1>1. published' = Append(published, x)
  BY DEF SendAverage
<1>2. published \in Seq(T) /\ x \in T /\ f(x) = y
  <2>1. published \in Seq(S)
    OBVIOUS
  <2>2. published \in Seq(T) /\ x \in T
    <3> HIDE DEF S, x
    <3> QED BY <2>1, SMTT(60)
  <2>3. f(x) = y
    OBVIOUS
  <2> QED BY <2>2, <2>3
<1> HIDE DEF S, T, x, y
<1>3. /\ published' \in Seq(T) /\ Len(published') = Len(published) + 1 /\ Len(published) \in Nat
      /\ \A i \in 1 .. Len(published) : published'[i] = published[i]
      /\ published'[Len(published) + 1] = x
      /\ DOMAIN published = 1 .. Len(published) /\ DOMAIN published' = 1 .. Len(published')
  BY <1>1, <1>2, SMTT(60)
<1>4. published' \in Seq({published'[i] : i \in DOMAIN published'})
  BY <1>3, SMTT(60)
<1>5. Stripped = [i \in 1 .. Len(published) |-> f(published[i])]
  BY <1>3 DEF Stripped
<1>6. Stripped' = [i \in 1 .. Len(published) + 1 |-> f(published'[i])]
  BY <1>3 DEF Stripped
<1> DEFINE V == {f(published[i]) : i \in 1 .. Len(published)} \cup {y}
<1>7. Stripped \in Seq(V) /\ y \in V /\ Len(Stripped) = Len(published)
  <2> HIDE DEF f
  <2> QED BY <1>3, <1>5, SMTT(60)
<1>8. Stripped' = Append(Stripped, y)
  <2> DEFINE q == Append(Stripped, y)
  <2>1. /\ q \in Seq(V) /\ Len(q) = Len(published) + 1
        /\ \A i \in 1 .. Len(published) : q[i] = Stripped[i]
        /\ q[Len(published) + 1] = y
    <3> HIDE DEF V
    <3> QED BY <1>3, <1>7, SMTT(60)
  <2>2. q = [i \in 1 .. Len(published) + 1 |-> q[i]]
    <3> HIDE DEF V, q
    <3> QED BY <1>3, <2>1, SMTT(60)
  <2>3. ASSUME NEW i \in 1 .. Len(published) + 1 PROVE q[i] = f(published'[i])
    <3>1. CASE i \in 1 .. Len(published)
      <4> HIDE DEF f, q
      <4> QED BY <1>3, <1>5, <2>1, <3>1
    <3>2. CASE i = Len(published) + 1
      <4>1. q[i] = y /\ published'[i] = x
        <5> HIDE DEF q
        <5> QED BY <1>3, <2>1, <3>2
      <4> HIDE DEF f, q
      <4> QED BY <1>2, <4>1
    <3>3. i \in 1 .. Len(published) \/ i = Len(published) + 1
      BY <1>3, SMTT(60)
    <3> HIDE DEF f, q
    <3> QED BY <3>1, <3>2, <3>3
  <2> HIDE DEF q, f
  <2>4. q = Stripped'
    BY <1>6, <2>2, <2>3
  <2> QED BY <2>4 DEF q
<1> QED BY <1>4, <1>8 DEF y

\* A step preserves Reports and is a step of Aggregator or is not seen.
LEMMA AggregatorStep ==
  ASSUME Reports, LoopStep
  PROVE  Reports' /\ [A!ANext]_(A!avars)
<1>1. CASE Environment
  <2>1. UNCHANGED <<loop, history>>
    BY <1>1 DEF Environment, StationAnswers, TickerFires, SendQuit, ReaderLeaves
  <2>2. UNCHANGED <<batch, pool, published, place>>
    BY <2>1 DEF loop, history
  <2>3. \/ phase' = phase
        \/ \E g \in Goroutine : phase[g] = "asked" /\ phase' = [phase EXCEPT ![g] = "answered"]
    BY <1>1 DEF Environment, StationAnswers, TickerFires, SendQuit, ReaderLeaves
  <2>4. Reports'
    BY <2>2, <2>3, SMTT(60) DEF Reports
  <2> QED BY <2>2, <2>4 DEF A!avars, Stripped
<1>2. CASE TakeTick
  <2>1. /\ UNCHANGED <<batch, pool, published, phase>>
        /\ place = "select" /\ place' = "send"
    BY <1>2 DEF TakeTick, history
  <2>2. Reports'
    BY <2>1 DEF Reports
  <2>3. (place' = "returned") = (place = "returned")
    BY <2>1
  <2> QED BY <2>1, <2>2, <2>3 DEF A!avars, Stripped
<1>3. CASE SendAverage
  <2>1. /\ place = "send" /\ place' = "select" /\ pool' = {} /\ batch' = batch + 1
        /\ phase' = Asking(phase, batch + 1)
    BY <1>3 DEF SendAverage
  <2>2. Reports'
    BY <1>3, <2>1, OneMore, SMTT(60) DEF Reports, Asking
  <2>3. ~(place = "returned") /\ (place' = "returned") = (place = "returned")
    BY <2>1
  <2>4. A!Publish
    BY <1>3, <2>1, <2>3, OneMore DEF Reports, A!Publish
  <2> QED BY <2>2, <2>4 DEF A!ANext
<1>4. CASE TakeQuit
  <2>1. UNCHANGED <<batch, pool, published, phase>> /\ place' = "returned"
    BY <1>4 DEF TakeQuit, history
  <2>2. Reports'
    BY <2>1 DEF Reports
  <2>3. (place' = "returned") = TRUE
    BY <2>1
  <2>4. A!Stop
    BY <2>1, <2>3 DEF A!Stop, Stripped
  <2> QED BY <2>2, <2>4 DEF A!ANext
<1>5. ASSUME NEW g \in Goroutine, HandOver(g) PROVE Reports' /\ [A!ANext]_(A!avars)
  <2> DEFINE rep == [station |-> g[1], batch |-> g[2], value |-> Reading(g[1], g[2])]
  <2>1. /\ phase[g] = "answered" /\ phase' = [phase EXCEPT ![g] = "finished"]
        /\ pool' = IF g[2] = batch THEN pool \cup {rep} ELSE pool
        /\ UNCHANGED <<batch, place, published>>
    BY <1>5 DEF HandOver, InTime
  <2>2. rep.station = g[1] /\ g[1] \in Station
    BY DEF Goroutine
  <2>3. Reports'
    <3>1. \A h \in Goroutine : h # g => phase'[h] = phase[h]
      BY <2>1 DEF Reports
    <3>2. phase'[g] = "finished" /\ (phase = [h \in Goroutine |-> phase[h]])'
      BY <2>1 DEF Reports
    <3>3. ASSUME NEW h \in Goroutine, NEW r \in pool', r.station = h[1], h[2] = batch
          PROVE  phase'[h] = "finished"
      <4>1. CASE h = g
        BY <3>2, <4>1
      <4>2. CASE h # g /\ r \in pool
        BY <3>1, <3>3, <4>2 DEF Reports
      <4>3. CASE h # g /\ r \notin pool
        <5>1. g[2] = batch /\ r = rep
          BY <2>1, <4>3
        <5>2. h[1] = g[1] /\ h[2] = g[2]
          BY <2>2, <3>3, <5>1
        <5>3. h = g
          BY <5>2, SMTT(60) DEF Goroutine
        <5> QED BY <4>3, <5>3
      <4> QED BY <4>1, <4>2, <4>3
    <3> QED BY <2>1, <3>2, <3>3, SMTT(60) DEF Reports
  <2>4. CASE g[2] # batch
    BY <2>1, <2>3, <2>4 DEF A!avars, Stripped
  <2>5. CASE g[2] = batch
    <3>1. \A r \in pool : r.station # g[1]
      BY <2>1, <2>5 DEF Reports
    <3>2. pool' = pool \cup {[station |-> g[1], batch |-> batch, value |-> Reading(g[1], batch)]}
      BY <2>1, <2>5
    <3>3. A!Include(g[1])
      BY <2>1, <3>1, <3>2 DEF A!Include, Stripped
    <3> QED BY <2>2, <2>3, <3>3 DEF A!ANext
  <2> QED BY <2>4, <2>5
<1> QED BY <1>1, <1>2, <1>3, <1>4, <1>5 DEF LoopStep

\* The start of both designs, and their stutters.
LEMMA AggregatorStart == WeatherInit => Reports /\ A!AInit
<1> SUFFICES ASSUME WeatherInit PROVE Reports /\ A!AInit OBVIOUS
<1>1. batch = 0 /\ pool = {} /\ published = <<>> /\ place = "select"
      /\ phase = Asking([g \in Goroutine |-> "none"], 0)
  BY DEF WeatherInit
<1>2. Reports
  BY <1>1, SMTT(60) DEF Reports, Asking
<1>3. Stripped = <<>>
  BY <1>1, SMTT(60) DEF Stripped
<1>4. (place = "returned") = FALSE
  BY <1>1
<1> QED BY <1>1, <1>2, <1>3, <1>4 DEF A!AInit

\* Every step of a loop or a goroutine, and every stutter.
LEMMA AggregatorNext == Reports /\ [LoopStep]_weatherVars => Reports' /\ [A!ANext]_(A!avars)
<1>1. ASSUME Reports, UNCHANGED weatherVars PROVE Reports' /\ UNCHANGED A!avars
  <2>1. UNCHANGED <<batch, phase, place, pool, published>>
    BY <1>1 DEF weatherVars, loop, history
  <2> QED BY <1>1, <2>1 DEF Reports, A!avars, Stripped
<1> QED BY <1>1, AggregatorStep

\* The aggregator with a mutex publishes the batches in order, each with reports
\* of its own, at most one of each station, and nothing after it has returned.
THEOREM MutexImplements == MutexInit /\ [][MutexNext]_weatherVars => ImplementsAggregator
<1>1. [MutexNext]_weatherVars => [LoopStep]_weatherVars
  BY DEF MutexNext, MutexStep, MutexTick, MutexSend, MutexQuit, MutexReport, LoopStep
<1> QED
  BY <1>1, AggregatorStart, AggregatorNext, PTL DEF MutexInit, ImplementsAggregator, A!ASpec

\* So does the aggregator with a channel.
THEOREM ChannelImplements == ChannelInit /\ [][ChannelNext]_weatherVars => ImplementsAggregator
<1>1. [ChannelNext]_weatherVars => [LoopStep]_weatherVars
  BY DEF ChannelNext, ChannelStep, ChannelTick, ChannelSend, ChannelQuit, ChannelReport, LoopStep
<1> QED
  BY <1>1, AggregatorStart, AggregatorNext, PTL DEF ChannelInit, ImplementsAggregator, A!ASpec

-----------------------------------------------------------------------------
(* MapReduce.                                                              *)

MapTask == {"map"} \X MapId
ReduceTask == {"reduce"} \X ReduceId

\* The coordinator's tables: what MarkComplete, GetTask and the timers keep.
Table ==
  /\ status \in [Task -> Status] /\ timers \in [Task -> Nat] /\ left \in [Kind -> Nat]
  /\ CountersExact /\ OneTimer
  /\ \A r \in ReduceId : status[<<"reduce", r>>] # "unstarted" => Open("map") = {}

\* Where a worker can be with the task that it has.
PlacedAt(w) ==
  /\ at[w] = "create" => task[w] \in MapTask /\ step[w] < NReduce
  /\ at[w] = "append" => task[w] \in MapTask /\ step[w] < Len(Emit[task[w][2]])
  /\ at[w] = "read" => task[w] \in ReduceTask /\ step[w] < NMap /\ Open("map") = {}
  /\ at[w] \in {"open", "write"} => task[w] \in ReduceTask
  /\ at[w] = "mark" => task[w] \in Task

Placed ==
  /\ at \in [Worker -> WorkerPlace] /\ task \in [Worker -> Task \cup {Absent}]
  /\ step \in [Worker -> Nat]
  /\ \A w \in Worker : PlacedAt(w)

\* Every partition of the map task's output exists.
Made(m) == \A r \in ReduceId : inter[<<m, r>>] # Absent

\* DoMap has created its files by the time it appends to them, and so has
\* every completed map task.
FilesAt(w) ==
  /\ at[w] = "create" =>
       \A r \in ReduceId : r < step[w] => inter[<<task[w][2], r>>] # Absent
  /\ at[w] = "append" => Made(task[w][2])
  /\ at[w] = "mark" /\ task[w][1] = "map" => Made(task[w][2])

Files ==
  /\ inter \in [MapId \X ReduceId -> Seq(Pair) \cup {Absent}]
  /\ \A w \in Worker : FilesAt(w)
  /\ \A m \in MapId : status[<<"map", m>>] = "completed" => Made(m)

-----------------------------------------------------------------------------
\* A task is its kind and its number.
LEMMA Tasks ==
  /\ Task = MapTask \cup ReduceTask
  /\ \A t \in MapTask : t \in Task /\ t[1] = "map" /\ t[2] \in MapId /\ t = <<"map", t[2]>>
  /\ \A t \in ReduceTask :
       t \in Task /\ t[1] = "reduce" /\ t[2] \in ReduceId /\ t = <<"reduce", t[2]>>
  /\ \A m \in MapId : <<"map", m>> \in MapTask
  /\ \A r \in ReduceId : <<"reduce", r>> \in ReduceTask
  /\ \A t \in Task : t[1] \in Kind
BY SMTT(60) DEF Task, MapTask, ReduceTask, Kind

\* There are NMap map tasks and NReduce reduce tasks.
LEMMA TasksFinite ==
  /\ IsFiniteSet(MapTask) /\ Cardinality(MapTask) = NMap
  /\ IsFiniteSet(ReduceTask) /\ Cardinality(ReduceTask) = NReduce
<1>1. IsFiniteSet({"map"}) /\ Cardinality({"map"}) = 1
      /\ IsFiniteSet({"reduce"}) /\ Cardinality({"reduce"}) = 1
  BY FS_Singleton
<1>2. IsFiniteSet(MapId) /\ Cardinality(MapId) = NMap
      /\ IsFiniteSet(ReduceId) /\ Cardinality(ReduceId) = NReduce
  <2>0. NMap \in Nat \ {0} /\ NReduce \in Nat \ {0}
    BY JobAssumption
  <2>1. 0 \in Int /\ NMap - 1 \in Int /\ NReduce - 1 \in Int
    BY <2>0, SMTT(60)
  <2>2. IsFiniteSet(0 .. NMap - 1) /\ Cardinality(0 .. NMap - 1) = NMap
    <3>1. /\ IsFiniteSet(0 .. NMap - 1)
          /\ Cardinality(0 .. NMap - 1) = IF 0 > NMap - 1 THEN 0 ELSE (NMap - 1) - 0 + 1
      BY <2>1, FS_Interval
    <3> QED BY <3>1, <2>0, SMTT(60)
  <2>3. IsFiniteSet(0 .. NReduce - 1) /\ Cardinality(0 .. NReduce - 1) = NReduce
    <3>1. /\ IsFiniteSet(0 .. NReduce - 1)
          /\ Cardinality(0 .. NReduce - 1) =
               IF 0 > NReduce - 1 THEN 0 ELSE (NReduce - 1) - 0 + 1
      BY <2>1, FS_Interval
    <3> QED BY <3>1, <2>0, SMTT(60)
  <2> QED BY <2>2, <2>3 DEF MapId, ReduceId
<1>3. /\ IsFiniteSet(MapTask) /\ Cardinality(MapTask) = 1 * NMap
      /\ IsFiniteSet(ReduceTask) /\ Cardinality(ReduceTask) = 1 * NReduce
  BY <1>1, <1>2, FS_Product DEF MapTask, ReduceTask
<1> QED BY <1>3, JobAssumption, SMTT(60)

\* The open tasks can be counted; there are none iff the count is zero.
LEMMA OpenFinite ==
  ASSUME NEW k \in Kind
  PROVE  /\ IsFiniteSet(Open(k)) /\ Cardinality(Open(k)) \in Nat
         /\ Cardinality(Open(k)) = 0 <=> Open(k) = {}
<1>1. IsFiniteSet(Task)
  BY Tasks, TasksFinite, FS_Union
<1>2. Open(k) \in SUBSET Task
  BY DEF Open
<1>3. IsFiniteSet(Open(k))
  BY <1>1, <1>2, FS_Subset
<1> QED BY <1>3, FS_EmptySet, FS_CardinalityType

\* MakeCoordinator.
LEMMA TableInit == JobStart => Table
<1> SUFFICES ASSUME JobStart PROVE Table OBVIOUS
<1>1. status \in [Task -> Status] /\ timers \in [Task -> Nat] /\ OneTimer
  BY SMTT(60) DEF JobStart, Status, OneTimer
<1>6. left \in [Kind -> Nat]
  BY JobAssumption DEF JobStart
<1>2. \A t \in Task : status[t] = "unstarted"
  BY DEF JobStart
<1>3. Open("map") = MapTask /\ Open("reduce") = ReduceTask
  BY <1>2, Tasks DEF Open
<1>4. CountersExact
  BY <1>3, TasksFinite DEF CountersExact, JobStart, Kind
<1>5. \A r \in ReduceId : status[<<"reduce", r>>] = "unstarted"
  BY <1>2, Tasks
<1> QED BY <1>1, <1>4, <1>5, <1>6 DEF Table

\* GetTask: a reduce task is given out only when no map task is open.
LEMMA TableAssign ==
  ASSUME Table, NEW w \in Worker, NEW t \in Task, Assign(w, t)
  PROVE  Table'
<1>k. t[1] = NextKind
  BY DEF Assign, Unstarted
<1>a. /\ status[t] = "unstarted"
      /\ status' = [status EXCEPT ![t] = "in progress"]
      /\ left' = left
  BY DEF Assign, Unstarted
<1>t. timers \in [Task -> Nat] /\ timers' = [timers EXCEPT ![t] = @ + 1]
  BY DEF Assign, StartTimer, Table
<1>b. status \in [Task -> Status] /\ timers \in [Task -> Nat] /\ left \in [Kind -> Nat]
      /\ CountersExact /\ OneTimer
  BY DEF Table
<1>1. status' \in [Task -> Status] /\ timers' \in [Task -> Nat] /\ left' \in [Kind -> Nat]
  <2>1. status' \in [Task -> Status]
    BY <1>a, <1>b DEF Status
  <2>2. timers' \in [Task -> Nat]
    BY <1>t, SMTT(60)
  <2> QED BY <2>1, <2>2, <1>a, <1>b
<1>2. \A k \in Kind : Open(k)' = Open(k)
  BY <1>a, <1>b DEF Open
<1>3. CountersExact'
  BY <1>a, <1>b, <1>2 DEF CountersExact
<1>4. OneTimer'
  <2>1. \A u \in Task : u # t => timers'[u] = timers[u] /\ status'[u] = status[u]
    BY <1>a, <1>b, <1>t
  <2>2. timers[t] = 0
    BY <1>a, <1>b DEF OneTimer
  <2>3. timers'[t] = 1
    BY <1>t, <2>2, SMTT(60)
  <2>4. status'[t] = "in progress"
    BY <1>a, <1>b
  <2> SUFFICES ASSUME NEW u \in Task
               PROVE  /\ timers'[u] <= 1
                      /\ status'[u] = "in progress" => timers'[u] = 1
                      /\ status'[u] = "unstarted" => timers'[u] = 0
    BY DEF OneTimer
  <2>5. CASE u = t
    <3>1. timers'[u] = 1 /\ status'[u] = "in progress"
      BY <2>3, <2>4, <2>5
    <3>2. 0 <= 1 /\ 1 <= 1
      BY SMTT(60)
    <3> QED BY <3>1, <3>2
  <2>6. CASE u # t
    <3>1. timers'[u] = timers[u] /\ status'[u] = status[u]
      BY <2>1, <2>6
    <3> QED BY <1>b, <3>1 DEF OneTimer
  <2> QED BY <2>5, <2>6
<1>5. ASSUME NEW r \in ReduceId, status'[<<"reduce", r>>] # "unstarted"
      PROVE  Open("map")' = {}
  <2>1. CASE t = <<"reduce", r>>
    <3>1. left["map"] = 0
      BY <1>k, <2>1 DEF NextKind
    <3> QED BY <3>1, <1>b, <1>2, OpenFinite DEF CountersExact, Kind
  <2>2. CASE t # <<"reduce", r>>
    <3>1. status[<<"reduce", r>>] # "unstarted"
      BY <1>5, <1>a, <1>b, <2>2, Tasks
    <3> QED BY <3>1, <1>2 DEF Table, Kind
  <2> QED BY <2>1, <2>2
<1> QED BY <1>1, <1>3, <1>4, <1>5 DEF Table

\* DetectStraggler takes a task back, or finds it completed.
LEMMA TableStraggler ==
  ASSUME Table, NEW t \in Task, DetectStraggler(t)
  PROVE  Table'
<1>a. /\ left' = left
      /\ status' = IF status[t] = "in progress"
                   THEN [status EXCEPT ![t] = "unstarted"] ELSE status
  BY DEF DetectStraggler, Resets
<1>t. /\ timers \in [Task -> Nat] /\ timers[t] > 0
      /\ timers' = [timers EXCEPT ![t] = @ - 1]
  BY DEF DetectStraggler, Table
<1>b. status \in [Task -> Status] /\ timers \in [Task -> Nat] /\ left \in [Kind -> Nat]
      /\ CountersExact /\ OneTimer
  BY DEF Table
<1>1. status' \in [Task -> Status] /\ timers' \in [Task -> Nat] /\ left' \in [Kind -> Nat]
  <2>1. status' \in [Task -> Status]
    BY <1>a, <1>b DEF Status
  <2>2. timers' \in [Task -> Nat]
    BY <1>t, SMTT(60)
  <2> QED BY <2>1, <2>2, <1>a, <1>b
<1>2. \A k \in Kind : Open(k)' = Open(k)
  BY <1>a, <1>b DEF Open
<1>3. CountersExact'
  BY <1>a, <1>b, <1>2 DEF CountersExact
<1>4. OneTimer'
  <2>1. \A u \in Task : u # t => timers'[u] = timers[u] /\ status'[u] = status[u]
    BY <1>a, <1>b, <1>t
  <2>2. timers'[t] = timers[t] - 1
    BY <1>t
  <2>3. timers[t] <= 1
    BY <1>b DEF OneTimer
  <2>4. timers'[t] = 0
    BY <1>t, <2>2, <2>3, SMTT(60)
  <2>5. status'[t] # "in progress"
    BY <1>a, <1>b
  <2> SUFFICES ASSUME NEW u \in Task
               PROVE  /\ timers'[u] <= 1
                      /\ status'[u] = "in progress" => timers'[u] = 1
                      /\ status'[u] = "unstarted" => timers'[u] = 0
    BY DEF OneTimer
  <2>6. CASE u = t
    <3>1. timers'[u] = 0 /\ status'[u] # "in progress"
      BY <2>4, <2>5, <2>6
    <3>2. 0 <= 1 /\ 1 <= 1
      BY SMTT(60)
    <3> QED BY <3>1, <3>2
  <2>7. CASE u # t
    <3>1. timers'[u] = timers[u] /\ status'[u] = status[u]
      BY <2>1, <2>7
    <3> QED BY <1>b, <3>1 DEF OneTimer
  <2> QED BY <2>6, <2>7
<1>5. \A r \in ReduceId : status'[<<"reduce", r>>] # "unstarted" => Open("map")' = {}
  BY <1>a, <1>b, <1>2, Tasks DEF Table, Kind
<1> QED BY <1>1, <1>3, <1>4, <1>5 DEF Table

\* MarkComplete counts a task once: it leaves the open tasks, or nothing changes.
LEMMA TableMark ==
  ASSUME Table, NEW w \in Worker, task[w] \in Task, MarkComplete(w)
  PROVE  Table'
<1> DEFINE t == task[w]
           j == t[1]
<1>a. /\ status' = IF status[t] = "in progress"
                   THEN [status EXCEPT ![t] = "completed"] ELSE status
      /\ left' = IF status[t] = "in progress"
                 THEN [left EXCEPT ![j] = @ - 1] ELSE left
      /\ timers' = timers
  BY DEF MarkComplete, Counts
<1>b. status \in [Task -> Status] /\ timers \in [Task -> Nat] /\ left \in [Kind -> Nat]
      /\ CountersExact /\ OneTimer
      /\ t \in Task /\ j \in Kind
  BY Tasks DEF Table
<1>f. status[t] = "in progress" =>
        /\ t \in Open(j)
        /\ \A k \in Kind : Open(k)' = IF j = k THEN Open(k) \ {t} ELSE Open(k)
  BY <1>a, <1>b DEF Open
<1> HIDE DEF t, j
<1>c. CASE status[t] # "in progress"
  <2>1. status' = status /\ left' = left /\ timers' = timers
    BY <1>a, <1>c
  <2> QED BY <2>1 DEF Table, CountersExact, OneTimer, Open
<1>d. CASE status[t] = "in progress"
  <2>1. status' \in [Task -> Status] /\ timers' \in [Task -> Nat]
    BY <1>a, <1>b DEF Status
  <2>2. \A k \in Kind : Open(k)' = IF j = k THEN Open(k) \ {t} ELSE Open(k)
    BY <1>d, <1>f
  <2>3. t \in Open(j)
    BY <1>d, <1>f
  <2>4. CountersExact'
    <3> SUFFICES ASSUME NEW k \in Kind PROVE left'[k] = Cardinality(Open(k)')
      BY DEF CountersExact
    <3>0. left' = [left EXCEPT ![j] = @ - 1] /\ left \in [Kind -> Nat]
      BY <1>a, <1>b, <1>d
    <3>1. left[k] = Cardinality(Open(k)) /\ IsFiniteSet(Open(k))
      BY <1>b, OpenFinite DEF CountersExact
    <3>2. CASE j = k
      <4>1. Cardinality(Open(k) \ {t}) = Cardinality(Open(k)) - 1
        BY <2>3, <3>1, <3>2, FS_RemoveElement
      <4>2. left'[k] = left[k] - 1
        BY <3>0, <3>2
      <4> QED BY <2>2, <3>1, <3>2, <4>1, <4>2
    <3>3. CASE j # k
      <4>1. left'[k] = left[k]
        BY <3>0, <3>3
      <4> QED BY <2>2, <3>1, <3>3, <4>1
    <3> QED BY <3>2, <3>3
  <2>5. OneTimer'
    BY <1>a, <1>b, <1>d DEF OneTimer
  <2>6. Open("map")' \subseteq Open("map")
    BY <2>2 DEF Kind
  <2>7. \A r \in ReduceId : status'[<<"reduce", r>>] # "unstarted" => Open("map")' = {}
    BY <1>a, <1>b, <1>d, <2>6, Tasks DEF Table
  <2>8. left' \in [Kind -> Nat]
    <3>1. \A k \in Kind : left'[k] \in Nat
      BY <2>4, <2>2, OpenFinite, FS_RemoveElement, FS_CardinalityType, SMTT(60) DEF CountersExact
    <3> QED BY <1>a, <1>b, <3>1
  <2> QED BY <2>1, <2>4, <2>5, <2>7, <2>8 DEF Table
<1> QED BY <1>c, <1>d

-----------------------------------------------------------------------------
\* Worker, files and coordinator together.
JobInv == Table /\ Placed /\ Files /\ ExitWhenDone

\* Workers that have just started, and no files.
LEMMA JobInit == JobStart => JobInv
<1> SUFFICES ASSUME JobStart PROVE JobInv OBVIOUS
<1>1. Placed
  BY DEF JobStart, Placed, PlacedAt, WorkerPlace
<1>2. inter \in [MapId \X ReduceId -> Seq(Pair) \cup {Absent}]
  BY DEF JobStart
<1>3. \A m \in MapId : status[<<"map", m>>] = "unstarted"
  BY Tasks DEF JobStart
<1>4. Files
  BY <1>2, <1>3 DEF JobStart, Files, FilesAt
<1>5. ExitWhenDone
  BY DEF JobStart, ExitWhenDone
<1> QED BY <1>1, <1>4, <1>5, TableInit DEF JobInv

\* A worker that moves alone, its place and its loop index.
LEMMA WorkerMoves ==
  ASSUME Placed, NEW w \in Worker, NEW p \in WorkerPlace, NEW i \in Nat, MoveTo(w, p, i)
  PROVE  /\ at' \in [Worker -> WorkerPlace] /\ step' \in [Worker -> Nat]
         /\ at'[w] = p /\ step'[w] = i
         /\ \A v \in Worker : v # w => at'[v] = at[v] /\ step'[v] = step[v]
BY DEF Placed, MoveTo

\* Files are never removed, and a step of w moves nobody else.
Grows == \A f \in MapId \X ReduceId : inter[f] # Absent => inter'[f] # Absent

Alone(w) ==
  \A v \in Worker : v # w => at'[v] = at[v] /\ step'[v] = step[v] /\ task'[v] = task[v]

\* Then it is enough to look at the place of w ...
LEMMA PlacedStep ==
  ASSUME Placed, NEW w \in Worker, Alone(w), PlacedAt(w)',
         at' \in [Worker -> WorkerPlace], task' \in [Worker -> Task \cup {Absent}],
         step' \in [Worker -> Nat], Open("map") = {} => Open("map")' = {}
  PROVE  Placed'
<1>1. ASSUME NEW v \in Worker, v # w PROVE PlacedAt(v)'
  <2>1. at'[v] = at[v] /\ step'[v] = step[v] /\ task'[v] = task[v]
    BY <1>1 DEF Alone
  <2>2. PlacedAt(v)
    BY DEF Placed
  <2> QED BY <2>1, <2>2 DEF PlacedAt
<1> QED BY <1>1 DEF Placed

\* ... at the files of w, which others may rely on once its task is completed.
LEMMA FilesStep ==
  ASSUME Placed, Files, NEW w \in Worker, Alone(w), FilesAt(w)', Grows,
         inter' \in [MapId \X ReduceId -> Seq(Pair) \cup {Absent}],
         \A m \in MapId : status'[<<"map", m>>] = "completed" =>
                            status[<<"map", m>>] = "completed" \/ Made(m)
  PROVE  Files'
<1>1. \A m \in MapId, r \in ReduceId : inter[<<m, r>>] # Absent => inter'[<<m, r>>] # Absent
  BY DEF Grows
<1>2. \A m \in MapId : Made(m) => Made(m)'
  BY <1>1 DEF Made
<1>3. ASSUME NEW v \in Worker, v # w PROVE FilesAt(v)'
  <2>1. at'[v] = at[v] /\ step'[v] = step[v] /\ task'[v] = task[v]
    BY <1>3 DEF Alone
  <2>2. FilesAt(v) /\ PlacedAt(v)
    BY DEF Placed, Files
  <2>3. at[v] \in {"create", "append"} => task[v][2] \in MapId
    BY <2>2, Tasks DEF PlacedAt
  <2>4. at[v] = "mark" /\ task[v][1] = "map" => task[v][2] \in MapId
    BY <2>2, Tasks DEF PlacedAt
  <2> QED BY <1>1, <2>1, <2>2, <2>3, <2>4 DEF FilesAt, Made
<1> QED BY <1>2, <1>3 DEF Files

\* The tables are the only thing that Open depends on.
LEMMA OpenStays ==
  ASSUME status' = status
  PROVE  \A k \in Kind : Open(k)' = Open(k)
BY DEF Open

\* A step of a worker among the files leaves the tables alone.
LEMMA TableStays ==
  ASSUME Table, UNCHANGED <<status, left, timers>>
  PROVE  Table'
BY DEF Table, CountersExact, OneTimer, Open

\* No task is reopened once it is completed, so workers that left left rightly.
LEMMA ExitStep ==
  ASSUME ExitWhenDone, NEW w \in Worker, Alone(w), at'[w] # "exit",
         \A k \in Kind : Open(k)' \subseteq Open(k)
  PROVE  ExitWhenDone'
BY DEF ExitWhenDone, Alone, Kind

\* A step of w that leaves the coordinator and its own task alone.
LEMMA WorkerStep ==
  ASSUME JobInv, NEW w \in Worker, NEW p \in WorkerPlace, p # "exit", NEW i \in Nat,
         MoveTo(w, p, i), UNCHANGED <<status, left, timers, task>>, Grows,
         inter' \in [MapId \X ReduceId -> Seq(Pair) \cup {Absent}],
         PlacedAt(w)', FilesAt(w)'
  PROVE  JobInv'
<1>0. Table /\ Placed /\ Files /\ ExitWhenDone
  BY DEF JobInv
<1>1. /\ at' \in [Worker -> WorkerPlace] /\ step' \in [Worker -> Nat] /\ at'[w] = p
      /\ Alone(w) /\ task' \in [Worker -> Task \cup {Absent}]
  BY <1>0, WorkerMoves DEF Alone, Placed
<1>2. \A k \in Kind : Open(k)' = Open(k)
  BY OpenStays
<1>3. Placed'
  BY <1>0, <1>1, <1>2, PlacedStep DEF Kind
<1>4. Files'
  BY <1>0, <1>1, FilesStep
<1>5. ExitWhenDone'
  BY <1>0, <1>1, <1>2, ExitStep
<1> QED BY <1>0, <1>3, <1>4, <1>5, TableStays DEF JobInv

\* GetTask, as the worker sees it.
LEMMA AssignInv ==
  ASSUME JobInv, NEW w \in Worker, NEW t \in Task, Assign(w, t)
  PROVE  JobInv'
<1>0. Table /\ Placed /\ Files /\ ExitWhenDone
  BY DEF JobInv
<1>1. Table'
  BY <1>0, TableAssign
<1>2. /\ status[t] = "unstarted" /\ status' = [status EXCEPT ![t] = "in progress"]
      /\ status \in [Task -> Status]
  BY <1>0 DEF Assign, Unstarted, Table
<1>3. task' = [task EXCEPT ![w] = t] /\ task \in [Worker -> Task \cup {Absent}]
  BY <1>0 DEF Assign, Placed
<1>4. inter' = inter
  BY DEF Assign, files
<1> DEFINE p == IF t[1] = "map" THEN "create" ELSE "read"
<1>5. p \in WorkerPlace /\ 0 \in Nat /\ MoveTo(w, p, 0)
  BY DEF Assign, WorkerPlace
<1>6. /\ at' \in [Worker -> WorkerPlace] /\ step' \in [Worker -> Nat] /\ at'[w] = p
      /\ step'[w] = 0 /\ Alone(w)
  BY <1>0, <1>3, <1>5, WorkerMoves, SMTT(60) DEF Alone
<1>7. task' \in [Worker -> Task \cup {Absent}] /\ task'[w] = t
  BY <1>3
<1>8. \A k \in Kind : Open(k)' = Open(k)
  BY <1>2 DEF Open
<1>9. 0 < NReduce /\ 0 < NMap
  <2>1. NMap \in Nat \ {0} /\ NReduce \in Nat \ {0}
    BY JobAssumption
  <2> QED BY <2>1, SMTT(60)
<1>10. ASSUME t \in MapTask PROVE PlacedAt(w)' /\ FilesAt(w)'
  <2>1. at'[w] = "create"
    BY <1>6, <1>10, Tasks
  <2>2. PlacedAt(w)'
    BY <1>6, <1>7, <1>9, <1>10, <2>1 DEF PlacedAt
  <2>3. FilesAt(w)'
    <3>1. \A r \in ReduceId : ~(r < 0)
      BY SMTT(60) DEF ReduceId
    <3> QED BY <1>6, <2>1, <3>1 DEF FilesAt
  <2> QED BY <2>2, <2>3
<1>11. ASSUME t \in ReduceTask PROVE PlacedAt(w)' /\ FilesAt(w)'
  <2>1. at'[w] = "read"
    BY <1>6, <1>11, Tasks
  <2>2. PICK r \in ReduceId : t = <<"reduce", r>>
    BY <1>11, Tasks
  <2>3. status'[<<"reduce", r>>] # "unstarted"
    BY <1>2, <2>2
  <2>4. Open("map")' = {}
    BY <1>1, <2>3 DEF Table
  <2>5. PlacedAt(w)'
    BY <1>6, <1>7, <1>9, <1>11, <2>1, <2>4 DEF PlacedAt
  <2>6. FilesAt(w)'
    BY <2>1 DEF FilesAt
  <2> QED BY <2>5, <2>6
<1>12. PlacedAt(w)' /\ FilesAt(w)'
  BY <1>10, <1>11, Tasks
<1>13. Placed'
  BY <1>0, <1>6, <1>7, <1>8, <1>12, PlacedStep DEF Kind
<1>14. Files'
  <2>1. \A m \in MapId : status'[<<"map", m>>] = "completed" => status[<<"map", m>>] = "completed"
    BY <1>2, Tasks
  <2>2. Grows
    BY <1>4 DEF Grows
  <2>3. inter' \in [MapId \X ReduceId -> Seq(Pair) \cup {Absent}]
    BY <1>0, <1>4 DEF Files
  <2> QED BY <1>0, <1>6, <1>12, <2>1, <2>2, <2>3, FilesStep
<1>15. ExitWhenDone'
  <2>1. at'[w] # "exit"
    BY <1>6
  <2> QED BY <1>0, <1>6, <1>8, <2>1, ExitStep
<1> QED BY <1>1, <1>13, <1>14, <1>15 DEF JobInv

\* Dismissal: GetTask says Done when both counters are zero.
LEMMA DismissInv ==
  ASSUME JobInv, NEW w \in Worker, Dismiss(w)
  PROVE  JobInv'
<1>0. Table /\ Placed /\ Files /\ ExitWhenDone
  BY DEF JobInv
<1>1. /\ UNCHANGED <<status, left, timers, task, inter>> /\ MoveTo(w, "exit", 0)
      /\ left["map"] = 0 /\ left["reduce"] = 0
  BY DEF Dismiss, coordinator, files, AllDone
<1>2. "exit" \in WorkerPlace /\ 0 \in Nat
  BY DEF WorkerPlace
<1>3. /\ at' \in [Worker -> WorkerPlace] /\ step' \in [Worker -> Nat] /\ at'[w] = "exit"
      /\ Alone(w) /\ task' \in [Worker -> Task \cup {Absent}]
  BY <1>0, <1>1, <1>2, WorkerMoves DEF Alone, Placed
<1>4. \A k \in Kind : Open(k)' = Open(k)
  BY <1>1, OpenStays
<1>5. Open("map") = {} /\ Open("reduce") = {}
  BY <1>0, <1>1, OpenFinite DEF Table, CountersExact, Kind
<1>6. ExitWhenDone'
  BY <1>4, <1>5 DEF ExitWhenDone, Kind
<1>7. PlacedAt(w)' /\ FilesAt(w)'
  BY <1>3 DEF PlacedAt, FilesAt
<1>8. Placed'
  BY <1>0, <1>3, <1>4, <1>7, PlacedStep DEF Kind
<1>9. Files'
  BY <1>0, <1>1, <1>3, <1>7, FilesStep DEF Files, Grows
<1> QED BY <1>0, <1>1, <1>6, <1>8, <1>9, TableStays DEF JobInv

\* MarkComplete: a map task is completed when its files exist.
LEMMA MarkInv ==
  ASSUME JobInv, NEW w \in Worker, MarkComplete(w)
  PROVE  JobInv'
<1>0. Table /\ Placed /\ Files /\ ExitWhenDone
  BY DEF JobInv
<1>1. task[w] \in Task /\ FilesAt(w) /\ at[w] = "mark"
  BY <1>0 DEF MarkComplete, Placed, PlacedAt, Files
<1>2. Table'
  BY <1>0, <1>1, TableMark
<1>3. /\ status' = IF status[task[w]] = "in progress"
                   THEN [status EXCEPT ![task[w]] = "completed"] ELSE status
      /\ status \in [Task -> Status]
  BY <1>0 DEF MarkComplete, Counts, Table
<1>4. /\ MoveTo(w, "ask", 0) /\ task' = [task EXCEPT ![w] = Absent] /\ inter' = inter
      /\ task \in [Worker -> Task \cup {Absent}] /\ "ask" \in WorkerPlace /\ 0 \in Nat
  BY <1>0 DEF MarkComplete, files, Placed, WorkerPlace
<1>5. /\ at' \in [Worker -> WorkerPlace] /\ step' \in [Worker -> Nat] /\ at'[w] = "ask"
      /\ Alone(w) /\ task' \in [Worker -> Task \cup {Absent}]
  BY <1>0, <1>4, WorkerMoves DEF Alone
<1>6. \A k \in Kind : Open(k)' \subseteq Open(k)
  <2>1. \A u \in Task : status'[u] # "completed" => status[u] # "completed"
    BY <1>1, <1>3
  <2> QED BY <2>1 DEF Open
<1>7. PlacedAt(w)' /\ FilesAt(w)'
  BY <1>5 DEF PlacedAt, FilesAt
<1>8. Placed'
  BY <1>0, <1>5, <1>6, <1>7, PlacedStep DEF Kind
<1>9. \A m \in MapId : status'[<<"map", m>>] = "completed" =>
                         status[<<"map", m>>] = "completed" \/ Made(m)
  <2> SUFFICES ASSUME NEW m \in MapId, status'[<<"map", m>>] = "completed",
                      status[<<"map", m>>] # "completed"
               PROVE  Made(m)
    OBVIOUS
  <2>1. task[w] = <<"map", m>>
    BY <1>1, <1>3, Tasks
  <2> QED BY <1>1, <2>1, SMTT(60) DEF FilesAt
<1>10. Files'
  BY <1>0, <1>4, <1>5, <1>7, <1>9, FilesStep DEF Files, Grows
<1>11. ExitWhenDone'
  BY <1>0, <1>5, <1>6, ExitStep
<1> QED BY <1>2, <1>8, <1>10, <1>11 DEF JobInv

\* A worker that dies, on a failed call or otherwise, and one that writes output.
LEMMA DieInv ==
  ASSUME JobInv, NEW w \in Worker, CallFails(w) \/ Crash(w)
  PROVE  JobInv'
<1>1. /\ UNCHANGED <<status, left, timers, task>> /\ inter' = inter
      /\ MoveTo(w, "dead", 0) /\ "dead" \in WorkerPlace /\ 0 \in Nat
  BY DEF CallFails, Crash, coordinator, files, WorkerPlace
<1>2. at'[w] = "dead"
  BY <1>1, WorkerMoves DEF JobInv
<1>3. PlacedAt(w)' /\ FilesAt(w)'
  BY <1>2 DEF PlacedAt, FilesAt
<1>4. Grows /\ inter' \in [MapId \X ReduceId -> Seq(Pair) \cup {Absent}]
  BY <1>1 DEF Grows, JobInv, Files
<1> QED BY <1>1, <1>3, <1>4, WorkerStep

\* A step of w that keeps its task and puts a file's contents at f.
LEMMA WriteStep ==
  ASSUME Files, NEW f, NEW s, inter' = [inter EXCEPT ![f] = s],
         f \in MapId \X ReduceId => s \in Seq(Pair)
  PROVE  /\ Grows /\ inter' \in [MapId \X ReduceId -> Seq(Pair) \cup {Absent}]
         /\ f \in MapId \X ReduceId => inter'[f] # Absent
<1>1. Absent \notin Seq(Pair)
  BY JobAssumption
<1>2. inter \in [MapId \X ReduceId -> Seq(Pair) \cup {Absent}]
  BY DEF Files
<1> DEFINE D == MapId \X ReduceId
           R == Seq(Pair)
<1>3. inter \in [D -> R \cup {Absent}] /\ Absent \notin R /\ (f \in D => s \in R)
  BY <1>1, <1>2
<1> HIDE DEF D, R
<1>4. inter' \in [D -> R \cup {Absent}] /\ (f \in D => inter'[f] # Absent)
      /\ \A g \in D : inter[g] # Absent => inter'[g] # Absent
  BY <1>3
<1> QED BY <1>4 DEF D, R, Grows

\* DoMap creates the files one by one.
LEMMA CreateFileInv ==
  ASSUME JobInv, NEW w \in Worker, CreateFile(w)
  PROVE  JobInv'
<1> DEFINE m == task[w][2]
           i == step[w]
           f == <<m, i>>
<1>0. Table /\ Placed /\ Files /\ ExitWhenDone /\ PlacedAt(w) /\ FilesAt(w)
  BY DEF JobInv, Placed, Files
<1>1. /\ at[w] = "create" /\ UNCHANGED <<status, left, timers, task>>
      /\ inter' = [inter EXCEPT ![f] = <<>>]
  BY DEF CreateFile, coordinator, Empty
<1>2. /\ task[w] \in MapTask /\ m \in MapId /\ i \in Nat /\ i < NReduce
      /\ \A r \in ReduceId : r < i => inter[<<m, r>>] # Absent
  BY <1>0, <1>1, Tasks DEF PlacedAt, FilesAt, Placed
<1>n. NReduce \in Nat
  BY JobAssumption
<1>3. i \in ReduceId /\ f \in MapId \X ReduceId
  BY <1>2, <1>n, SMTT(60) DEF ReduceId
<1>4. Grows /\ inter' \in [MapId \X ReduceId -> Seq(Pair) \cup {Absent}] /\ inter'[f] # Absent
  <2>1. <<>> \in Seq(Pair)
    BY SMTT(60)
  <2> HIDE DEF f
  <2> QED BY <1>0, <1>1, <1>3, <2>1, WriteStep
<1>5. \A r \in ReduceId : r < i + 1 => inter'[<<m, r>>] # Absent
  <2>1. \A r \in ReduceId : r < i + 1 => r < i \/ r = i
    BY <1>2, SMTT(60) DEF ReduceId
  <2>2. \A r \in ReduceId : r < i => inter'[<<m, r>>] # Absent
    BY <1>2, <1>4 DEF Grows
  <2> QED BY <1>4, <2>1, <2>2
<1>t. task'[w] = task[w]
  BY <1>1
<1>6. CASE i + 1 < NReduce
  <2>1. MoveTo(w, "create", i + 1) /\ "create" \in WorkerPlace /\ i + 1 \in Nat
    <3>1. i + 1 # NReduce
      BY <1>2, <1>6, <1>n, SMTT(60)
    <3> QED BY <1>2, <3>1, SMTT(60) DEF CreateFile, WorkerPlace
  <2>2. at'[w] = "create" /\ step'[w] = i + 1
    BY <1>0, <2>1, WorkerMoves
  <2>3. PlacedAt(w)'
    BY <1>2, <1>6, <1>t, <2>2 DEF PlacedAt
  <2>4. FilesAt(w)'
    BY <1>5, <1>t, <2>2 DEF FilesAt
  <2> QED BY <1>1, <1>4, <2>1, <2>3, <2>4, WorkerStep
<1>7. CASE ~(i + 1 < NReduce)
  <2> DEFINE p == IF Emit[m] = <<>> THEN "mark" ELSE "append"
  <2>1. MoveTo(w, p, 0) /\ p \in WorkerPlace /\ 0 \in Nat /\ p # "exit"
    BY <1>7 DEF CreateFile, WorkerPlace
  <2>2. at'[w] = p /\ step'[w] = 0
    BY <1>0, <2>1, WorkerMoves, SMTT(60)
  <2>3. Emit[m] # <<>> => 0 < Len(Emit[m])
    <3>1. Emit \in [MapId -> Seq(DOMAIN Part)]
      BY JobAssumption
    <3>2. Emit[m] \in Seq(DOMAIN Part)
      BY <1>2, <3>1
    <3> HIDE DEF m
    <3> QED BY <3>2, SMTT(60)
  <2>4. Made(m)'
    <3>1. \A r \in ReduceId : r < i + 1
      BY <1>2, <1>7, <1>n, SMTT(60) DEF ReduceId
    <3> QED BY <1>5, <1>t, <3>1 DEF Made
  <2>5. PlacedAt(w)'
    BY <1>2, <1>t, <2>2, <2>3, Tasks DEF PlacedAt
  <2>6. FilesAt(w)'
    <3>1. at'[w] # "create"
      BY <2>2
    <3> QED BY <2>4, <1>t, <3>1 DEF FilesAt
  <2> QED BY <1>1, <1>4, <2>1, <2>5, <2>6, WorkerStep
<1> QED BY <1>6, <1>7

\* DoMap appends a pair to a file; the files exist already.
LEMMA AppendPairInv ==
  ASSUME JobInv, NEW w \in Worker, AppendPair(w)
  PROVE  JobInv'
<1> DEFINE m == task[w][2]
           i == step[w]
           p == <<m, i + 1>>
           f == <<m, Part[Key(p)]>>
           s == IF inter[f] = Absent THEN <<p>> ELSE Append(inter[f], p)
           q == IF i + 1 = Len(Emit[m]) THEN "mark" ELSE "append"
<1>0. Table /\ Placed /\ Files /\ ExitWhenDone /\ PlacedAt(w) /\ FilesAt(w)
  BY DEF JobInv, Placed, Files
<1>1. /\ at[w] = "append" /\ UNCHANGED <<status, left, timers, task>>
      /\ inter' = [inter EXCEPT ![f] = s] /\ MoveTo(w, q, i + 1)
  BY DEF AppendPair, coordinator
<1>2. /\ task[w] \in MapTask /\ m \in MapId /\ i \in Nat /\ i < Len(Emit[m]) /\ Made(m)
  BY <1>0, <1>1, Tasks DEF PlacedAt, FilesAt, Placed
<1>3. Len(Emit[m]) \in Nat
  <2>1. Emit \in [MapId -> Seq(DOMAIN Part)]
    BY JobAssumption
  <2>2. Emit[m] \in Seq(DOMAIN Part)
    BY <1>2, <2>1
  <2> HIDE DEF m
  <2> QED BY <2>2, SMTT(60)
<1>4. p \in Pair
  <2>1. i + 1 \in 1 .. Len(Emit[m])
    BY <1>2, <1>3, SMTT(60)
  <2>2. p \in {m} \X (1 .. Len(Emit[m]))
    BY <2>1
  <2> HIDE DEF p
  <2> QED BY <1>2, <2>2 DEF Pair
<1>5. f \in MapId \X ReduceId => s \in Seq(Pair)
  <2>1. inter \in [MapId \X ReduceId -> Seq(Pair) \cup {Absent}]
    BY <1>0 DEF Files
  <2>2. f \in MapId \X ReduceId => inter[f] \in Seq(Pair) \/ inter[f] = Absent
    <3> HIDE DEF f
    <3> QED BY <2>1
  <2> HIDE DEF f, p
  <2> QED BY <1>4, <2>2, SMTT(60)
<1>6. Grows /\ inter' \in [MapId \X ReduceId -> Seq(Pair) \cup {Absent}]
  <2> HIDE DEF f, s
  <2> QED BY <1>0, <1>1, <1>5, WriteStep
<1>t. task'[w] = task[w]
  BY <1>1
<1>7. q \in WorkerPlace /\ i + 1 \in Nat /\ q # "exit" /\ q \in {"mark", "append"}
  BY <1>2, SMTT(60) DEF WorkerPlace
<1>8. at'[w] = q /\ step'[w] = i + 1
  BY <1>0, <1>1, <1>7, WorkerMoves
<1>9. q = "append" => i + 1 < Len(Emit[m])
  BY <1>2, <1>3, SMTT(60)
<1>10. Made(m)'
  <2>1. \A r \in ReduceId : inter[<<m, r>>] # Absent
    BY <1>2 DEF Made
  <2>2. \A r \in ReduceId : inter'[<<m, r>>] # Absent
    BY <1>2, <1>6, <2>1 DEF Grows
  <2> QED BY <1>t, <2>2 DEF Made
<1> HIDE DEF q
<1>11. PlacedAt(w)'
  BY <1>2, <1>t, <1>7, <1>8, <1>9, Tasks DEF PlacedAt
<1>12. FilesAt(w)'
  <2>1. at'[w] # "create"
    BY <1>7, <1>8
  <2> QED BY <1>10, <1>t, <2>1 DEF FilesAt
<1> HIDE DEF i
<1> QED BY <1>1, <1>6, <1>7, <1>11, <1>12, WorkerStep

\* The steps of DoReduce write no intermediate file.
LEMMA ReduceStep ==
  ASSUME JobInv, NEW w \in Worker, NEW p \in {"read", "open", "write", "mark", "dead"},
         NEW i \in Nat, MoveTo(w, p, i), UNCHANGED <<status, left, timers, task, inter>>,
         at[w] \in {"read", "open", "write"},
         p = "read" => at[w] = "read" /\ i < NMap
  PROVE  JobInv'
<1>0. Table /\ Placed /\ Files /\ PlacedAt(w)
  BY DEF JobInv, Placed
<1>1. p \in WorkerPlace /\ p # "exit"
  BY DEF WorkerPlace
<1>2. at'[w] = p /\ step'[w] = i /\ task'[w] = task[w]
  BY <1>0, <1>1, WorkerMoves
<1>3. task[w] \in ReduceTask /\ task[w][1] # "map" /\ task[w] \in Task
  BY <1>0, Tasks DEF PlacedAt
<1>4. Open("map")' = Open("map")
  BY OpenStays DEF Kind
<1>5. PlacedAt(w)'
  BY <1>0, <1>2, <1>3, <1>4 DEF PlacedAt
<1>6. FilesAt(w)'
  BY <1>2, <1>3 DEF FilesAt
<1>7. Grows /\ inter' \in [MapId \X ReduceId -> Seq(Pair) \cup {Absent}]
  BY <1>0 DEF Grows, Files
<1> QED BY <1>1, <1>5, <1>6, <1>7, WorkerStep

\* Reading a partition, creating the output file, writing a line.
LEMMA DoReduceInv ==
  ASSUME JobInv, NEW w \in Worker, ReadFile(w) \/ CreateOutput(w) \/ WriteLine(w)
  PROVE  JobInv'
<1>0. step[w] \in Nat /\ step[w] + 1 \in Nat /\ 0 \in Nat
  BY SMTT(60) DEF JobInv, Placed
<1>1. CASE ReadFile(w)
  <2> DEFINE f == inter[<<step[w], task[w][2]>>]
             p == CASE f = Absent -> "dead"
                    [] f # Absent /\ step[w] + 1 < NMap -> "read"
                    [] OTHER -> "open"
  <2>1. at[w] = "read" /\ MoveTo(w, p, step[w] + 1)
        /\ UNCHANGED <<status, left, timers, task, inter>>
    BY <1>1 DEF ReadFile, coordinator, files
  <2>2. p \in {"read", "open", "write", "mark", "dead"} /\ (p = "read" => step[w] + 1 < NMap)
    <3> HIDE DEF f
    <3> QED OBVIOUS
  <2> HIDE DEF p
  <2> QED BY <1>0, <2>1, <2>2, ReduceStep
<1>2. CASE CreateOutput(w)
  <2> DEFINE p == IF got[w] = <<>> THEN "mark" ELSE "write"
  <2>1. at[w] = "open" /\ MoveTo(w, p, 0) /\ UNCHANGED <<status, left, timers, task, inter>>
    BY <1>2 DEF CreateOutput, coordinator
  <2>2. p \in {"read", "open", "write", "mark", "dead"} /\ p # "read"
    OBVIOUS
  <2> HIDE DEF p
  <2> QED BY <1>0, <2>1, <2>2, ReduceStep
<1>3. CASE WriteLine(w)
  <2> DEFINE p == IF step[w] + 1 = Cardinality(Keys(got[w])) THEN "mark" ELSE "write"
  <2>1. at[w] = "write" /\ MoveTo(w, p, step[w] + 1)
        /\ UNCHANGED <<status, left, timers, task, inter>>
    BY <1>3 DEF WriteLine, coordinator
  <2>2. p \in {"read", "open", "write", "mark", "dead"} /\ p # "read"
    OBVIOUS
  <2> HIDE DEF p
  <2> QED BY <1>0, <2>1, <2>2, ReduceStep
<1> QED BY <1>1, <1>2, <1>3

\* The timers and the end of the coordinator move no worker.
LEMMA CoordinatorInv ==
  ASSUME JobInv, CoordinatorExits \/ \E t \in Task : DetectStraggler(t)
  PROVE  JobInv'
<1>0. Table /\ Placed /\ Files /\ ExitWhenDone
  BY DEF JobInv
<1>1. UNCHANGED <<at, task, step, inter>>
  BY DEF CoordinatorExits, DetectStraggler, worker, files
<1>2. Table' /\ \A u \in Task : status'[u] = "completed" <=> status[u] = "completed"
  <2>1. CASE CoordinatorExits
    <3>1. UNCHANGED <<status, left, timers>>
      BY <2>1 DEF CoordinatorExits
    <3> QED BY <1>0, <3>1, TableStays
  <2>2. ASSUME NEW t \in Task, DetectStraggler(t)
        PROVE  Table' /\ \A u \in Task : status'[u] = "completed" <=> status[u] = "completed"
    <3>1. /\ status' = IF status[t] = "in progress"
                       THEN [status EXCEPT ![t] = "unstarted"] ELSE status
          /\ status \in [Task -> Status]
      BY <1>0, <2>2 DEF DetectStraggler, Resets, Table
    <3>2. \A u \in Task : status'[u] = "completed" <=> status[u] = "completed"
      BY <3>1
    <3> QED BY <1>0, <2>2, <3>2, TableStraggler
  <2> QED BY <2>1, <2>2
<1>3. \A k \in Kind : Open(k)' = Open(k)
  BY <1>2 DEF Open
<1>4. Placed'
  BY <1>0, <1>1, <1>3 DEF Placed, PlacedAt, Kind
<1>5. Files'
  BY <1>0, <1>1, <1>2, Tasks DEF Files, FilesAt, Made
<1>6. ExitWhenDone'
  BY <1>0, <1>1, <1>3 DEF ExitWhenDone, Kind
<1> QED BY <1>2, <1>4, <1>5, <1>6 DEF JobInv

\* Every behaviour of the job keeps the invariant.
LEMMA JobInvariant == JobSpec => []JobInv
<1>1. JobInv /\ [JobNext]_jobVars => JobInv'
  <2> SUFFICES ASSUME JobInv, [JobNext]_jobVars PROVE JobInv' OBVIOUS
  <2>1. ASSUME NEW w \in Worker, Work(w) \/ Crash(w) PROVE JobInv'
    BY <2>1, AssignInv, DismissInv, MarkInv, DieInv, CreateFileInv, AppendPairInv,
       DoReduceInv DEF Work
  <2>2. CASE UNCHANGED jobVars
    <3>1. UNCHANGED <<status, left, timers>> /\ UNCHANGED <<at, task, step, inter>>
      BY <2>2 DEF jobVars, coordinator, worker, files
    <3>2. Table' BY <3>1, TableStays DEF JobInv
    <3>3. Placed' /\ Files' /\ ExitWhenDone'
      BY <3>1 DEF JobInv, Placed, PlacedAt, Files, FilesAt, Made, ExitWhenDone, Open
    <3> QED BY <3>2, <3>3 DEF JobInv
  <2> QED BY <2>1, <2>2, CoordinatorInv DEF JobNext
<1> QED BY <1>1, JobInit, PTL DEF JobSpec

-----------------------------------------------------------------------------
\* mapsLeft and reducesLeft equal the number of tasks not completed, however
\* often MarkComplete is called for a task that was given out twice.
THEOREM CountersAreExact == JobSpec => []CountersExact
<1>1. JobInv => CountersExact
  BY DEF JobInv, Table
<1> QED BY <1>1, JobInvariant, PTL

\* The timer of an earlier assignment never takes a later one back.
THEOREM TimersAreCurrent == JobSpec => []OneTimer
<1>1. JobInv => OneTimer
  BY DEF JobInv, Table
<1> QED BY <1>1, JobInvariant, PTL

\* Reducing starts after mapping, and DoReduce finds its files.
THEOREM ReduceFollowsMap == JobSpec => []ReduceAfterMap
<1>1. JobInv => ReduceAfterMap
  <2> SUFFICES ASSUME JobInv PROVE ReduceAfterMap OBVIOUS
  <2>0. Table /\ Placed /\ Files BY DEF JobInv
  <2>1. ASSUME NEW w \in Worker, at[w] = "read"
        PROVE  inter[<<step[w], task[w][2]>>] # Absent
    <3>1. /\ task[w] \in ReduceTask /\ step[w] \in Nat /\ step[w] < NMap
          /\ Open("map") = {}
      BY <2>0, <2>1 DEF Placed, PlacedAt
    <3>2. NMap \in Nat BY JobAssumption
    <3>3. step[w] \in MapId /\ task[w][2] \in ReduceId
      BY <3>1, <3>2, Tasks, SMTT(60) DEF MapId
    <3>4. <<"map", step[w]>> \in Task /\ <<"map", step[w]>>[1] = "map"
      BY <3>3, Tasks
    <3>5. status[<<"map", step[w]>>] = "completed"
      BY <3>1, <3>4 DEF Open
    <3> QED BY <2>0, <3>3, <3>5 DEF Files, Made
  <2> QED BY <2>0, <2>1 DEF ReduceAfterMap, Table
<1> QED BY <1>1, JobInvariant, PTL

\* No worker is dismissed while a task is open.
THEOREM ExitsAreRight == JobSpec => []ExitWhenDone
<1>1. JobInv => ExitWhenDone
  BY DEF JobInv
<1> QED BY <1>1, JobInvariant, PTL
=============================================================================

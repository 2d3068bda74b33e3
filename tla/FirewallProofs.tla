---------------------------- MODULE FirewallProofs ----------------------------
(***************************************************************************)
(* Theorems about SystemFirewall, for any number of clients, starts and    *)
(* operations.  Those of the first part hold whatever fails, whoever else  *)
(* writes and wherever the process is killed; those of the second part as  *)
(* long as no call fails by itself and no other process writes, wherever   *)
(* the process is killed and however often it is started again.            *)
(***************************************************************************)
EXTENDS SystemFirewall, SequenceLemmas, FiniteSetTheorems, WellFoundedInduction

ClientRule == {Accept(c) : c \in Clients} \cup {Log(c) : c \in Clients}

Calls ==
    [method : {"deleteJump", "flushEntries", "deleteChain", "createChain",
               "appendJump", "replace", "addCounters", "finished"}]
        \cup [method : {"appendEntry", "insertEntry", "deleteEntry"}, rule : Rule]
        \cup [method : {"queued"}, client : Clients]

(* The operations, each with the step that ends it, and what is left of    *)
(* one from its k-th call on.                                              *)
Starting == InitializeCalls \o <<Call("finished")>>
Adding(c) == AddClientCalls(c) \o <<[method |-> "queued", client |-> c]>>
Removing(c) == RemoveClientCalls(c)
Cleaning == CleanCalls \o <<Call("finished")>>

Rest(s, k) == [i \in 1..(Len(s) - k + 1) |-> s[i + k - 1]]

(* The chain as a whole: exceptions first, the redirection last.           *)
Shaped(rules) ==
    /\ Len(rules) >= 3
    /\ rules[1] = Authenticator
    /\ rules[2] = LocalTraffic
    /\ \A i \in DOMAIN rules : rules[i] = Tproxy <=> i = Len(rules)

Settled(rules) == rules = None \/ rules = <<>> \/ Shaped(rules)

In(rule, rules) == rules # None /\ \E i \in DOMAIN rules : rules[i] = rule

-----------------------------------------------------------------------------
(* The invariant.                                                          *)

HandleType == [table : Table, num : Nat, changed : BOOLEAN]

Types ==
    /\ kernel \in Table
    /\ handle \in HandleType \cup {None}
    /\ client \in [Clients -> {"closed", "registered", "open"}]
    /\ status \in {"down", "starting", "up", "stopping", "stopped", "failed"}

NoneOpen == \A c \in Clients : client[c] # "open"

\* What initialize has in its handle before its k-th call.
BuiltUpTo(k) ==
    /\ k \in {7, 8, 9} => handle # None
    /\ k = 7 => handle.table.rules = <<>>
    /\ k = 8 => handle.table.rules = <<Authenticator>>
    /\ k = 9 => handle.table.rules = <<Authenticator, LocalTraffic>>
    /\ k \notin {8, 9} /\ handle # None => Settled(handle.table.rules)

\* What addClient has done for its client before its k-th call.
AddedUpTo(c, k) ==
    /\ k \in {2, 3} => handle # None /\ handle.changed /\ In(Accept(c), handle.table.rules)
    /\ k \in {4, 5} => In(Accept(c), kernel.rules)
    /\ k = 4 => handle # None /\ In(Accept(c), handle.table.rules)
    /\ k = 5 => handle = None

WhileStarting ==
    status = "starting" =>
        NoneOpen /\ \E k \in 1..15 : todo = Rest(Starting, k) /\ BuiltUpTo(k)

WhileRemoving ==
    \E c \in Clients, k \in 1..4 : todo = Rest(Removing(c), k) /\ client[c] # "open"

WhileUp ==
    status = "up" =>
        \/ todo = <<>>
        \/ \E c \in Clients, k \in 1..5 : todo = Rest(Adding(c), k) /\ AddedUpTo(c, k)
        \/ WhileRemoving

WhileStopping ==
    status = "stopping" =>
        \/ todo = <<>>
        \/ WhileRemoving
        \/ NoneOpen /\ \E k \in 1..6 : todo = Rest(Cleaning, k)

WhenEnded ==
    status \in {"down", "stopped", "failed"} =>
        todo = <<>> /\ handle = None /\ NoneOpen

KernelOK ==
    /\ Settled(kernel.rules)
    /\ \A c \in Clients : client[c] = "open" => In(Accept(c), kernel.rules)

HandleOK ==
    (handle # None /\ status # "starting") =>
        /\ Settled(handle.table.rules)
        /\ \A c \in Clients : client[c] = "open" => In(Accept(c), handle.table.rules)

Inv ==
    /\ Types
    /\ WhileStarting /\ WhileUp /\ WhileStopping /\ WhenEnded
    /\ KernelOK /\ HandleOK

-----------------------------------------------------------------------------
(* The operations and what is left of them.                                *)

LEMMA RestProperties ==
    ASSUME NEW S, NEW s \in Seq(S), NEW k \in 1..Len(s)
    PROVE  /\ Rest(s, k) # <<>>
           /\ Head(Rest(s, k)) = s[k]
           /\ k < Len(s) => Tail(Rest(s, k)) = Rest(s, k + 1)
           /\ k = Len(s) => Tail(Rest(s, k)) = <<>>
           /\ k + 1 < Len(s) => Tail(Tail(Rest(s, k))) = Rest(s, k + 2)
           /\ k + 1 = Len(s) => Tail(Tail(Rest(s, k))) = <<>>
<1>1. ASSUME NEW j \in 1..Len(s)
      PROVE  /\ Rest(s, j) \in Seq(S)
             /\ Len(Rest(s, j)) = Len(s) - j + 1
             /\ \A i \in 1..(Len(s) - j + 1) : Rest(s, j)[i] = s[i + j - 1]
  BY DEF Rest
<1>2. ASSUME NEW j \in 1..Len(s)
      PROVE  /\ Rest(s, j) # <<>>
             /\ Head(Rest(s, j)) = s[j]
             /\ j < Len(s) => Tail(Rest(s, j)) = Rest(s, j + 1)
             /\ j = Len(s) => Tail(Rest(s, j)) = <<>>
  <2>a. Rest(s, j) \in Seq(S) /\ Len(Rest(s, j)) >= 1 /\ Rest(s, j)[1] = s[j]
    BY <1>1
  <2>1. Rest(s, j) # <<>> /\ Head(Rest(s, j)) = s[j]
    <3> HIDE DEF Rest
    <3>1. Rest(s, j) # <<>>
      BY <2>a, EmptySeq
    <3> QED
      BY <2>a, <3>1
  <2>2. /\ Tail(Rest(s, j)) \in Seq(S)
        /\ Len(Tail(Rest(s, j))) = Len(s) - j
        /\ \A i \in 1..(Len(s) - j) : Tail(Rest(s, j))[i] = s[i + j]
    BY <1>1, <2>1
  <2>3. ASSUME j < Len(s) PROVE Tail(Rest(s, j)) = Rest(s, j + 1)
    <3>1. /\ Rest(s, j + 1) \in Seq(S)
          /\ Len(Rest(s, j + 1)) = Len(s) - j
          /\ \A i \in 1..(Len(s) - j) : Rest(s, j + 1)[i] = s[i + j]
      BY <1>1, <2>3
    <3> QED
      BY <2>2, <3>1
  <2>4. ASSUME j = Len(s) PROVE Tail(Rest(s, j)) = <<>>
    <3>1. Len(Tail(Rest(s, j))) = 0
      BY <2>2, <2>4
    <3> QED
      BY <2>2, <3>1, EmptySeq
  <2> QED
    BY <2>1, <2>3, <2>4
<1>3. Len(s) \in Nat
  OBVIOUS
<1>4. ASSUME k < Len(s)
      PROVE  /\ k + 1 \in 1..Len(s) /\ k + 1 + 1 = k + 2
             /\ Tail(Tail(Rest(s, k))) = Tail(Rest(s, k + 1))
  BY <1>2, <1>3, <1>4
<1>5. k + 1 < Len(s) => Tail(Tail(Rest(s, k))) = Rest(s, k + 2)
  <2> HIDE DEF Rest
  <2> QED
    BY <1>2, <1>3, <1>4
<1>6. k + 1 = Len(s) => Tail(Tail(Rest(s, k))) = <<>>
  <2> HIDE DEF Rest
  <2> QED
    BY <1>2, <1>3, <1>4
<1> QED
  BY <1>2, <1>5, <1>6

\* u is s followed by t.
Joins(u, s, t) ==
    /\ u \in Seq(Calls)
    /\ Len(u) = Len(s) + Len(t)
    /\ \A i \in 1..Len(s) : u[i] = s[i]
    /\ \A i \in 1..Len(t) : u[Len(s) + i] = t[i]

LEMMA InARow == \A s, t \in Seq(Calls) : Joins(s \o t, s, t)
<1> TAKE s, t \in Seq(Calls)
<1>1. Len(s) \in Nat /\ Len(t) \in Nat
  OBVIOUS
<1> QED
  BY <1>1, ConcatProperties DEF Joins

LEMMA CallTypes ==
    /\ \A m \in {"deleteJump", "flushEntries", "deleteChain", "replace",
                 "addCounters", "createChain", "appendJump", "finished"} :
           Call(m) \in Calls
    /\ \A m \in {"appendEntry", "insertEntry", "deleteEntry"}, r \in Rule :
           CallWith(m, r) \in Calls
    /\ \A c \in Clients : [method |-> "queued", client |-> c] \in Calls
  BY DEF Call, CallWith, Calls

LEMMA CommitCalls ==
    /\ Commit \in Seq(Calls) /\ Len(Commit) = 2
    /\ Commit[1] = Call("replace") /\ Commit[2] = Call("addCounters")
  BY CallTypes DEF Commit

LEMMA CleaningCalls ==
    /\ CleanCalls \in Seq(Calls) /\ Len(CleanCalls) = 5
    /\ Cleaning \in Seq(Calls) /\ Len(Cleaning) = 6
    /\ \A i \in 1..5 : Cleaning[i] = CleanCalls[i]
    /\ CleanCalls[1] = Call("deleteJump") /\ CleanCalls[2] = Call("flushEntries")
    /\ CleanCalls[3] = Call("deleteChain")
    /\ CleanCalls[4] = Call("replace") /\ CleanCalls[5] = Call("addCounters")
    /\ Cleaning[6] = Call("finished")
<1> DEFINE a == <<Call("deleteJump"), Call("flushEntries"), Call("deleteChain")>>
<1>1. /\ a \in Seq(Calls) /\ Len(a) = 3
      /\ a[1] = Call("deleteJump") /\ a[2] = Call("flushEntries")
      /\ a[3] = Call("deleteChain")
  BY CallTypes
<1>2. CleanCalls = a \o Commit
  BY DEF CleanCalls
<1> HIDE DEF a
<1>3. /\ CleanCalls \in Seq(Calls) /\ Len(CleanCalls) = 3 + 2
      /\ \A i \in 1..3 : CleanCalls[i] = a[i]
      /\ \A i \in 1..2 : CleanCalls[3 + i] = Commit[i]
  <2>1. Joins(CleanCalls, a, Commit)
    BY <1>1, <1>2, CommitCalls, InARow
  <2> QED
    BY <1>1, <1>2, CommitCalls, <2>1 DEF Joins
<1> DEFINE b == <<Call("finished")>>
<1>4. b \in Seq(Calls) /\ Len(b) = 1 /\ b[1] = Call("finished")
  BY CallTypes
<1>5. Cleaning = CleanCalls \o b
  BY DEF Cleaning
<1> HIDE DEF b
<1>6. /\ Cleaning \in Seq(Calls) /\ Len(Cleaning) = 5 + 1
      /\ \A i \in 1..5 : Cleaning[i] = CleanCalls[i]
      /\ \A i \in 1..1 : Cleaning[5 + i] = b[i]
  <2>1. Joins(Cleaning, CleanCalls, b)
    BY <1>3, <1>4, <1>5, InARow
  <2> QED
    BY <1>3, <1>4, <1>5, <2>1 DEF Joins
<1> QED
  BY <1>1, <1>3, <1>4, <1>6, CommitCalls

LEMMA StartingCalls ==
    /\ Starting \in Seq(Calls) /\ Len(Starting) = 15
    /\ \A i \in 1..5 : Starting[i] = CleanCalls[i]
    /\ Starting[6] = Call("createChain")
    /\ Starting[7] = CallWith("appendEntry", Authenticator)
    /\ Starting[8] = CallWith("appendEntry", LocalTraffic)
    /\ Starting[9] = CallWith("appendEntry", Tproxy)
    /\ Starting[10] = Call("replace") /\ Starting[11] = Call("addCounters")
    /\ Starting[12] = Call("appendJump")
    /\ Starting[13] = Call("replace") /\ Starting[14] = Call("addCounters")
    /\ Starting[15] = Call("finished")
<1> DEFINE a == <<Call("createChain"), CallWith("appendEntry", Authenticator),
                  CallWith("appendEntry", LocalTraffic),
                  CallWith("appendEntry", Tproxy)>>
           b == <<Call("appendJump")>>
           c == <<Call("finished")>>
           t1 == CleanCalls \o a
           t2 == t1 \o Commit
           t3 == t2 \o b
           t4 == t3 \o Commit
<1>1. /\ a \in Seq(Calls) /\ Len(a) = 4
      /\ a[1] = Call("createChain") /\ a[2] = CallWith("appendEntry", Authenticator)
      /\ a[3] = CallWith("appendEntry", LocalTraffic)
      /\ a[4] = CallWith("appendEntry", Tproxy)
      /\ b \in Seq(Calls) /\ Len(b) = 1 /\ b[1] = Call("appendJump")
      /\ c \in Seq(Calls) /\ Len(c) = 1 /\ c[1] = Call("finished")
  BY CallTypes DEF Rule
<1>2. Starting = t4 \o c
  BY DEF Starting, InitializeCalls
<1> HIDE DEF a, b, c
<1>3. /\ t1 \in Seq(Calls) /\ Len(t1) = 5 + 4
      /\ \A i \in 1..5 : t1[i] = CleanCalls[i]
      /\ \A i \in 1..4 : t1[5 + i] = a[i]
  <2>1. Joins(t1, CleanCalls, a)
    BY <1>1, CleaningCalls, InARow
  <2> QED
    BY <1>1, CleaningCalls, <2>1 DEF Joins
<1> HIDE DEF t1
<1>4. /\ t2 \in Seq(Calls) /\ Len(t2) = 9 + 2
      /\ \A i \in 1..9 : t2[i] = t1[i]
      /\ \A i \in 1..2 : t2[9 + i] = Commit[i]
  <2>1. Joins(t2, t1, Commit)
    BY <1>3, CommitCalls, InARow
  <2> QED
    BY <1>3, CommitCalls, <2>1 DEF Joins
<1> HIDE DEF t2
<1>5. /\ t3 \in Seq(Calls) /\ Len(t3) = 11 + 1
      /\ \A i \in 1..11 : t3[i] = t2[i]
      /\ \A i \in 1..1 : t3[11 + i] = b[i]
  <2>1. Joins(t3, t2, b)
    BY <1>1, <1>4, InARow
  <2>2. Len(t2) = 11 /\ Len(b) = 1
    BY <1>1, <1>4
  <2> QED
    BY <2>1, <2>2 DEF Joins
<1> HIDE DEF t3
<1>6. /\ t4 \in Seq(Calls) /\ Len(t4) = 12 + 2
      /\ \A i \in 1..12 : t4[i] = t3[i]
      /\ \A i \in 1..2 : t4[12 + i] = Commit[i]
  <2>1. Joins(t4, t3, Commit)
    BY <1>5, CommitCalls, InARow
  <2>2. Len(t3) = 12 /\ Len(Commit) = 2
    BY <1>5, CommitCalls
  <2> QED
    BY <2>1, <2>2 DEF Joins
<1> HIDE DEF t4
<1>7. /\ Starting \in Seq(Calls) /\ Len(Starting) = 14 + 1
      /\ \A i \in 1..14 : Starting[i] = t4[i]
      /\ \A i \in 1..1 : Starting[14 + i] = c[i]
  <2>1. Joins(Starting, t4, c)
    BY <1>1, <1>2, <1>6, InARow
  <2>2. Len(t4) = 14 /\ Len(c) = 1
    BY <1>1, <1>6
  <2> QED
    BY <2>1, <2>2 DEF Joins
<1> QED
  BY <1>1, <1>3, <1>4, <1>5, <1>6, <1>7, CommitCalls

LEMMA AddingCalls ==
    ASSUME NEW c \in Clients
    PROVE  /\ Adding(c) \in Seq(Calls) /\ Len(Adding(c)) = 5
           /\ Adding(c)[1] = CallWith("insertEntry", Accept(c))
           /\ Adding(c)[2] = CallWith("insertEntry", Log(c))
           /\ Adding(c)[3] = Call("replace") /\ Adding(c)[4] = Call("addCounters")
           /\ Adding(c)[5] = [method |-> "queued", client |-> c]
<1> DEFINE a == <<CallWith("insertEntry", Accept(c)), CallWith("insertEntry", Log(c))>>
           b == <<[method |-> "queued", client |-> c]>>
           t == a \o Commit
<1>1. /\ a \in Seq(Calls) /\ Len(a) = 2
      /\ a[1] = CallWith("insertEntry", Accept(c))
      /\ a[2] = CallWith("insertEntry", Log(c))
      /\ b \in Seq(Calls) /\ Len(b) = 1 /\ b[1] = [method |-> "queued", client |-> c]
  BY CallTypes DEF Rule
<1>2. Adding(c) = t \o b
  BY DEF Adding, AddClientCalls
<1> HIDE DEF a, b
<1>3. /\ t \in Seq(Calls) /\ Len(t) = 2 + 2
      /\ \A i \in 1..2 : t[i] = a[i]
      /\ \A i \in 1..2 : t[2 + i] = Commit[i]
  <2>1. Joins(t, a, Commit)
    BY <1>1, CommitCalls, InARow
  <2> QED
    BY <1>1, CommitCalls, <2>1 DEF Joins
<1> HIDE DEF t
<1>4. /\ Adding(c) \in Seq(Calls) /\ Len(Adding(c)) = 4 + 1
      /\ \A i \in 1..4 : Adding(c)[i] = t[i]
      /\ \A i \in 1..1 : Adding(c)[4 + i] = b[i]
  <2>1. Joins(Adding(c), t, b)
    BY <1>1, <1>2, <1>3, InARow
  <2> QED
    BY <1>1, <1>2, <1>3, <2>1 DEF Joins
<1> QED
  BY <1>1, <1>3, <1>4, CommitCalls

LEMMA RemovingCalls ==
    ASSUME NEW c \in Clients
    PROVE  /\ Removing(c) \in Seq(Calls) /\ Len(Removing(c)) = 4
           /\ Removing(c)[1] = CallWith("deleteEntry", Log(c))
           /\ Removing(c)[2] = CallWith("deleteEntry", Accept(c))
           /\ Removing(c)[3] = Call("replace") /\ Removing(c)[4] = Call("addCounters")
<1> DEFINE a == <<CallWith("deleteEntry", Log(c)), CallWith("deleteEntry", Accept(c))>>
<1>1. /\ a \in Seq(Calls) /\ Len(a) = 2
      /\ a[1] = CallWith("deleteEntry", Log(c))
      /\ a[2] = CallWith("deleteEntry", Accept(c))
  BY CallTypes DEF Rule
<1>2. Removing(c) = a \o Commit
  BY DEF Removing, RemoveClientCalls
<1> HIDE DEF a
<1>3. /\ Removing(c) \in Seq(Calls) /\ Len(Removing(c)) = 2 + 2
      /\ \A i \in 1..2 : Removing(c)[i] = a[i]
      /\ \A i \in 1..2 : Removing(c)[2 + i] = Commit[i]
  <2>1. Joins(Removing(c), a, Commit)
    BY <1>1, <1>2, CommitCalls, InARow
  <2> QED
    BY <1>1, <1>2, CommitCalls, <2>1 DEF Joins
<1> QED
  BY <1>1, <1>3, CommitCalls

-----------------------------------------------------------------------------
(* What editing a chain keeps.                                             *)

LEMMA RulesOfClients ==
    ASSUME NEW r \in ClientRule
    PROVE  r \in Rule /\ r \notin {Authenticator, LocalTraffic, Tproxy}
<1>1. r \in Rule
  BY DEF ClientRule, Rule
<1>2. r.rule \in {"accept", "log"}
  BY DEF ClientRule, Accept, Log
<1>3. /\ Authenticator.rule = "authenticator" /\ LocalTraffic.rule = "local"
      /\ Tproxy.rule = "tproxy"
  BY DEF Authenticator, LocalTraffic, Tproxy
<1> QED
  BY <1>1, <1>2, <1>3

LEMMA InsertKeeps ==
    ASSUME NEW rules \in Seq(Rule), Shaped(rules), NEW r \in ClientRule
    PROVE  /\ InsertAt(rules, 3, r) \in Seq(Rule)
           /\ Shaped(InsertAt(rules, 3, r))
           /\ In(r, InsertAt(rules, 3, r))
           /\ \A x : In(x, rules) => In(x, InsertAt(rules, 3, r))
<1> DEFINE new == InsertAt(rules, 3, r)
<1>1. 3 \in 1..(Len(rules) + 1) /\ Len(rules) \in Nat /\ Len(rules) >= 3
  BY DEF Shaped
<1>2. /\ new \in Seq(Rule)
      /\ Len(new) = Len(rules) + 1
      /\ \A i \in 1..2 : new[i] = rules[i]
      /\ new[3] = r
      /\ \A i \in 3..Len(rules) : new[i + 1] = rules[i]
  BY <1>1, RulesOfClients, InsertAtProperties
<1> HIDE DEF new
<1>3. new # None /\ rules # None
  BY <1>2, FirewallAssumption
<1>4. In(r, new)
  BY <1>1, <1>2, <1>3 DEF In
<1>5. ASSUME NEW x, In(x, rules) PROVE In(x, new)
  <2>1. PICK i \in 1..Len(rules) : rules[i] = x
    BY <1>5 DEF In
  <2>2. CASE i <= 2
    BY <1>1, <1>2, <1>3, <2>1, <2>2 DEF In
  <2>3. CASE i >= 3
    <3>1. i + 1 \in DOMAIN new /\ new[i + 1] = x
      BY <1>1, <1>2, <2>1, <2>3
    <3> QED
      BY <1>3, <3>1 DEF In
  <2> QED
    BY <1>1, <2>1, <2>2, <2>3
<1>6. Shaped(new)
  <2>1. /\ rules[1] = Authenticator /\ rules[2] = LocalTraffic
        /\ \A i \in 1..Len(rules) : rules[i] = Tproxy <=> i = Len(rules)
    BY DEF Shaped
  <2>2. ASSUME NEW i \in 1..Len(new) PROVE new[i] = Tproxy <=> i = Len(new)
    <3>1. CASE i \in 1..2
      BY <1>1, <1>2, <2>1, <3>1
    <3>2. CASE i = 3
      BY <1>1, <1>2, <3>2, RulesOfClients
    <3>3. CASE i >= 4
      <4>1. i - 1 \in 3..Len(rules) /\ (i - 1) + 1 = i
        BY <1>1, <1>2, <3>3
      <4>2. new[i] = rules[i - 1]
        BY <1>2, <4>1
      <4> QED
        BY <1>1, <1>2, <2>1, <4>1, <4>2
    <3> QED
      BY <1>1, <1>2, <3>1, <3>2, <3>3
  <2>3. Len(new) >= 3 /\ new[1] = Authenticator /\ new[2] = LocalTraffic
    BY <1>1, <1>2, <2>1
  <2>4. DOMAIN new = 1..Len(new)
    BY <1>2
  <2> QED
    BY <2>2, <2>3, <2>4 DEF Shaped
<1> QED
  BY <1>2, <1>4, <1>5, <1>6 DEF new

LEMMA DeleteKeeps ==
    ASSUME NEW rules \in Seq(Rule), Shaped(rules), NEW r \in ClientRule,
           Contains(rules, r)
    PROVE  /\ RemoveFirst(rules, r) \in Seq(Rule)
           /\ Shaped(RemoveFirst(rules, r))
           /\ \A x : x # r /\ In(x, rules) => In(x, RemoveFirst(rules, r))
<1> DEFINE new == RemoveFirst(rules, r)
<1>1. PICK k \in 1..Len(rules) : rules[k] = r /\ new = RemoveAt(rules, k)
  BY FirstRemoved
<1>2. /\ Len(rules) \in Nat /\ Len(rules) >= 3
      /\ rules[1] = Authenticator /\ rules[2] = LocalTraffic
      /\ \A i \in 1..Len(rules) : rules[i] = Tproxy <=> i = Len(rules)
  BY DEF Shaped
<1>3. k >= 3 /\ k < Len(rules)
  BY <1>1, <1>2, RulesOfClients
<1>4. /\ new \in Seq(Rule)
      /\ Len(new) = Len(rules) - 1
      /\ \A i \in 1..(k - 1) : new[i] = rules[i]
      /\ \A i \in k..(Len(rules) - 1) : new[i] = rules[i + 1]
  BY <1>1, RemoveAtProperties
<1> HIDE DEF new
<1>5. new # None /\ DOMAIN new = 1..Len(new)
  BY <1>4, FirewallAssumption
<1>6. ASSUME NEW x, x # r, In(x, rules) PROVE In(x, new)
  <2>1. PICK i \in 1..Len(rules) : rules[i] = x
    BY <1>6 DEF In
  <2>2. CASE i < k
    BY <1>2, <1>3, <1>4, <1>5, <2>1, <2>2 DEF In
  <2>3. CASE i > k
    <3>1. i - 1 \in k..(Len(rules) - 1) /\ i - 1 \in DOMAIN new /\ (i - 1) + 1 = i
      BY <1>2, <1>3, <1>4, <1>5, <2>1, <2>3
    <3> QED
      BY <1>4, <1>5, <2>1, <3>1 DEF In
  <2> QED
    BY <1>1, <1>6, <2>1, <2>2, <2>3
<1>7. ASSUME NEW i \in 1..Len(new) PROVE new[i] = Tproxy <=> i = Len(new)
  <2>1. CASE i < k
    BY <1>2, <1>3, <1>4, <2>1
  <2>2. CASE i >= k
    BY <1>2, <1>3, <1>4, <2>2
  <2> QED
    BY <1>2, <1>3, <2>1, <2>2
<1>8. Len(new) >= 3 /\ new[1] = Authenticator /\ new[2] = LocalTraffic
  BY <1>2, <1>3, <1>4
<1> QED
  BY <1>4, <1>5, <1>6, <1>7, <1>8 DEF Shaped, new

-----------------------------------------------------------------------------
(* Where the program is when it makes a call.                              *)

AtStarting(k) ==
    /\ status = "starting" /\ NoneOpen
    /\ Head(todo) = Starting[k] /\ BuiltUpTo(k)
    /\ k < 15 => Tail(todo) = Rest(Starting, k + 1)
    /\ k < 14 => Tail(Tail(todo)) = Rest(Starting, k + 2)

AtAdding(c, k) ==
    /\ status = "up"
    /\ Head(todo) = Adding(c)[k] /\ AddedUpTo(c, k)
    /\ k < 5 => Tail(todo) = Rest(Adding(c), k + 1)
    /\ k = 5 => Tail(todo) = <<>>

AtRemoving(c, k) ==
    /\ status \in {"up", "stopping"} /\ client[c] # "open"
    /\ Head(todo) = Removing(c)[k]
    /\ k < 4 => Tail(todo) = Rest(Removing(c), k + 1)
    /\ k = 4 => Tail(todo) = <<>>
    /\ k = 3 => Tail(Tail(todo)) = <<>>

AtCleaning(k) ==
    /\ status = "stopping" /\ NoneOpen
    /\ Head(todo) = Cleaning[k]
    /\ k < 6 => Tail(todo) = Rest(Cleaning, k + 1)
    /\ k < 5 => Tail(Tail(todo)) = Rest(Cleaning, k + 2)

LEMMA StartingPosition ==
    ASSUME NEW k \in 1..15, status = "starting", NoneOpen,
           todo = Rest(Starting, k), BuiltUpTo(k)
    PROVE  AtStarting(k)
<1>1. Starting \in Seq(Calls) /\ Len(Starting) = 15
  BY StartingCalls
<1> HIDE DEF Starting, BuiltUpTo, NoneOpen, Calls, Rest
<1>2. k \in 1..Len(Starting)
  BY <1>1
<1>3. /\ Head(todo) = Starting[k]
      /\ k < 15 => Tail(todo) = Rest(Starting, k + 1)
      /\ k + 1 < 15 => Tail(Tail(todo)) = Rest(Starting, k + 2)
  BY <1>1, <1>2, RestProperties
<1> QED
  BY <1>3 DEF AtStarting

LEMMA AddingPosition ==
    ASSUME NEW c \in Clients, NEW k \in 1..5, status = "up",
           todo = Rest(Adding(c), k), AddedUpTo(c, k)
    PROVE  AtAdding(c, k)
<1>1. Adding(c) \in Seq(Calls) /\ Len(Adding(c)) = 5
  BY AddingCalls
<1>2. k \in 1..Len(Adding(c))
  BY <1>1
<1>3. /\ Head(todo) = Adding(c)[k]
      /\ k < 5 => Tail(todo) = Rest(Adding(c), k + 1)
      /\ k = 5 => Tail(todo) = <<>>
  BY <1>1, <1>2, RestProperties
<1> QED
  BY <1>3 DEF AtAdding

LEMMA RemovingPosition ==
    ASSUME NEW c \in Clients, NEW k \in 1..4, status \in {"up", "stopping"},
           todo = Rest(Removing(c), k), client[c] # "open"
    PROVE  AtRemoving(c, k)
<1>1. Removing(c) \in Seq(Calls) /\ Len(Removing(c)) = 4
  BY RemovingCalls
<1>2. k \in 1..Len(Removing(c))
  BY <1>1
<1>3. /\ Head(todo) = Removing(c)[k]
      /\ k < 4 => Tail(todo) = Rest(Removing(c), k + 1)
      /\ k = 4 => Tail(todo) = <<>>
      /\ k + 1 = 4 => Tail(Tail(todo)) = <<>>
  BY <1>1, <1>2, RestProperties
<1> QED
  BY <1>3 DEF AtRemoving

LEMMA CleaningPosition ==
    ASSUME NEW k \in 1..6, status = "stopping", NoneOpen, todo = Rest(Cleaning, k)
    PROVE  AtCleaning(k)
<1>1. Cleaning \in Seq(Calls) /\ Len(Cleaning) = 6
  BY CleaningCalls
<1>2. k \in 1..Len(Cleaning)
  BY <1>1
<1>3. /\ Head(todo) = Cleaning[k]
      /\ k < 6 => Tail(todo) = Rest(Cleaning, k + 1)
      /\ k + 1 < 6 => Tail(Tail(todo)) = Rest(Cleaning, k + 2)
  BY <1>1, <1>2, RestProperties
<1> QED
  BY <1>3 DEF AtCleaning

LEMMA Where ==
    ASSUME Inv, todo # <<>>
    PROVE  \/ \E k \in 1..15 : AtStarting(k)
           \/ \E c \in Clients, k \in 1..5 : AtAdding(c, k)
           \/ \E c \in Clients, k \in 1..4 : AtRemoving(c, k)
           \/ \E k \in 1..6 : AtCleaning(k)
<1>1. status \in {"starting", "up", "stopping"}
  BY DEF Inv, Types, WhenEnded
<1>2. CASE status = "starting"
  BY <1>2, StartingPosition DEF Inv, WhileStarting
<1>3. CASE status = "up"
  BY <1>3, AddingPosition, RemovingPosition DEF Inv, WhileUp, WhileRemoving
<1>4. CASE status = "stopping"
  BY <1>4, RemovingPosition, CleaningPosition DEF Inv, WhileStopping, WhileRemoving
<1> QED
  BY <1>1, <1>2, <1>3, <1>4

(* The positions at which a method is called.                              *)

LEMMA MethodsOf ==
    ASSUME NEW c \in Clients
    PROVE  /\ Adding(c)[1].method = "insertEntry" /\ Adding(c)[1].rule = Accept(c)
           /\ Adding(c)[2].method = "insertEntry" /\ Adding(c)[2].rule = Log(c)
           /\ Adding(c)[3].method = "replace" /\ Adding(c)[4].method = "addCounters"
           /\ Adding(c)[5].method = "queued" /\ Adding(c)[5].client = c
           /\ Removing(c)[1].method = "deleteEntry" /\ Removing(c)[1].rule = Log(c)
           /\ Removing(c)[2].method = "deleteEntry" /\ Removing(c)[2].rule = Accept(c)
           /\ Removing(c)[3].method = "replace" /\ Removing(c)[4].method = "addCounters"
<1> HIDE DEF Adding, Removing
<1>1. /\ Adding(c)[1] = CallWith("insertEntry", Accept(c))
      /\ Adding(c)[2] = CallWith("insertEntry", Log(c))
      /\ Adding(c)[3] = Call("replace") /\ Adding(c)[4] = Call("addCounters")
      /\ Adding(c)[5] = [method |-> "queued", client |-> c]
  BY AddingCalls
<1>2. /\ Removing(c)[1] = CallWith("deleteEntry", Log(c))
      /\ Removing(c)[2] = CallWith("deleteEntry", Accept(c))
      /\ Removing(c)[3] = Call("replace") /\ Removing(c)[4] = Call("addCounters")
  BY RemovingCalls
<1> QED
  BY <1>1, <1>2 DEF Call, CallWith

LEMMA Methods ==
    ASSUME NEW m
    PROVE  /\ \A k \in 1..15 : AtStarting(k) /\ Calling(m) =>
                 \/ k = 1 /\ m = "deleteJump"
                 \/ k = 2 /\ m = "flushEntries"
                 \/ k = 3 /\ m = "deleteChain"
                 \/ k \in {4, 10, 13} /\ m = "replace"
                 \/ k \in {5, 11, 14} /\ m = "addCounters"
                 \/ k = 6 /\ m = "createChain"
                 \/ k \in {7, 8, 9} /\ m = "appendEntry"
                 \/ k = 12 /\ m = "appendJump"
                 \/ k = 15 /\ m = "finished"
           /\ \A c \in Clients, k \in 1..5 : AtAdding(c, k) /\ Calling(m) =>
                 \/ k = 1 /\ m = "insertEntry" /\ Head(todo).rule = Accept(c)
                 \/ k = 2 /\ m = "insertEntry" /\ Head(todo).rule = Log(c)
                 \/ k = 3 /\ m = "replace"
                 \/ k = 4 /\ m = "addCounters"
                 \/ k = 5 /\ m = "queued" /\ Head(todo).client = c
           /\ \A c \in Clients, k \in 1..4 : AtRemoving(c, k) /\ Calling(m) =>
                 \/ k = 1 /\ m = "deleteEntry" /\ Head(todo).rule = Log(c)
                 \/ k = 2 /\ m = "deleteEntry" /\ Head(todo).rule = Accept(c)
                 \/ k = 3 /\ m = "replace"
                 \/ k = 4 /\ m = "addCounters"
           /\ \A k \in 1..6 : AtCleaning(k) /\ Calling(m) =>
                 \/ k = 1 /\ m = "deleteJump"
                 \/ k = 2 /\ m = "flushEntries"
                 \/ k = 3 /\ m = "deleteChain"
                 \/ k = 4 /\ m = "replace"
                 \/ k = 5 /\ m = "addCounters"
                 \/ k = 6 /\ m = "finished"
<1>1. /\ Starting[1].method = "deleteJump" /\ Starting[2].method = "flushEntries"
      /\ Starting[3].method = "deleteChain"
      /\ Starting[4].method = "replace" /\ Starting[5].method = "addCounters"
      /\ Starting[6].method = "createChain" /\ Starting[7].method = "appendEntry"
      /\ Starting[8].method = "appendEntry" /\ Starting[9].method = "appendEntry"
      /\ Starting[10].method = "replace" /\ Starting[11].method = "addCounters"
      /\ Starting[12].method = "appendJump"
      /\ Starting[13].method = "replace" /\ Starting[14].method = "addCounters"
      /\ Starting[15].method = "finished"
  BY StartingCalls, CleaningCalls DEF Call, CallWith
<1>2. /\ Cleaning[1].method = "deleteJump" /\ Cleaning[2].method = "flushEntries"
      /\ Cleaning[3].method = "deleteChain" /\ Cleaning[4].method = "replace"
      /\ Cleaning[5].method = "addCounters" /\ Cleaning[6].method = "finished"
  BY CleaningCalls DEF Call
<1> HIDE DEF Starting, Cleaning, Adding, Removing
<1>5. \A k \in 1..15 : AtStarting(k) => Head(todo) = Starting[k]
  BY DEF AtStarting
<1>6. \A k \in 1..6 : AtCleaning(k) => Head(todo) = Cleaning[k]
  BY DEF AtCleaning
<1>7. \A c \in Clients, k \in 1..5 : AtAdding(c, k) => Head(todo) = Adding(c)[k]
  BY DEF AtAdding
<1>8. \A c \in Clients, k \in 1..4 : AtRemoving(c, k) => Head(todo) = Removing(c)[k]
  BY DEF AtRemoving
<1>9. Calling(m) => Head(todo).method = m
  BY DEF Calling
<1> HIDE DEF AtStarting, AtCleaning, AtAdding, AtRemoving, Calling
<1>10. ASSUME NEW k \in 1..15, AtStarting(k), Calling(m)
       PROVE  Starting[k].method = m
  BY <1>5, <1>9, <1>10
<1>11. ASSUME NEW k \in 1..6, AtCleaning(k), Calling(m)
       PROVE  Cleaning[k].method = m
  BY <1>6, <1>9, <1>11
<1>12. ASSUME NEW c \in Clients, NEW k \in 1..5, AtAdding(c, k), Calling(m)
       PROVE  Head(todo) = Adding(c)[k] /\ Adding(c)[k].method = m
  BY <1>7, <1>9, <1>12
<1>13. ASSUME NEW c \in Clients, NEW k \in 1..4, AtRemoving(c, k), Calling(m)
       PROVE  Head(todo) = Removing(c)[k] /\ Removing(c)[k].method = m
  BY <1>8, <1>9, <1>13
<1>14. \A k \in 1..15 : k \in {1, 2, 3, 4, 5, 6, 7, 8, 9, 10, 11, 12, 13, 14, 15}
  OBVIOUS
<1>15. ASSUME NEW k \in 1..15, Starting[k].method = m
       PROVE     \/ k = 1 /\ m = "deleteJump"
                 \/ k = 2 /\ m = "flushEntries"
                 \/ k = 3 /\ m = "deleteChain"
                 \/ k \in {4, 10, 13} /\ m = "replace"
                 \/ k \in {5, 11, 14} /\ m = "addCounters"
                 \/ k = 6 /\ m = "createChain"
                 \/ k \in {7, 8, 9} /\ m = "appendEntry"
                 \/ k = 12 /\ m = "appendJump"
                 \/ k = 15 /\ m = "finished"
  BY <1>1, <1>14, <1>15
<1>16. ASSUME NEW c \in Clients, NEW k \in 1..5, AtAdding(c, k), Calling(m)
       PROVE     \/ k = 1 /\ m = "insertEntry" /\ Head(todo).rule = Accept(c)
                 \/ k = 2 /\ m = "insertEntry" /\ Head(todo).rule = Log(c)
                 \/ k = 3 /\ m = "replace"
                 \/ k = 4 /\ m = "addCounters"
                 \/ k = 5 /\ m = "queued" /\ Head(todo).client = c
  <2>1. k \in {1, 2, 3, 4, 5}
    OBVIOUS
  <2> QED
    BY MethodsOf, <1>12, <1>16, <2>1
<1>17. ASSUME NEW c \in Clients, NEW k \in 1..4, AtRemoving(c, k), Calling(m)
       PROVE     \/ k = 1 /\ m = "deleteEntry" /\ Head(todo).rule = Log(c)
                 \/ k = 2 /\ m = "deleteEntry" /\ Head(todo).rule = Accept(c)
                 \/ k = 3 /\ m = "replace"
                 \/ k = 4 /\ m = "addCounters"
  <2>1. k \in {1, 2, 3, 4}
    OBVIOUS
  <2> QED
    BY MethodsOf, <1>13, <1>17, <2>1
<1>18. ASSUME NEW k \in 1..6, Cleaning[k].method = m
       PROVE     \/ k = 1 /\ m = "deleteJump"
                 \/ k = 2 /\ m = "flushEntries"
                 \/ k = 3 /\ m = "deleteChain"
                 \/ k = 4 /\ m = "replace"
                 \/ k = 5 /\ m = "addCounters"
                 \/ k = 6 /\ m = "finished"
  <2>1. k \in {1, 2, 3, 4, 5, 6}
    OBVIOUS
  <2> QED
    BY <1>2, <1>18, <2>1
<1>19. \A k \in 1..15 : AtStarting(k) /\ Calling(m) =>
                 \/ k = 1 /\ m = "deleteJump"
                 \/ k = 2 /\ m = "flushEntries"
                 \/ k = 3 /\ m = "deleteChain"
                 \/ k \in {4, 10, 13} /\ m = "replace"
                 \/ k \in {5, 11, 14} /\ m = "addCounters"
                 \/ k = 6 /\ m = "createChain"
                 \/ k \in {7, 8, 9} /\ m = "appendEntry"
                 \/ k = 12 /\ m = "appendJump"
                 \/ k = 15 /\ m = "finished"
  BY <1>10, <1>15
<1> QED
  BY <1>11, <1>16, <1>17, <1>18, <1>19

-----------------------------------------------------------------------------
(* What a step must establish, depending on where it leads.                *)

LEMMA ToStarting ==
    ASSUME NEW n \in 1..15, todo' = Rest(Starting, n), status' = "starting",
           NoneOpen', BuiltUpTo(n)', Types', KernelOK'
    PROVE  Inv'
  BY DEF Inv, WhileStarting, WhileUp, WhileStopping, WhenEnded, HandleOK

LEMMA ToAdding ==
    ASSUME NEW c \in Clients, NEW n \in 1..5, todo' = Rest(Adding(c), n),
           status' = "up", AddedUpTo(c, n)', Types', KernelOK', HandleOK'
    PROVE  Inv'
  BY DEF Inv, WhileStarting, WhileUp, WhileStopping, WhenEnded

LEMMA ToRemoving ==
    ASSUME NEW c \in Clients, NEW n \in 1..4, todo' = Rest(Removing(c), n),
           status' \in {"up", "stopping"}, client'[c] # "open",
           Types', KernelOK', HandleOK'
    PROVE  Inv'
  BY DEF Inv, WhileStarting, WhileUp, WhileStopping, WhileRemoving, WhenEnded

LEMMA ToCleaning ==
    ASSUME NEW n \in 1..6, todo' = Rest(Cleaning, n), status' = "stopping",
           NoneOpen', Types', KernelOK', HandleOK'
    PROVE  Inv'
  BY DEF Inv, WhileStarting, WhileUp, WhileStopping, WhenEnded

LEMMA ToIdle ==
    ASSUME todo' = <<>>, status' \in {"up", "stopping"},
           Types', KernelOK', HandleOK'
    PROVE  Inv'
  BY DEF Inv, WhileStarting, WhileUp, WhileStopping, WhenEnded

LEMMA ToGone ==
    ASSUME Inv, NEW how \in {"down", "stopped", "failed"}, Gone(how), kernel' = kernel
    PROVE  Inv'
<1>1. Types'
  BY DEF Inv, Types, Gone, Everybody
<1>2. NoneOpen'
  BY DEF Gone, Everybody, NoneOpen
<1>3. KernelOK'
  BY <1>2 DEF Inv, KernelOK, NoneOpen
<1>4. HandleOK'
  BY DEF Gone, HandleOK
<1> QED
  BY <1>1, <1>2, <1>3, <1>4
     DEF Gone, Inv, WhileStarting, WhileUp, WhileStopping, WhenEnded

(* The handle a call works on.                                             *)

LEMMA HandleTypes ==
    ASSUME Types
    PROVE  /\ Read(kernel) \in HandleType /\ Read(kernel) # None
           /\ Handle \in HandleType /\ Handle # None
           /\ Copy \in Table
           /\ handle # None => Handle = handle
           /\ handle = None => Copy = kernel
<1>1. Entries(kernel) \in Nat
  <2>1. Cardinality(kernel.others) \in Nat
    BY FirewallAssumption, FS_Subset, FS_CardinalityType DEF Types, Table
  <2>2. kernel.jumps \in Nat
    BY DEF Types, Table
  <2>3. HasChain(kernel) => Len(kernel.rules) \in Nat
    BY DEF HasChain, Types, Table
  <2> QED
    BY <2>1, <2>2, <2>3 DEF Entries
<1>2. Read(kernel) \in HandleType /\ Read(kernel).table = kernel
  BY <1>1 DEF Read, HandleType, Types
<1>3. None \notin HandleType
  BY FirewallAssumption DEF HandleType
<1>4. Handle \in HandleType
  BY <1>2 DEF Handle, Types
<1>5. Handle.table \in Table
  BY <1>4 DEF HandleType
<1> QED
  BY <1>2, <1>3, <1>4, <1>5 DEF Handle, Copy

LEMMA CopyOK ==
    ASSUME Inv, status # "starting"
    PROVE  /\ Settled(Copy.rules)
           /\ \A c \in Clients : client[c] = "open" => In(Accept(c), Copy.rules)
<1>1. CASE handle = None
  BY <1>1, HandleTypes DEF Inv, KernelOK
<1>2. CASE handle # None
  BY <1>2, HandleTypes DEF Inv, HandleOK, Copy
<1> QED
  BY <1>1, <1>2

LEMMA StaleHandle ==
    ASSUME Inv, NEW h \in {handle, Handle}, handle' = h,
           UNCHANGED <<kernel, client, status>>
    PROVE  Types' /\ KernelOK' /\ HandleOK'
<1>1. Types'
  BY HandleTypes DEF Inv, Types
<1>2. KernelOK'
  BY DEF Inv, KernelOK
<1>3. CASE handle' = handle
  BY <1>1, <1>2, <1>3 DEF Inv, HandleOK
<1>4. CASE handle' = Handle
  <2>1. status # "starting" => 
           /\ Settled(Handle.table.rules)
           /\ \A c \in Clients : client[c] = "open" => In(Accept(c), Handle.table.rules)
    BY CopyOK DEF Copy
  <2> QED
    BY <1>1, <1>2, <1>4, <2>1 DEF HandleOK
<1> QED
  BY <1>3, <1>4

(* A call that raises.                                                     *)

LEMMA RaisesKeeps ==
    ASSUME Inv, todo # <<>>, Head(todo).method \notin {"queued", "finished"},
           NEW h \in {handle, Handle}, Raises(h), kernel' = kernel
    PROVE  Inv'
<1> DEFINE m == Head(todo).method
<1>1. Calling(m)
  BY DEF Calling
<1>2. CASE /\ m \in Tolerated /\ handle' = h
           /\ todo' = Tail(todo) /\ UNCHANGED <<client, status>>
  <2>1. Types' /\ KernelOK' /\ HandleOK'
    BY <1>2, StaleHandle
  <2> HIDE DEF m
  <2>2. ASSUME NEW k \in 1..15, AtStarting(k) PROVE Inv'
    <3>1. k \in 1..3
      BY <1>1, <1>2, <2>2, Methods DEF Tolerated
    <3>2. BuiltUpTo(k + 1)'
      <4>1. CASE h = handle
        BY <1>2, <2>2, <3>1, <4>1 DEF AtStarting, BuiltUpTo
      <4>2. CASE h = Handle
        <5>1. Settled(Handle.table.rules)
          BY <2>2, <3>1 DEF AtStarting, BuiltUpTo, Inv, KernelOK, Handle, Read
        <5> QED
          BY <1>2, <3>1, <4>2, <5>1 DEF BuiltUpTo
      <4> QED
        BY <4>1, <4>2
    <3>3. /\ todo' = Rest(Starting, k + 1) /\ status' = "starting" /\ NoneOpen'
      BY <1>2, <2>2, <3>1 DEF AtStarting, NoneOpen
    <3> QED
      BY <2>1, <3>1, <3>2, <3>3, ToStarting
  <2>3. ASSUME NEW k \in 1..6, AtCleaning(k) PROVE Inv'
    <3>1. k \in 1..3
      BY <1>1, <1>2, <2>3, Methods DEF Tolerated
    <3>2. /\ todo' = Rest(Cleaning, k + 1) /\ status' = "stopping" /\ NoneOpen'
      BY <1>2, <2>3, <3>1 DEF AtCleaning, NoneOpen
    <3> QED
      BY <2>1, <3>1, <3>2, ToCleaning
  <2>4. ASSUME NEW c \in Clients, NEW k \in 1..5, AtAdding(c, k) PROVE FALSE
    BY <1>1, <1>2, <2>4, Methods DEF Tolerated
  <2>5. ASSUME NEW c \in Clients, NEW k \in 1..4, AtRemoving(c, k) PROVE FALSE
    BY <1>1, <1>2, <2>5, Methods DEF Tolerated
  <2> QED
    BY <2>2, <2>3, <2>4, <2>5, Where
<1>3. CASE /\ status = "up" /\ handle' = h
           /\ todo' = <<>> /\ UNCHANGED <<client, status>>
  BY <1>3, StaleHandle, ToIdle
<1>4. CASE Gone("failed")
  BY <1>4, ToGone
<1> QED
  BY <1>2, <1>3, <1>4 DEF Raises

(* A call that leaves t in the handle.                                     *)

LEMMA SucceedsTypes ==
    ASSUME Inv, NEW t \in Table, Succeeds(t), kernel' = kernel
    PROVE  /\ Types' /\ KernelOK'
           /\ handle' # None /\ handle'.table = t /\ handle'.changed
           /\ todo' = Tail(todo) /\ client' = client /\ status' = status
<1>1. Handle \in HandleType
  BY HandleTypes DEF Inv
<1>2. /\ handle' \in HandleType /\ handle'.table = t /\ handle'.changed
  BY <1>1 DEF Succeeds, HandleType
<1>3. handle' # None
  BY <1>2, FirewallAssumption DEF HandleType
<1>4. todo' = Tail(todo) /\ client' = client /\ status' = status
  BY DEF Succeeds
<1>5. Types' /\ KernelOK'
  BY <1>2, <1>4 DEF Inv, Types, KernelOK
<1> QED
  BY <1>2, <1>3, <1>4, <1>5

-----------------------------------------------------------------------------
(* The calls, one by one.                                                  *)

LEMMA Appending ==
    ASSUME NEW S, NEW a \in S, NEW b \in S, NEW c \in S
    PROVE  /\ Append(<<a>>, b) = <<a, b>>
           /\ Append(<<a, b>>, c) = <<a, b, c>>
<1>1. <<a>> \in Seq(S) /\ <<a, b>> \in Seq(S) /\ <<a, b, c>> \in Seq(S)
  OBVIOUS
<1>2. Append(<<a>>, b) = <<a, b>>
  <2>1. /\ Append(<<a>>, b) \in Seq(S) /\ Len(Append(<<a>>, b)) = 2
        /\ Append(<<a>>, b)[1] = a /\ Append(<<a>>, b)[2] = b
    BY <1>1, AppendProperties
  <2> DEFINE u == Append(<<a>>, b)
             v == <<a, b>>
  <2>2. v \in Seq(S) /\ Len(v) = 2 /\ v[1] = a /\ v[2] = b
    BY <1>1
  <2> HIDE DEF u, v
  <2>3. \A i \in 1..2 : u[i] = v[i]
    BY <2>1, <2>2 DEF u
  <2>4. u \in Seq(S) /\ Len(u) = 2
    BY <2>1 DEF u
  <2> QED
    BY <2>2, <2>3, <2>4, SeqEqual DEF u, v
<1>3. Append(<<a, b>>, c) = <<a, b, c>>
  <2>1. /\ Append(<<a, b>>, c) \in Seq(S) /\ Len(Append(<<a, b>>, c)) = 3
        /\ Append(<<a, b>>, c)[1] = a /\ Append(<<a, b>>, c)[2] = b
        /\ Append(<<a, b>>, c)[3] = c
    BY <1>1, AppendProperties
  <2> DEFINE u == Append(<<a, b>>, c)
             v == <<a, b, c>>
  <2>2. v \in Seq(S) /\ Len(v) = 3 /\ v[1] = a /\ v[2] = b /\ v[3] = c
    BY <1>1
  <2> HIDE DEF u, v
  <2>3. \A i \in 1..3 : u[i] = v[i]
    BY <2>1, <2>2 DEF u
  <2>4. u \in Seq(S) /\ Len(u) = 3
    BY <2>1 DEF u
  <2> QED
    BY <2>2, <2>3, <2>4, SeqEqual DEF u, v
<1> QED
  BY <1>2, <1>3

LEMMA WithRules ==
    ASSUME NEW t \in Table, NEW rules \in Seq(Rule) \cup {None}
    PROVE  /\ [t EXCEPT !.rules = rules] \in Table
           /\ [t EXCEPT !.rules = rules].rules = rules
  BY DEF Table

LEMMA InsertEntryKeeps == ASSUME Inv, InsertEntry PROVE Inv'
<1> DEFINE r == Head(todo).rule
           t == [Copy EXCEPT !.rules = InsertAt(@, InsertPosition(@), r)]
<1>1. Calling("insertEntry") /\ todo # <<>> /\ Head(todo).method = "insertEntry"
  BY DEF InsertEntry, Calling
<1>2. PICK c \in Clients, k \in 1..2 :
          /\ AtAdding(c, k)
          /\ r = IF k = 1 THEN Accept(c) ELSE Log(c)
  BY <1>1, Where, Methods
<1>3. CASE Raises(Handle) /\ kernel' = kernel
  BY <1>1, <1>3, RaisesKeeps
<1>4. CASE Succeeds(t) /\ kernel' = kernel /\ HasChain(Copy) /\ Len(Copy.rules) >= 2
  <2>1. r \in ClientRule
    BY <1>2 DEF ClientRule
  <2>2. Copy \in Table /\ Copy.rules \in Seq(Rule) /\ Shaped(Copy.rules)
    <3>1. Copy \in Table
      BY HandleTypes DEF Inv
    <3>2. Copy.rules \in Seq(Rule)
      BY <1>4, <3>1 DEF HasChain, Table
    <3>3. Settled(Copy.rules)
      BY <1>2, CopyOK DEF AtAdding
    <3> QED
      BY <1>4, <3>1, <3>2, <3>3 DEF HasChain, Settled
  <2>3. /\ InsertAt(Copy.rules, 3, r) \in Seq(Rule)
        /\ Shaped(InsertAt(Copy.rules, 3, r))
        /\ In(r, InsertAt(Copy.rules, 3, r))
        /\ \A x : In(x, Copy.rules) => In(x, InsertAt(Copy.rules, 3, r))
    BY <2>1, <2>2, InsertKeeps
  <2>4. t \in Table /\ t.rules = InsertAt(Copy.rules, 3, r)
    BY <2>2, <2>3 DEF Table, InsertPosition
  <2> HIDE DEF t, r
  <2>5. /\ Types' /\ KernelOK'
        /\ handle' # None /\ handle'.table = t /\ handle'.changed
        /\ todo' = Tail(todo) /\ client' = client /\ status' = status
    BY <1>4, <2>4, SucceedsTypes
  <2>6. HandleOK'
    <3>1. Settled(handle'.table.rules)
      BY <2>3, <2>4, <2>5 DEF Settled
    <3>2. ASSUME NEW d \in Clients, client'[d] = "open"
          PROVE  In(Accept(d), handle'.table.rules)
      <4>1. In(Accept(d), Copy.rules)
        BY <1>2, <2>5, <3>2, CopyOK DEF AtAdding
      <4> QED
        BY <2>3, <2>4, <2>5, <4>1
    <3> QED
      BY <3>1, <3>2 DEF HandleOK
  <2>7. In(Accept(c), handle'.table.rules)
    <3>1. CASE k = 1
      BY <1>2, <2>3, <2>4, <2>5, <3>1
    <3>2. CASE k = 2
      <4>1. In(Accept(c), Copy.rules)
        BY <1>2, <3>2, HandleTypes DEF AtAdding, AddedUpTo, Copy, Inv
      <4> QED
        BY <2>3, <2>4, <2>5, <4>1
    <3> QED
      BY <3>1, <3>2
  <2>8. AddedUpTo(c, k + 1)'
    BY <2>5, <2>7 DEF AddedUpTo
  <2>9. todo' = Rest(Adding(c), k + 1) /\ status' = "up"
    BY <1>2, <2>5 DEF AtAdding
  <2> QED
    BY <2>5, <2>6, <2>8, <2>9, ToAdding
<1> QED
  BY <1>3, <1>4 DEF InsertEntry, Edits

LEMMA DeleteEntryKeeps == ASSUME Inv, DeleteEntry PROVE Inv'
<1> DEFINE r == Head(todo).rule
           t == [Copy EXCEPT !.rules = RemoveFirst(@, r)]
<1>1. Calling("deleteEntry") /\ todo # <<>> /\ Head(todo).method = "deleteEntry"
  BY DEF DeleteEntry, Calling
<1>2. PICK c \in Clients, k \in 1..2 : AtRemoving(c, k) /\ r \in {Accept(c), Log(c)}
  BY <1>1, Where, Methods
<1>3. CASE Raises(Handle) /\ kernel' = kernel
  BY <1>1, <1>3, RaisesKeeps
<1>4. CASE /\ Succeeds(t) /\ kernel' = kernel
           /\ HasChain(Copy) /\ Contains(Copy.rules, r)
  <2>1. r \in ClientRule
    BY <1>2 DEF ClientRule
  <2>2. Copy \in Table /\ Copy.rules \in Seq(Rule) /\ Shaped(Copy.rules)
    <3>1. Copy \in Table
      BY HandleTypes DEF Inv
    <3>2. Copy.rules \in Seq(Rule)
      BY <1>4, <3>1 DEF HasChain, Table
    <3>3. Settled(Copy.rules) /\ Copy.rules # None
      BY <1>2, <1>4, CopyOK DEF AtRemoving, HasChain
    <3>4. Copy.rules # <<>>
      BY <1>4 DEF Contains
    <3> QED
      BY <3>1, <3>2, <3>3, <3>4 DEF Settled
  <2>3. /\ RemoveFirst(Copy.rules, r) \in Seq(Rule)
        /\ Shaped(RemoveFirst(Copy.rules, r))
        /\ \A x : x # r /\ In(x, Copy.rules) => In(x, RemoveFirst(Copy.rules, r))
    BY <1>4, <2>1, <2>2, DeleteKeeps
  <2>4. t \in Table /\ t.rules = RemoveFirst(Copy.rules, r)
    BY <2>2, <2>3 DEF Table
  <2> HIDE DEF t, r
  <2>5. /\ Types' /\ KernelOK'
        /\ handle' # None /\ handle'.table = t /\ handle'.changed
        /\ todo' = Tail(todo) /\ client' = client /\ status' = status
    BY <1>4, <2>4, SucceedsTypes
  <2>6. HandleOK'
    <3>1. Settled(handle'.table.rules)
      BY <2>3, <2>4, <2>5 DEF Settled
    <3>2. ASSUME NEW d \in Clients, client'[d] = "open"
          PROVE  In(Accept(d), handle'.table.rules)
      <4>1. In(Accept(d), Copy.rules)
        BY <1>2, <2>5, <3>2, CopyOK DEF AtRemoving
      <4>2. d # c
        BY <1>2, <2>5, <3>2 DEF AtRemoving
      <4>3. Accept(d) # r
        BY <1>2, <4>2 DEF Accept, Log
      <4> QED
        BY <2>3, <2>4, <2>5, <4>1, <4>3
    <3> QED
      BY <3>1, <3>2 DEF HandleOK
  <2>7. /\ todo' = Rest(Removing(c), k + 1) /\ status' \in {"up", "stopping"}
        /\ client'[c] # "open"
    BY <1>2, <2>5 DEF AtRemoving
  <2> QED
    BY <2>5, <2>6, <2>7, ToRemoving
<1> QED
  BY <1>3, <1>4 DEF DeleteEntry, Edits

(* Calls made while the program starts or stops, when nobody is let in.    *)

LEMMA NobodyIn ==
    ASSUME NoneOpen, client' = client,
           handle' # None => Settled(handle'.table.rules)
    PROVE  NoneOpen' /\ HandleOK'
  BY DEF NoneOpen, HandleOK

LEMMA StartingCopy ==
    ASSUME Inv, NEW k \in 1..15, AtStarting(k)
    PROVE  /\ k \in {7, 8, 9} => Copy = handle.table
           /\ k \notin {8, 9} => Settled(Copy.rules)
<1>1. /\ k \in {7, 8, 9} => handle # None
      /\ k \notin {8, 9} /\ handle # None => Settled(handle.table.rules)
  BY DEF AtStarting, BuiltUpTo
<1>2. Settled(kernel.rules)
  BY DEF Inv, KernelOK
<1> QED
  BY <1>1, <1>2, HandleTypes DEF Inv, Copy

LEMMA CleanCallKeeps ==
    ASSUME Inv, NEW k \in 1..3, AtStarting(k) \/ AtCleaning(k),
           NEW t \in Table, Settled(t.rules), Succeeds(t), kernel' = kernel
    PROVE  Inv'
<1>1. /\ Types' /\ KernelOK'
      /\ handle' # None /\ handle'.table = t /\ handle'.changed
      /\ todo' = Tail(todo) /\ client' = client /\ status' = status
  BY SucceedsTypes
<1>2. NoneOpen' /\ HandleOK'
  BY <1>1, NobodyIn DEF AtStarting, AtCleaning
<1>3. CASE AtStarting(k)
  <2>1. BuiltUpTo(k + 1)'
    BY <1>1 DEF BuiltUpTo
  <2>2. todo' = Rest(Starting, k + 1) /\ status' = "starting"
    BY <1>1, <1>3 DEF AtStarting
  <2> QED
    BY <1>1, <1>2, <2>1, <2>2, ToStarting
<1>4. CASE AtCleaning(k)
  <2>1. todo' = Rest(Cleaning, k + 1) /\ status' = "stopping"
    BY <1>1, <1>4 DEF AtCleaning
  <2>2. k + 1 \in 1..6
    OBVIOUS
  <2> QED
    BY <1>1, <1>2, <2>1, <2>2, ToCleaning
<1> QED
  BY <1>3, <1>4

LEMMA CleanCopy ==
    ASSUME Inv, NEW k \in 1..3, AtStarting(k) \/ AtCleaning(k)
    PROVE  Settled(Copy.rules)
  BY StartingCopy, CopyOK DEF AtCleaning

LEMMA DeleteJumpKeeps == ASSUME Inv, DeleteJump PROVE Inv'
<1> DEFINE t == [Copy EXCEPT !.jumps = @ - 1]
<1>1. Calling("deleteJump") /\ todo # <<>> /\ Head(todo).method = "deleteJump"
  BY DEF DeleteJump, Calling
<1>2. AtStarting(1) \/ AtCleaning(1)
  BY <1>1, Where, Methods
<1>3. CASE Raises(Handle) /\ kernel' = kernel
  BY <1>1, <1>3, RaisesKeeps
<1>4. CASE Succeeds(t) /\ kernel' = kernel /\ Copy.jumps > 0
  <2>1. Copy \in Table
    BY HandleTypes DEF Inv
  <2>2. t \in Table /\ t.rules = Copy.rules
    BY <1>4, <2>1 DEF Table
  <2>3. Settled(Copy.rules)
    BY <1>2, CleanCopy
  <2> HIDE DEF t
  <2> QED
    BY <1>2, <1>4, <2>2, <2>3, CleanCallKeeps
<1> QED
  BY <1>3, <1>4 DEF DeleteJump, Edits

LEMMA FlushEntriesKeeps == ASSUME Inv, FlushEntries PROVE Inv'
<1> DEFINE t == [Copy EXCEPT !.rules = <<>>]
<1>1. Calling("flushEntries") /\ todo # <<>> /\ Head(todo).method = "flushEntries"
  BY DEF FlushEntries, Calling
<1>2. AtStarting(2) \/ AtCleaning(2)
  BY <1>1, Where, Methods
<1>3. CASE Raises(Handle) /\ kernel' = kernel
  BY <1>1, <1>3, RaisesKeeps
<1>4. CASE Succeeds(t) /\ kernel' = kernel
  <2>1. Copy \in Table
    BY HandleTypes DEF Inv
  <2>2. t \in Table /\ Settled(t.rules)
    BY <2>1, WithRules, EmptySeq DEF Settled
  <2> HIDE DEF t
  <2> QED
    BY <1>2, <1>4, <2>2, CleanCallKeeps
<1> QED
  BY <1>3, <1>4 DEF FlushEntries, Edits

LEMMA DeleteChainKeeps == ASSUME Inv, DeleteChain PROVE Inv'
<1> DEFINE t == [Copy EXCEPT !.rules = None]
<1>1. Calling("deleteChain") /\ todo # <<>> /\ Head(todo).method = "deleteChain"
  BY DEF DeleteChain, Calling
<1>2. AtStarting(3) \/ AtCleaning(3)
  BY <1>1, Where, Methods
<1>3. CASE Raises(Handle) /\ kernel' = kernel
  BY <1>1, <1>3, RaisesKeeps
<1>4. CASE Succeeds(t) /\ kernel' = kernel
  <2>1. Copy \in Table
    BY HandleTypes DEF Inv
  <2>2. t \in Table /\ Settled(t.rules)
    BY <2>1, WithRules DEF Settled
  <2> HIDE DEF t
  <2> QED
    BY <1>2, <1>4, <2>2, CleanCallKeeps
<1> QED
  BY <1>3, <1>4 DEF DeleteChain, Edits

LEMMA BuildKeeps ==
    ASSUME Inv, NEW k \in 1..14, AtStarting(k), NEW t \in Table,
           Succeeds(t), kernel' = kernel,
           k + 1 \notin {8, 9} => Settled(t.rules),
           k + 1 = 7 => t.rules = <<>>,
           k + 1 = 8 => t.rules = <<Authenticator>>,
           k + 1 = 9 => t.rules = <<Authenticator, LocalTraffic>>
    PROVE  Inv'
<1>1. /\ Types' /\ KernelOK'
      /\ handle' # None /\ handle'.table = t /\ handle'.changed
      /\ todo' = Tail(todo) /\ client' = client /\ status' = status
  BY SucceedsTypes
<1>2. BuiltUpTo(k + 1)'
  BY <1>1 DEF BuiltUpTo
<1>3. todo' = Rest(Starting, k + 1) /\ status' = "starting" /\ NoneOpen'
  BY <1>1 DEF AtStarting, NoneOpen
<1>4. k + 1 \in 1..15
  OBVIOUS
<1> QED
  BY <1>1, <1>2, <1>3, <1>4, ToStarting

LEMMA CreateChainKeeps == ASSUME Inv, CreateChain PROVE Inv'
<1> DEFINE t == [Copy EXCEPT !.rules = <<>>]
<1>1. Calling("createChain") /\ todo # <<>> /\ Head(todo).method = "createChain"
  BY DEF CreateChain, Calling
<1>2. AtStarting(6)
  BY <1>1, Where, Methods
<1>3. CASE Raises(Handle) /\ kernel' = kernel
  BY <1>1, <1>3, RaisesKeeps
<1>4. CASE Succeeds(t) /\ kernel' = kernel
  <2>1. Copy \in Table
    BY HandleTypes DEF Inv
  <2>2. t \in Table /\ t.rules = <<>> /\ Settled(t.rules)
    BY <2>1, WithRules, EmptySeq DEF Settled
  <2> HIDE DEF t
  <2> QED
    BY <1>2, <1>4, <2>2, BuildKeeps
<1> QED
  BY <1>3, <1>4 DEF CreateChain, Edits

LEMMA AppendJumpKeeps == ASSUME Inv, AppendJump PROVE Inv'
<1> DEFINE t == [Copy EXCEPT !.jumps = @ + 1]
<1>1. Calling("appendJump") /\ todo # <<>> /\ Head(todo).method = "appendJump"
  BY DEF AppendJump, Calling
<1>2. AtStarting(12)
  BY <1>1, Where, Methods
<1>3. CASE Raises(Handle) /\ kernel' = kernel
  BY <1>1, <1>3, RaisesKeeps
<1>4. CASE Succeeds(t) /\ kernel' = kernel
  <2>1. Copy \in Table
    BY HandleTypes DEF Inv
  <2>2. t \in Table /\ t.rules = Copy.rules
    BY <2>1 DEF Table
  <2>3. Settled(Copy.rules)
    BY <1>2, StartingCopy
  <2> HIDE DEF t
  <2> QED
    BY <1>2, <1>4, <2>2, <2>3, BuildKeeps
<1> QED
  BY <1>3, <1>4 DEF AppendJump, Edits

LEMMA AppendEntryKeeps == ASSUME Inv, AppendEntry PROVE Inv'
<1> DEFINE r == Head(todo).rule
           t == [Copy EXCEPT !.rules = Append(@, r)]
<1>1. Calling("appendEntry") /\ todo # <<>> /\ Head(todo).method = "appendEntry"
  BY DEF AppendEntry, Calling
<1>2. PICK k \in {7, 8, 9} : AtStarting(k)
  BY <1>1, Where, Methods
<1>3. CASE Raises(Handle) /\ kernel' = kernel
  BY <1>1, <1>3, RaisesKeeps
<1>4. CASE Succeeds(t) /\ kernel' = kernel
  <2>1. Copy \in Table /\ Copy = handle.table
    BY <1>2, HandleTypes, StartingCopy DEF Inv
  <2>2. CASE k = 7
    <3>1. r = Authenticator
      BY <1>2, <2>2, StartingCalls DEF AtStarting, CallWith
    <3>2. Copy.rules = <<>>
      BY <1>2, <2>1, <2>2 DEF AtStarting, BuiltUpTo
    <3>3. t \in Table /\ t.rules = <<Authenticator>>
      <4>1. Append(Copy.rules, r) = <<Authenticator>>
        BY <3>1, <3>2
      <4>2. <<Authenticator>> \in Seq(Rule)
        BY DEF Rule
      <4> QED
        BY <2>1, <4>1, <4>2, WithRules
    <3> HIDE DEF t
    <3> QED
      BY <1>2, <1>4, <2>2, <3>3, BuildKeeps
  <2>3. CASE k = 8
    <3>1. r = LocalTraffic
      BY <1>2, <2>3, StartingCalls DEF AtStarting, CallWith
    <3>2. Copy.rules = <<Authenticator>>
      BY <1>2, <2>1, <2>3 DEF AtStarting, BuiltUpTo
    <3>3. t \in Table /\ t.rules = <<Authenticator, LocalTraffic>>
      <4>1. Append(Copy.rules, r) = <<Authenticator, LocalTraffic>>
        <5>1. Authenticator \in Rule /\ LocalTraffic \in Rule /\ Tproxy \in Rule
          BY DEF Rule
        <5>2. Append(<<Authenticator>>, LocalTraffic) = <<Authenticator, LocalTraffic>>
          BY <5>1, Appending
        <5> QED
          BY <3>1, <3>2, <5>2
      <4>2. <<Authenticator, LocalTraffic>> \in Seq(Rule)
        BY DEF Rule
      <4> QED
        BY <2>1, <4>1, <4>2, WithRules
    <3> HIDE DEF t
    <3> QED
      BY <1>2, <1>4, <2>3, <3>3, BuildKeeps
  <2>4. CASE k = 9
    <3>1. r = Tproxy
      BY <1>2, <2>4, StartingCalls DEF AtStarting, CallWith
    <3>2. Copy.rules = <<Authenticator, LocalTraffic>>
      BY <1>2, <2>1, <2>4 DEF AtStarting, BuiltUpTo
    <3>3. t \in Table /\ t.rules = <<Authenticator, LocalTraffic, Tproxy>>
      <4>1. Append(Copy.rules, r) = <<Authenticator, LocalTraffic, Tproxy>>
        <5>1. Authenticator \in Rule /\ LocalTraffic \in Rule /\ Tproxy \in Rule
          BY DEF Rule
        <5>2. Append(<<Authenticator, LocalTraffic>>, Tproxy) = <<Authenticator, LocalTraffic, Tproxy>>
          BY <5>1, Appending
        <5> QED
          BY <3>1, <3>2, <5>2
      <4>2. <<Authenticator, LocalTraffic, Tproxy>> \in Seq(Rule)
        BY DEF Rule
      <4> QED
        BY <2>1, <4>1, <4>2, WithRules
    <3>4. Authenticator # Tproxy /\ LocalTraffic # Tproxy
      BY DEF Authenticator, LocalTraffic, Tproxy
    <3> HIDE DEF t
    <3>5. Settled(t.rules)
      <4> DEFINE all == <<Authenticator, LocalTraffic, Tproxy>>
      <4>1. /\ Len(all) = 3 /\ DOMAIN all = 1..3
            /\ all[1] = Authenticator /\ all[2] = LocalTraffic /\ all[3] = Tproxy
        OBVIOUS
      <4> HIDE DEF all
      <4>2. \A i \in DOMAIN all : all[i] = Tproxy <=> i = Len(all)
        BY <3>4, <4>1
      <4>3. Shaped(all)
        BY <4>1, <4>2 DEF Shaped
      <4> QED
        BY <3>3, <4>3 DEF Settled, all
    <3> QED
      BY <1>2, <1>4, <2>4, <3>3, <3>5, BuildKeeps
  <2> QED
    BY <2>2, <2>3, <2>4
<1> QED
  BY <1>3, <1>4 DEF AppendEntry, Edits

LEMMA ReplaceKeeps == ASSUME Inv, Replace PROVE Inv'
<1>1. Calling("replace") /\ todo # <<>> /\ Head(todo).method = "replace"
  BY DEF Replace, Calling
<1>2. \/ \E k \in {4, 10, 13} : AtStarting(k)
      \/ \E c \in Clients : AtAdding(c, 3)
      \/ \E c \in Clients : AtRemoving(c, 3)
      \/ AtCleaning(4)
  BY <1>1, Where, Methods
<1>3. CASE Raises(handle) /\ kernel' = kernel
  BY <1>1, <1>3, RaisesKeeps
<1>4. CASE /\ handle # None /\ ~handle.changed /\ handle' = None
           /\ todo' = Tail(Tail(todo)) /\ UNCHANGED <<kernel, client, status>>
  <2>1. Types' /\ KernelOK' /\ HandleOK'
    BY <1>4 DEF Inv, Types, KernelOK, HandleOK
  <2>2. ASSUME NEW k \in {4, 10, 13}, AtStarting(k) PROVE Inv'
    <3>1. /\ todo' = Rest(Starting, k + 2) /\ status' = "starting" /\ NoneOpen'
          /\ BuiltUpTo(k + 2)' /\ k + 2 \in 1..15
      BY <1>4, <2>2 DEF AtStarting, NoneOpen, BuiltUpTo
    <3> QED
      BY <2>1, <3>1, ToStarting
  <2>3. ASSUME NEW c \in Clients, AtAdding(c, 3) PROVE FALSE
    BY <1>4, <2>3 DEF AtAdding, AddedUpTo
  <2>4. ASSUME NEW c \in Clients, AtRemoving(c, 3) PROVE Inv'
    BY <1>4, <2>1, <2>4, ToIdle DEF AtRemoving
  <2>5. ASSUME AtCleaning(4) PROVE Inv'
    <3>1. /\ todo' = Rest(Cleaning, 6) /\ status' = "stopping" /\ NoneOpen'
      BY <1>4, <2>5 DEF AtCleaning, NoneOpen
    <3> QED
      BY <2>1, <3>1, ToCleaning
  <2> QED
    BY <1>2, <2>2, <2>3, <2>4, <2>5
<1>5. CASE /\ handle # None /\ kernel' = handle.table
           /\ todo' = Tail(todo) /\ UNCHANGED <<handle, client, status>>
  <2>1. Types'
    BY <1>5 DEF Inv, Types, HandleType
  <2>2. HandleOK'
    BY <1>5 DEF Inv, HandleOK
  <2>3. KernelOK'
    <3>1. CASE status = "starting"
      <4>1. PICK k \in {4, 10, 13} : AtStarting(k)
        BY <1>2, <3>1 DEF AtAdding, AtRemoving, AtCleaning
      <4>2. Settled(handle.table.rules) /\ NoneOpen
        BY <1>5, <4>1 DEF AtStarting, BuiltUpTo
      <4> QED
        BY <1>5, <4>2 DEF KernelOK, NoneOpen
    <3>2. CASE status # "starting"
      BY <1>5, <3>2 DEF Inv, HandleOK, KernelOK
    <3> QED
      BY <3>1, <3>2
  <2>4. ASSUME NEW k \in {4, 10, 13}, AtStarting(k) PROVE Inv'
    <3>1. /\ todo' = Rest(Starting, k + 1) /\ status' = "starting" /\ NoneOpen'
          /\ BuiltUpTo(k + 1)' /\ k + 1 \in 1..15
      BY <1>5, <2>4 DEF AtStarting, NoneOpen, BuiltUpTo
    <3> QED
      BY <2>1, <2>3, <3>1, ToStarting
  <2>5. ASSUME NEW c \in Clients, AtAdding(c, 3) PROVE Inv'
    <3>1. /\ todo' = Rest(Adding(c), 4) /\ status' = "up" /\ AddedUpTo(c, 4)'
      BY <1>5, <2>5 DEF AtAdding, AddedUpTo
    <3> QED
      BY <2>1, <2>2, <2>3, <3>1, ToAdding
  <2>6. ASSUME NEW c \in Clients, AtRemoving(c, 3) PROVE Inv'
    <3>1. /\ todo' = Rest(Removing(c), 4) /\ status' \in {"up", "stopping"}
          /\ client'[c] # "open"
      BY <1>5, <2>6 DEF AtRemoving
    <3> QED
      BY <2>1, <2>2, <2>3, <3>1, ToRemoving
  <2>7. ASSUME AtCleaning(4) PROVE Inv'
    <3>1. /\ todo' = Rest(Cleaning, 5) /\ status' = "stopping" /\ NoneOpen'
      BY <1>5, <2>7 DEF AtCleaning, NoneOpen
    <3> QED
      BY <2>1, <2>3, <2>2, <3>1, ToCleaning
  <2> QED
    BY <1>2, <2>4, <2>5, <2>6, <2>7
<1> QED
  BY <1>3, <1>4, <1>5 DEF Replace

LEMMA AddCountersKeeps == ASSUME Inv, AddCounters PROVE Inv'
<1>1. Calling("addCounters") /\ todo # <<>> /\ Head(todo).method = "addCounters"
  BY DEF AddCounters, Calling
<1>2. \/ \E k \in {5, 11, 14} : AtStarting(k)
      \/ \E c \in Clients : AtAdding(c, 4)
      \/ \E c \in Clients : AtRemoving(c, 4)
      \/ AtCleaning(5)
  BY <1>1, Where, Methods
<1>3. CASE Raises(handle) /\ kernel' = kernel
  BY <1>1, <1>3, RaisesKeeps
<1>4. CASE /\ handle' = None /\ todo' = Tail(todo)
           /\ UNCHANGED <<kernel, client, status>>
  <2>1. Types' /\ KernelOK' /\ HandleOK'
    BY <1>4 DEF Inv, Types, KernelOK, HandleOK
  <2>2. ASSUME NEW k \in {5, 11, 14}, AtStarting(k) PROVE Inv'
    <3>1. /\ todo' = Rest(Starting, k + 1) /\ status' = "starting" /\ NoneOpen'
          /\ BuiltUpTo(k + 1)' /\ k + 1 \in 1..15
      BY <1>4, <2>2 DEF AtStarting, NoneOpen, BuiltUpTo
    <3> QED
      BY <2>1, <3>1, ToStarting
  <2>3. ASSUME NEW c \in Clients, AtAdding(c, 4) PROVE Inv'
    <3>1. /\ todo' = Rest(Adding(c), 5) /\ status' = "up" /\ AddedUpTo(c, 5)'
      BY <1>4, <2>3 DEF AtAdding, AddedUpTo
    <3> QED
      BY <2>1, <3>1, ToAdding
  <2>4. ASSUME NEW c \in Clients, AtRemoving(c, 4) PROVE Inv'
    BY <1>4, <2>1, <2>4, ToIdle DEF AtRemoving
  <2>5. ASSUME AtCleaning(5) PROVE Inv'
    <3>1. /\ todo' = Rest(Cleaning, 6) /\ status' = "stopping" /\ NoneOpen'
      BY <1>4, <2>5 DEF AtCleaning, NoneOpen
    <3> QED
      BY <2>1, <3>1, ToCleaning
  <2> QED
    BY <1>2, <2>2, <2>3, <2>4, <2>5
<1> QED
  BY <1>3, <1>4 DEF AddCounters

LEMMA CallFailsKeeps == ASSUME Inv, CallFails PROVE Inv'
  BY RaisesKeeps DEF CallFails

-----------------------------------------------------------------------------
(* The operations around the calls.                                        *)

LEMMA FromTheFirst ==
    ASSUME NEW s \in Seq(Calls)
    PROVE  Rest(s, 1) = s
<1>1. Rest(s, 1) \in Seq(Calls) /\ Len(Rest(s, 1)) = Len(s)
  BY DEF Rest
<1>2. \A i \in 1..Len(s) : Rest(s, 1)[i] = s[i]
  BY DEF Rest
<1> HIDE DEF Rest, Calls
<1> QED
  BY <1>1, <1>2, SeqEqual

LEMMA StartKeeps == ASSUME Inv, Start PROVE Inv'
<1>1. status \in {"down", "stopped", "failed"} /\ NoneOpen
  BY DEF Start, Inv, WhenEnded
<1>2. /\ status' = "starting" /\ handle' = Read(kernel) /\ handle' # None
      /\ UNCHANGED <<kernel, client>>
  BY HandleTypes DEF Start, Inv
<1>3. todo' = Rest(Starting, 1)
  <2>1. todo' = Starting
    BY DEF Start, Starting
  <2> QED
    BY <2>1, StartingCalls, FromTheFirst
<1>4. Types' /\ KernelOK'
  BY <1>2, HandleTypes DEF Inv, Types, KernelOK
<1>5. NoneOpen' /\ BuiltUpTo(1)'
  BY <1>1, <1>2 DEF NoneOpen, BuiltUpTo, Inv, KernelOK, Read
<1> QED
  BY <1>2, <1>3, <1>4, <1>5, ToStarting

LEMMA AddClientKeeps == ASSUME Inv, NEW c \in Clients, AddClient(c) PROVE Inv'
<1>1. /\ status' = "up" /\ UNCHANGED <<kernel, handle>>
      /\ client' = [client EXCEPT ![c] = "registered"]
  BY DEF AddClient, Idle
<1>2. todo' = Rest(Adding(c), 1)
  <2>1. todo' = Adding(c)
    BY DEF AddClient, Adding
  <2> QED
    BY <2>1, AddingCalls, FromTheFirst
<1>3. Types' /\ KernelOK' /\ HandleOK'
  BY <1>1 DEF Inv, Types, KernelOK, HandleOK, AddClient, Idle
<1>4. AddedUpTo(c, 1)'
  BY DEF AddedUpTo
<1> QED
  BY <1>1, <1>2, <1>3, <1>4, ToAdding

LEMMA RemovesKeeps ==
    ASSUME Inv, NEW c \in Clients, status \in {"up", "stopping"},
           client' = [client EXCEPT ![c] = "closed"],
           todo' = RemoveClientCalls(c), UNCHANGED <<kernel, handle, status>>
    PROVE  Inv'
<1>1. todo' = Rest(Removing(c), 1)
  <2>1. todo' = Removing(c)
    BY DEF Removing
  <2> QED
    BY <2>1, RemovingCalls, FromTheFirst
<1>2. Types' /\ KernelOK' /\ HandleOK' /\ client'[c] # "open"
  BY DEF Inv, Types, KernelOK, HandleOK
<1> QED
  BY <1>1, <1>2, ToRemoving

LEMMA RemoveClientKeeps == ASSUME Inv, NEW c \in Clients, RemoveClient(c) PROVE Inv'
  BY RemovesKeeps DEF RemoveClient, Idle

LEMMA StopRemoveKeeps == ASSUME Inv, NEW c \in Clients, StopRemove(c) PROVE Inv'
  BY RemovesKeeps DEF StopRemove, Stopping

LEMMA ForgetClientKeeps == ASSUME Inv, NEW c \in Clients, ForgetClient(c) PROVE Inv'
<1>1. Types' /\ KernelOK' /\ HandleOK'
  BY DEF ForgetClient, Inv, Types, KernelOK, HandleOK
<1> QED
  BY <1>1, ToIdle DEF ForgetClient, Idle

LEMMA StopKeeps == ASSUME Inv, Stop PROVE Inv'
<1>1. Types' /\ KernelOK' /\ HandleOK'
  BY DEF Stop, Idle, Inv, Types, KernelOK, HandleOK
<1> QED
  BY <1>1, ToIdle DEF Stop, Idle

LEMMA StopCleanKeeps == ASSUME Inv, StopClean PROVE Inv'
<1>1. Types' /\ KernelOK' /\ HandleOK' /\ NoneOpen' /\ status' = "stopping"
  BY DEF StopClean, Stopping, NoneOpen, Inv, Types, KernelOK, HandleOK
<1>2. todo' = Rest(Cleaning, 1)
  <2>1. todo' = Cleaning
    BY DEF StopClean, Cleaning
  <2> QED
    BY <2>1, CleaningCalls, FromTheFirst
<1> QED
  BY <1>1, <1>2, ToCleaning

LEMMA QueuedKeeps == ASSUME Inv, Queued PROVE Inv'
<1>1. Calling("queued") /\ todo # <<>>
  BY DEF Queued, Calling
<1>2. PICK c \in Clients : AtAdding(c, 5) /\ Head(todo).client = c
  BY <1>1, Where, Methods
<1>3. /\ client' = [client EXCEPT ![c] = "open"] /\ todo' = <<>> /\ status' = "up"
      /\ UNCHANGED <<kernel, handle>>
  BY <1>2 DEF Queued, AtAdding
<1>4. handle = None /\ In(Accept(c), kernel.rules)
  BY <1>2 DEF AtAdding, AddedUpTo
<1>5. Types' /\ KernelOK' /\ HandleOK'
  BY <1>3, <1>4 DEF Inv, Types, KernelOK, HandleOK
<1> QED
  BY <1>3, <1>5, ToIdle

LEMMA FinishedKeeps == ASSUME Inv, Finished PROVE Inv'
<1>1. Calling("finished") /\ todo # <<>> /\ kernel' = kernel
  BY DEF Finished, Calling
<1>2. CASE status = "stopping" /\ Gone("stopped")
  BY <1>1, <1>2, ToGone
<1>3. CASE /\ status = "starting" /\ status' = "up"
           /\ todo' = <<>> /\ UNCHANGED <<handle, client>>
  <2>1. AtStarting(15)
    BY <1>1, <1>3, Where, Methods DEF AtCleaning
  <2>2. NoneOpen /\ (handle # None => Settled(handle.table.rules))
    BY <2>1 DEF AtStarting, BuiltUpTo
  <2>3. Types' /\ KernelOK'
    BY <1>1, <1>3 DEF Inv, Types, KernelOK
  <2>4. HandleOK'
    BY <1>3, <2>2 DEF NoneOpen, HandleOK
  <2> QED
    BY <1>3, <2>3, <2>4, ToIdle
<1> QED
  BY <1>2, <1>3 DEF Finished

LEMMA OtherProcessKeeps == ASSUME Inv, OtherProcess PROVE Inv'
<1>1. kernel' \in Table /\ kernel'.rules = kernel.rules
  <2>1. PICK f \in Foreign :
            kernel' = [kernel EXCEPT !.others =
                          IF f \in @ THEN @ \ {f} ELSE @ \cup {f}]
    BY DEF OtherProcess
  <2> QED
    BY <2>1 DEF Inv, Types, Table
<1>2. UNCHANGED <<handle, todo, client, status>>
  BY DEF OtherProcess
<1>3. Types' /\ KernelOK' /\ HandleOK'
  BY <1>1, <1>2 DEF Inv, Types, KernelOK, HandleOK
<1>4. \A k \in 1..15 : BuiltUpTo(k) => BuiltUpTo(k)'
  BY <1>2 DEF BuiltUpTo
<1>5. \A c \in Clients, k \in 1..5 : AddedUpTo(c, k) => AddedUpTo(c, k)'
  BY <1>1, <1>2 DEF AddedUpTo
<1>6. (NoneOpen => NoneOpen') /\ (WhileRemoving => WhileRemoving')
  BY <1>2 DEF NoneOpen, WhileRemoving
<1>7. WhileStarting' /\ WhileUp' /\ WhileStopping' /\ WhenEnded'
  BY <1>2, <1>4, <1>5, <1>6
     DEF Inv, WhileStarting, WhileUp, WhileStopping, WhenEnded
<1> QED
  BY <1>3, <1>7 DEF Inv

-----------------------------------------------------------------------------
(* The invariant holds.                                                    *)

LEMMA InvInit == Init => Inv
<1> SUFFICES ASSUME Init PROVE Inv
  OBVIOUS
<1>1. Types
  BY DEF Init, Types, Table, Everybody
<1>2. NoneOpen
  BY DEF Init, NoneOpen, Everybody
<1>3. KernelOK
  BY <1>2 DEF Init, KernelOK, NoneOpen, Settled
<1>4. HandleOK
  BY DEF Init, HandleOK
<1> QED
  BY <1>1, <1>2, <1>3, <1>4
     DEF Init, Inv, WhileStarting, WhileUp, WhileStopping, WhenEnded

LEMMA InvNext == Inv /\ [Next]_vars => Inv'
<1> SUFFICES ASSUME Inv, [Next]_vars PROVE Inv'
  OBVIOUS
<1>1. CASE Start
  BY <1>1, StartKeeps
<1>2. ASSUME NEW c \in Clients, AddClient(c) \/ RemoveClient(c) \/ ForgetClient(c)
      PROVE  Inv'
  BY <1>2, AddClientKeeps, RemoveClientKeeps, ForgetClientKeeps
<1>3. ASSUME Stop \/ StopClean \/ \E c \in Clients : StopRemove(c) PROVE Inv'
  BY <1>3, StopKeeps, StopCleanKeeps, StopRemoveKeeps
<1>4. CASE InsertEntry \/ AppendEntry \/ DeleteEntry
  BY <1>4, InsertEntryKeeps, AppendEntryKeeps, DeleteEntryKeeps
<1>5. CASE AppendJump \/ DeleteJump
  BY <1>5, AppendJumpKeeps, DeleteJumpKeeps
<1>6. CASE CreateChain \/ FlushEntries \/ DeleteChain
  BY <1>6, CreateChainKeeps, FlushEntriesKeeps, DeleteChainKeeps
<1>7. CASE Replace \/ AddCounters
  BY <1>7, ReplaceKeeps, AddCountersKeeps
<1>8. CASE Queued \/ Finished
  BY <1>8, QueuedKeeps, FinishedKeeps
<1>9. CASE CallFails
  BY <1>9, CallFailsKeeps
<1>10. CASE Crash
  BY <1>10, ToGone DEF Crash
<1>11. CASE OtherProcess
  BY <1>11, OtherProcessKeeps
<1>12. CASE UNCHANGED vars
  <2>1. Types' /\ NoneOpen' = NoneOpen /\ KernelOK' /\ HandleOK'
    BY <1>12 DEF vars, Inv, Types, NoneOpen, KernelOK, HandleOK
  <2>2. /\ \A k \in 1..15 : BuiltUpTo(k) => BuiltUpTo(k)'
        /\ \A c \in Clients, k \in 1..5 : AddedUpTo(c, k) => AddedUpTo(c, k)'
        /\ WhileRemoving => WhileRemoving'
    BY <1>12 DEF vars, BuiltUpTo, AddedUpTo, WhileRemoving
  <2> QED
    BY <1>12, <2>1, <2>2
       DEF vars, Inv, WhileStarting, WhileUp, WhileStopping, WhenEnded
<1> QED
  BY <1>1, <1>2, <1>3, <1>4, <1>5, <1>6, <1>7, <1>8, <1>9, <1>10, <1>11, <1>12
     DEF Next

LEMMA InvHolds == Spec => []Inv
  BY InvInit, InvNext, PTL DEF Spec

Counts == disturbed \in BOOLEAN /\ starts \in 0..MaxStarts /\ ops \in 0..MaxOps

LEMMA CountsNext == Counts /\ [Next]_vars => Counts'
<1> SUFFICES ASSUME Counts, [Next]_vars PROVE Counts'
  OBVIOUS
<1>1. MaxStarts \in Nat /\ MaxOps \in Nat
  BY FirewallAssumption
<1>2. CASE Start
  BY <1>1, <1>2 DEF Start, Counts
<1>3. ASSUME NEW c \in Clients, AddClient(c) PROVE Counts'
  BY <1>1, <1>3 DEF AddClient, Counts
<1>4. ASSUME NEW c \in Clients, RemoveClient(c) \/ ForgetClient(c) \/ StopRemove(c)
      PROVE  Counts'
  BY <1>4 DEF RemoveClient, ForgetClient, StopRemove, Counts
<1>5. CASE InsertEntry \/ AppendEntry \/ DeleteEntry \/ AppendJump \/ DeleteJump
  BY <1>5 DEF InsertEntry, AppendEntry, DeleteEntry, AppendJump, DeleteJump, Edits,
              Counts
<1>6. CASE CreateChain \/ FlushEntries \/ DeleteChain
  BY <1>6 DEF CreateChain, FlushEntries, DeleteChain, Edits, Counts
<1>7. CASE Replace \/ AddCounters
  BY <1>7 DEF Replace, AddCounters, Counts
<1>8. CASE Stop \/ StopClean \/ Queued \/ Finished \/ Crash
  BY <1>8 DEF Stop, StopClean, Queued, Finished, Crash, Counts
<1>9. CASE CallFails \/ OtherProcess
  BY <1>9 DEF CallFails, OtherProcess, Counts
<1>10. CASE UNCHANGED vars
  BY <1>10 DEF vars, Counts
<1> QED
  BY <1>2, <1>3, <1>4, <1>5, <1>6, <1>7, <1>8, <1>9, <1>10 DEF Next

(* Every variable has its type, and the bounds on starts and operations    *)
(* are kept, whatever fails (base.py, pyipt-table.c).                      *)
THEOREM TypesCorrect == Spec => []TypeOK
<1>1. ASSUME Init PROVE Counts
  <2>1. disturbed \in BOOLEAN /\ starts = 0 /\ ops = 0
    BY <1>1 DEF Init
  <2> QED
    BY <2>1, FirewallAssumption DEF Counts
<1>2. Inv /\ Counts => TypeOK
  BY DEF Inv, Types, Counts, HandleType, TypeOK
<1> QED
  BY <1>1, <1>2, InvHolds, CountsNext, PTL DEF Spec

(* Whatever fails, however stale the handle and whoever else writes: the   *)
(* chain in the kernel has the exceptions first and the redirection last,  *)
(* so that no rule of a client is out of the reach of its packets          *)
(* (base.py, initialize and addClient; pyipt-table.c, commit).             *)
THEOREM PlacementCorrect == Spec => []WellPlaced
<1>1. Inv => WellPlaced
  <2> SUFFICES ASSUME Inv, HasChain(kernel), kernel.rules # <<>>
               PROVE  Shaped(kernel.rules)
    BY DEF WellPlaced, Shaped
  <2> QED
    BY DEF Inv, KernelOK, Settled, HasChain
<1> QED
  BY <1>1, InvHolds, PTL

(* Whatever fails, a client with a queued hole has a rule in the kernel    *)
(* that lets its packets through: a commit that fails leaves a handle that *)
(* still has the rules of every client it might be asked to commit later   *)
(* (base.py, addClient and removeClient; pyipt-table.c, commit).           *)
THEOREM AcceptanceCorrect == Spec => []OpenIsAccepted
<1>1. Inv => OpenIsAccepted
  <2> SUFFICES ASSUME Inv, NEW c \in Clients, client[c] = "open"
               PROVE  Occurrences(Accept(c)) > 0
    BY DEF OpenIsAccepted
  <2> DEFINE where == {i \in DOMAIN kernel.rules : kernel.rules[i] = Accept(c)}
  <2>1. kernel.rules # None /\ where # {}
    BY DEF Inv, KernelOK, In
  <2>2. kernel.rules \in Seq(Rule)
    BY <2>1 DEF Inv, Types, Table
  <2>3. IsFiniteSet(DOMAIN kernel.rules)
    <3>1. DOMAIN kernel.rules = 1..Len(kernel.rules) /\ Len(kernel.rules) \in Nat
      BY <2>2
    <3> QED
      BY <3>1, FS_Interval
  <2>4. where \subseteq DOMAIN kernel.rules
    OBVIOUS
  <2> HIDE DEF where
  <2>5. IsFiniteSet(where) /\ Cardinality(where) \in Nat /\ Cardinality(where) # 0
    BY <2>1, <2>3, <2>4, FS_Subset, FS_CardinalityType, FS_EmptySet
  <2>6. Occurrences(Accept(c)) = Cardinality(where)
    BY <2>1 DEF Occurrences, HasChain, where
  <2> QED
    BY <2>5, <2>6
<1> QED
  BY <1>1, InvHolds, PTL

-----------------------------------------------------------------------------
(* Who is logged is let through: every log rule has an accepting rule of   *)
(* its client further down that no other log rule has.                     *)
LogsIn(rules) == {i \in DOMAIN rules : rules[i].rule = "log"}

Matching(rules, logs, f) ==
    /\ f \in [logs -> DOMAIN rules]
    /\ \A i \in logs : i < f[i] /\ rules[f[i]] = Accept(rules[i].source)
    /\ \A i, j \in logs : f[i] = f[j] => i = j

\* No log rule has the rule at s.
Free(logs, f, s) == \A i \in logs : f[i] # s

Covered(rules) ==
    rules # None => \E f : Matching(rules, LogsIn(rules), f)

\* ... and the client has one more that no log rule has.
Spare(rules, c) ==
    /\ rules # None
    /\ \E f : /\ Matching(rules, LogsIn(rules), f)
              /\ \E s \in DOMAIN rules :
                    rules[s] = Accept(c) /\ Free(LogsIn(rules), f, s)

\* The next call logs c, or lets it no longer through.
Awaits(s, c) ==
    /\ s # <<>>
    /\ \/ Head(s).method = "insertEntry" /\ Head(s).rule = Log(c)
       \/ Head(s).method = "deleteEntry" /\ Head(s).rule = Accept(c)

LogInv ==
    /\ Covered(kernel.rules)
    /\ handle # None => Covered(handle.table.rules)
    /\ \A c \in Clients :
          Awaits(todo, c) => handle # None /\ Spare(handle.table.rules, c)

(* Places before and after a rule is inserted at k, or removed from there. *)
Up(k, i) == IF i < k THEN i ELSE i + 1
Down(k, i) == IF i < k THEN i ELSE i - 1

Shifted(f, k, logs) == [i \in logs |-> Up(k, f[Down(k, i)])]
Pulled(f, k, logs) == [i \in logs |-> Down(k, f[Up(k, i)])]

LEMMA InsertMatch ==
    ASSUME NEW rules \in Seq(Rule), NEW k \in 1..(Len(rules) + 1), NEW r \in Rule,
           NEW f, Matching(rules, LogsIn(rules), f),
           NEW new, new = InsertAt(rules, k, r),
           NEW logs, logs = LogsIn(new) \ {k},
           NEW g, g = Shifted(f, k, logs)
    PROVE  /\ new \in Seq(Rule) /\ Len(new) = Len(rules) + 1 /\ new[k] = r
           /\ Matching(new, logs, g)
           /\ Free(logs, g, k)
           /\ \A s \in 1..Len(rules) :
                 /\ Up(k, s) \in 1..Len(new) /\ new[Up(k, s)] = rules[s]
                 /\ Free(LogsIn(rules), f, s) => Free(logs, g, Up(k, s))
<1>1. /\ new \in Seq(Rule)
      /\ Len(new) = Len(rules) + 1
      /\ \A i \in 1..(k - 1) : new[i] = rules[i]
      /\ new[k] = r
      /\ \A i \in k..Len(rules) : new[i + 1] = rules[i]
  BY InsertAtProperties
<1>2. Len(rules) \in Nat /\ k \in Nat /\ DOMAIN rules = 1..Len(rules)
      /\ DOMAIN new = 1..(Len(rules) + 1)
  BY <1>1
<1> DEFINE n == Len(rules)
<1>3. n = Len(rules) /\ n \in Nat
  BY <1>2
<1> HIDE DEF n
<1>4. ASSUME NEW s \in 1..n
      PROVE  /\ Up(k, s) \in 1..(n + 1) /\ Up(k, s) # k /\ new[Up(k, s)] = rules[s]
             /\ Down(k, Up(k, s)) = s
  <2>1. CASE s < k
    BY <1>1, <1>2, <1>3, <2>1 DEF Up, Down
  <2>2. CASE s >= k
    BY <1>1, <1>2, <1>3, <2>2 DEF Up, Down
  <2> QED
    BY <1>2, <2>1, <2>2
<1>5. ASSUME NEW i \in logs
      PROVE  /\ i \in 1..(n + 1) /\ i # k /\ Down(k, i) \in LogsIn(rules)
             /\ Down(k, i) \in 1..n /\ Up(k, Down(k, i)) = i
             /\ new[i] = rules[Down(k, i)]
             /\ f[Down(k, i)] \in 1..n /\ Down(k, i) < f[Down(k, i)]
             /\ rules[f[Down(k, i)]] = Accept(new[i].source)
             /\ g[i] = Up(k, f[Down(k, i)])
  <2>1. i \in 1..(n + 1) /\ i # k /\ new[i].rule = "log"
    BY <1>2, <1>3 DEF LogsIn
  <2>2. Down(k, i) \in 1..n /\ Up(k, Down(k, i)) = i
    BY <1>2, <1>3, <2>1 DEF Up, Down
  <2>3. new[i] = rules[Down(k, i)]
    BY <1>4, <2>2
  <2>4. Down(k, i) \in LogsIn(rules)
    BY <1>2, <1>3, <2>1, <2>2, <2>3 DEF LogsIn
  <2> DEFINE d == Down(k, i)
  <2> HIDE DEF d
  <2>5. f[d] \in 1..n /\ d < f[d] /\ rules[f[d]] = Accept(rules[d].source)
    BY <1>2, <1>3, <2>4 DEF Matching, d
  <2>6. g[i] = Up(k, f[Down(k, i)])
    BY DEF Shifted
  <2> QED
    BY <2>1, <2>2, <2>3, <2>4, <2>5, <2>6 DEF d
<1>6. ASSUME NEW i \in logs
      PROVE  /\ g[i] \in 1..(n + 1) /\ g[i] # k /\ i < g[i]
             /\ new[g[i]] = Accept(new[i].source)
  <2> DEFINE d == Down(k, i)
             e == f[Down(k, i)]
  <2>1. /\ d \in 1..n /\ e \in 1..n /\ d < e /\ Up(k, d) = i /\ g[i] = Up(k, e)
        /\ rules[e] = Accept(new[i].source)
    BY <1>5
  <2> HIDE DEF d, e
  <2>2. Up(k, d) < Up(k, e)
    BY <1>2, <2>1 DEF Up
  <2> QED
    BY <1>4, <2>1, <2>2
<1>7. \A s, t \in 1..n : Up(k, s) = Up(k, t) => s = t
  BY <1>2, <1>3 DEF Up
<1>8. ASSUME NEW i \in logs, NEW j \in logs, g[i] = g[j] PROVE i = j
  <2>1. f[Down(k, i)] = f[Down(k, j)]
    <3> DEFINE d == f[Down(k, i)]
               e == f[Down(k, j)]
    <3>1. d \in 1..n /\ e \in 1..n /\ Up(k, d) = Up(k, e)
      BY <1>5, <1>8
    <3> HIDE DEF d, e
    <3>2. d = e
      BY <1>7, <3>1
    <3> QED
      BY <3>2 DEF d, e
  <2>2. Down(k, i) = Down(k, j)
    BY <1>5, <2>1 DEF Matching
  <2> QED
    BY <1>5, <2>2
<1>9. Matching(new, logs, g)
  <2>1. g \in [logs -> DOMAIN new]
    BY <1>2, <1>3, <1>6 DEF Shifted
  <2> QED
    BY <1>6, <1>8, <2>1 DEF Matching
<1>10. ASSUME NEW s \in 1..n, Free(LogsIn(rules), f, s)
       PROVE  Free(logs, g, Up(k, s))
  <2> SUFFICES ASSUME NEW i \in logs, g[i] = Up(k, s) PROVE FALSE
    BY DEF Free
  <2> DEFINE d == f[Down(k, i)]
  <2>1. d \in 1..n /\ Up(k, d) = Up(k, s) /\ d # s
    BY <1>5, <1>10 DEF Free
  <2> HIDE DEF d
  <2> QED
    BY <1>7, <2>1
<1>11. Free(logs, g, k)
  BY <1>6 DEF Free
<1> QED
  BY <1>1, <1>2, <1>3, <1>4, <1>9, <1>10, <1>11

LEMMA RemoveMatch ==
    ASSUME NEW rules \in Seq(Rule), NEW k \in 1..Len(rules),
           NEW f, Matching(rules, LogsIn(rules) \ {k}, f),
           Free(LogsIn(rules) \ {k}, f, k),
           NEW new, new = RemoveAt(rules, k),
           NEW g, g = Pulled(f, k, LogsIn(new))
    PROVE  /\ new \in Seq(Rule)
           /\ Matching(new, LogsIn(new), g)
           /\ \A s \in (1..Len(rules)) \ {k} :
                 /\ Down(k, s) \in 1..Len(new) /\ new[Down(k, s)] = rules[s]
                 /\ Free(LogsIn(rules) \ {k}, f, s) =>
                       Free(LogsIn(new), g, Down(k, s))
<1>1. /\ new \in Seq(Rule)
      /\ Len(new) = Len(rules) - 1
      /\ \A i \in 1..(k - 1) : new[i] = rules[i]
      /\ \A i \in k..(Len(rules) - 1) : new[i] = rules[i + 1]
  BY RemoveAtProperties
<1> DEFINE n == Len(rules)
           old == LogsIn(rules) \ {k}
<1>2. /\ n = Len(rules) /\ n \in Nat /\ k \in Nat /\ k <= n /\ k >= 1
      /\ DOMAIN rules = 1..n /\ DOMAIN new = 1..(n - 1)
  BY <1>1
<1> HIDE DEF n
<1>3. ASSUME NEW s \in (1..n) \ {k}
      PROVE  /\ Down(k, s) \in 1..(n - 1) /\ new[Down(k, s)] = rules[s]
             /\ Up(k, Down(k, s)) = s
  <2>1. CASE s < k
    BY <1>1, <1>2, <2>1 DEF Up, Down
  <2>2. CASE s > k
    <3>1. s - 1 \in k..(n - 1) /\ (s - 1) + 1 = s /\ Down(k, s) = s - 1
      BY <1>2, <2>2 DEF Down
    <3> QED
      BY <1>1, <1>2, <2>2, <3>1 DEF Up
  <2> QED
    BY <1>2, <2>1, <2>2
<1>4. ASSUME NEW i \in LogsIn(new)
      PROVE  /\ i \in 1..(n - 1) /\ Up(k, i) \in old
             /\ Down(k, Up(k, i)) = i /\ new[i] = rules[Up(k, i)]
             /\ f[Up(k, i)] \in (1..n) \ {k} /\ Up(k, i) < f[Up(k, i)]
             /\ rules[f[Up(k, i)]] = Accept(new[i].source)
             /\ g[i] = Down(k, f[Up(k, i)])
  <2>1. i \in 1..(n - 1) /\ new[i].rule = "log"
    BY <1>2 DEF LogsIn
  <2>2. Up(k, i) \in (1..n) \ {k} /\ Down(k, Up(k, i)) = i
    BY <1>2, <2>1 DEF Up, Down
  <2>3. new[i] = rules[Up(k, i)]
    BY <1>3, <2>2
  <2>4. Up(k, i) \in old
    BY <1>2, <2>1, <2>2, <2>3 DEF LogsIn
  <2> DEFINE d == Up(k, i)
  <2> HIDE DEF d
  <2>5. f[d] \in (1..n) \ {k} /\ d < f[d] /\ rules[f[d]] = Accept(rules[d].source)
    BY <1>2, <2>4 DEF Matching, Free, d
  <2>6. g[i] = Down(k, f[Up(k, i)])
    BY DEF Pulled
  <2> QED
    BY <2>1, <2>2, <2>3, <2>4, <2>5, <2>6 DEF d
<1>5. ASSUME NEW i \in LogsIn(new)
      PROVE  /\ g[i] \in 1..(n - 1) /\ i < g[i]
             /\ new[g[i]] = Accept(new[i].source)
  <2> DEFINE d == Up(k, i)
             e == f[Up(k, i)]
  <2>1. /\ d \in (1..n) \ {k} /\ e \in (1..n) \ {k} /\ d < e /\ Down(k, d) = i
        /\ g[i] = Down(k, e) /\ rules[e] = Accept(new[i].source)
    BY <1>2, <1>4 DEF LogsIn
  <2> HIDE DEF d, e
  <2>2. Down(k, d) < Down(k, e)
    BY <1>2, <2>1 DEF Down
  <2> QED
    BY <1>3, <2>1, <2>2
<1>6. \A s, t \in (1..n) \ {k} : Down(k, s) = Down(k, t) => s = t
  BY <1>2 DEF Down
<1>7. ASSUME NEW i \in LogsIn(new), NEW j \in LogsIn(new), g[i] = g[j] PROVE i = j
  <2>1. f[Up(k, i)] = f[Up(k, j)]
    BY <1>4, <1>6, <1>7
  <2>2. Up(k, i) = Up(k, j)
    BY <1>4, <2>1 DEF Matching
  <2> QED
    BY <1>4, <2>2
<1>8. Matching(new, LogsIn(new), g)
  <2>1. g \in [LogsIn(new) -> DOMAIN new]
    BY <1>2, <1>5 DEF Pulled
  <2> QED
    BY <1>5, <1>7, <2>1 DEF Matching
<1>9. ASSUME NEW s \in (1..n) \ {k}, Free(old, f, s)
      PROVE  Free(LogsIn(new), g, Down(k, s))
  BY <1>4, <1>6, <1>9 DEF Free
<1> QED
  BY <1>1, <1>2, <1>3, <1>8, <1>9

\* A client that is let in has a rule to spare ...
LEMMA AcceptSpares ==
    ASSUME NEW rules \in Seq(Rule), Shaped(rules), Covered(rules), NEW c \in Clients
    PROVE  Spare(InsertAt(rules, 3, Accept(c)), c)
<1> DEFINE new == InsertAt(rules, 3, Accept(c))
           logs == LogsIn(new) \ {3}
<1>1. PICK f : Matching(rules, LogsIn(rules), f)
  BY FirewallAssumption DEF Covered
<1> DEFINE g == Shifted(f, 3, logs)
<1>2. 3 \in 1..(Len(rules) + 1) /\ Accept(c) \in Rule
  BY DEF Shaped, Rule
<1>3. /\ new \in Seq(Rule) /\ Len(new) = Len(rules) + 1 /\ new[3] = Accept(c)
      /\ Matching(new, logs, g) /\ Free(logs, g, 3)
  BY <1>1, <1>2, InsertMatch
<1>4. new # None /\ 3 \in DOMAIN new
  BY <1>2, <1>3, FirewallAssumption
<1>5. logs = LogsIn(new)
  BY <1>3 DEF LogsIn, Accept
<1>6. Matching(new, LogsIn(new), g) /\ Free(LogsIn(new), g, 3)
  BY <1>3, <1>5
<1> HIDE DEF new, g
<1>7. Spare(new, c)
  BY <1>3, <1>4, <1>6 DEF Spare
<1> QED
  BY <1>7 DEF new

\* ... for its log rule, which comes before all the others.
LEMMA LogCovered ==
    ASSUME NEW rules \in Seq(Rule), Shaped(rules), NEW c \in Clients, Spare(rules, c)
    PROVE  Covered(InsertAt(rules, 3, Log(c)))
<1> DEFINE new == InsertAt(rules, 3, Log(c))
           logs == LogsIn(new) \ {3}
<1>1. PICK f : /\ Matching(rules, LogsIn(rules), f)
               /\ \E s \in DOMAIN rules :
                     rules[s] = Accept(c) /\ Free(LogsIn(rules), f, s)
  BY DEF Spare
<1>2. PICK s \in 1..Len(rules) :
          rules[s] = Accept(c) /\ Free(LogsIn(rules), f, s)
  BY <1>1
<1> DEFINE g == Shifted(f, 3, logs)
           h == [i \in LogsIn(new) |-> IF i = 3 THEN Up(3, s) ELSE g[i]]
<1>3. 3 \in 1..(Len(rules) + 1) /\ Log(c) \in Rule /\ Len(rules) \in Nat
  BY DEF Shaped, Rule
<1>4. /\ new \in Seq(Rule) /\ Len(new) = Len(rules) + 1 /\ new[3] = Log(c)
      /\ Matching(new, logs, g)
      /\ Up(3, s) \in 1..Len(new) /\ new[Up(3, s)] = Accept(c)
      /\ Free(logs, g, Up(3, s))
  <2>1. /\ new = InsertAt(rules, 3, Log(c)) /\ logs = LogsIn(new) \ {3}
        /\ g = Shifted(f, 3, logs)
    OBVIOUS
  <2> HIDE DEF new, logs, g
  <2> QED
    BY <1>1, <1>2, <1>3, <2>1, InsertMatch
<1>5. s > 3 \/ s = 3
  <2>1. /\ rules[1] = Authenticator /\ rules[2] = LocalTraffic
        /\ Accept(c) \in ClientRule
    BY DEF Shaped, ClientRule
  <2>2. s # 1 /\ s # 2
    BY <1>2, <2>1, RulesOfClients
  <2> QED
    BY <1>3, <2>2
<1>6. 3 < Up(3, s)
  BY <1>3, <1>5 DEF Up
<1>7. new[3].source = c
  BY <1>4 DEF Log
<1> DEFINE u == Up(3, s)
<1> HIDE DEF new, g, u
<1>8. Matching(new, LogsIn(new), h)
  <2>1. ASSUME NEW i \in LogsIn(new)
        PROVE  /\ h[i] \in DOMAIN new /\ i < h[i]
               /\ new[h[i]] = Accept(new[i].source)
    BY <1>4, <1>6, <1>7 DEF Matching, u
  <2>2. ASSUME NEW i \in LogsIn(new), NEW j \in LogsIn(new), h[i] = h[j]
        PROVE  i = j
    BY <1>4, <2>2 DEF Matching, Free, u
  <2>3. h \in [LogsIn(new) -> DOMAIN new]
    BY <2>1
  <2> QED
    BY <2>1, <2>2, <2>3 DEF Matching
<1> QED
  BY <1>8 DEF Covered, new

\* A client that is no longer logged has a rule to spare ...
LEMMA UnloggedSpares ==
    ASSUME NEW rules \in Seq(Rule), Covered(rules), NEW c \in Clients,
           Contains(rules, Log(c))
    PROVE  Spare(RemoveFirst(rules, Log(c)), c)
<1> DEFINE new == RemoveFirst(rules, Log(c))
           logs == LogsIn(new)
<1>1. PICK k \in 1..Len(rules) : rules[k] = Log(c) /\ new = RemoveAt(rules, k)
  BY FirstRemoved
<1>2. PICK f : Matching(rules, LogsIn(rules), f)
  BY FirewallAssumption DEF Covered
<1> DEFINE left == LogsIn(rules) \ {k}
           h == [i \in left |-> f[i]]
           g == Pulled(h, k, logs)
<1>3. /\ DOMAIN rules = 1..Len(rules) /\ rules[k].rule = "log" /\ rules[k].source = c
      /\ \A d : Accept(d).rule = "accept"
  BY <1>1 DEF Log, Accept
<1>4. k \in LogsIn(rules) /\ f[k] \in (1..Len(rules)) \ {k} /\ rules[f[k]] = Accept(c)
  BY <1>2, <1>3 DEF LogsIn, Matching
<1>5. /\ Matching(rules, left, h)
      /\ Free(left, h, k) /\ Free(left, h, f[k])
  <2>1. \A i \in left : h[i] = f[i] /\ i \in LogsIn(rules) /\ i # k
    OBVIOUS
  <2>2. h \in [left -> DOMAIN rules]
    BY <1>2, <2>1 DEF Matching
  <2>3. Matching(rules, left, h)
    BY <1>2, <2>1, <2>2 DEF Matching
  <2>4. \A i \in left : f[i] # f[k]
    BY <1>2, <1>4 DEF Matching
  <2>5. \A i \in left : f[i] # k
    BY <1>2, <1>3 DEF Matching
  <2> QED
    BY <2>1, <2>3, <2>4, <2>5 DEF Free
<1>6. /\ new = RemoveAt(rules, k) /\ logs = LogsIn(new) /\ g = Pulled(h, k, logs)
      /\ left = LogsIn(rules) \ {k}
  BY <1>1
<1> DEFINE s == Down(k, f[k])
<1>7. s = Down(k, f[k])
  OBVIOUS
<1> HIDE DEF new, logs, left, h, g, s
<1>8. /\ new \in Seq(Rule) /\ Matching(new, logs, g)
      /\ s \in 1..Len(new) /\ new[s] = Accept(c) /\ Free(logs, g, s)
  BY <1>4, <1>5, <1>6, <1>7, RemoveMatch
<1>9. s \in DOMAIN new
  BY <1>8
<1>10. new # None /\ Matching(new, LogsIn(new), g) /\ Free(LogsIn(new), g, s)
  BY <1>6, <1>8, FirewallAssumption
<1>11. Spare(new, c)
  BY <1>8, <1>9, <1>10 DEF Spare
<1> QED
  BY <1>11 DEF new

\* ... which takes the place of the first one that accepts it: the log rule
\* that loses that one comes before it, and so before the spare one.
LEMMA RefusedCovered ==
    ASSUME NEW rules \in Seq(Rule), NEW c \in Clients, Spare(rules, c),
           Contains(rules, Accept(c))
    PROVE  Covered(RemoveFirst(rules, Accept(c)))
<1> DEFINE new == RemoveFirst(rules, Accept(c))
           logs == LogsIn(new)
<1>1. PICK k \in 1..Len(rules) :
          /\ rules[k] = Accept(c) /\ new = RemoveAt(rules, k)
          /\ \A j \in 1..Len(rules) : rules[j] = Accept(c) => k <= j
  BY FirstRemoved
<1>2. PICK f : /\ Matching(rules, LogsIn(rules), f)
               /\ \E s \in DOMAIN rules :
                     rules[s] = Accept(c) /\ Free(LogsIn(rules), f, s)
  BY DEF Spare
<1>3. PICK s \in 1..Len(rules) :
          rules[s] = Accept(c) /\ Free(LogsIn(rules), f, s)
  BY <1>2
<1> DEFINE left == LogsIn(rules) \ {k}
           h == [i \in left |-> IF f[i] = k THEN s ELSE f[i]]
           g == Pulled(h, k, logs)
<1>4. /\ DOMAIN rules = 1..Len(rules) /\ Len(rules) \in Nat /\ k <= s
      /\ left = LogsIn(rules)
  BY <1>1, <1>3 DEF LogsIn, Accept
<1>5. Matching(rules, left, h) /\ Free(left, h, k)
  <2>1. ASSUME NEW i \in left
        PROVE  /\ h[i] \in 1..Len(rules) /\ i < h[i] /\ h[i] # k
               /\ rules[h[i]] = Accept(rules[i].source)
    <3>1. /\ i \in 1..Len(rules) /\ f[i] \in 1..Len(rules) /\ i < f[i]
          /\ rules[f[i]] = Accept(rules[i].source) /\ f[i] # s
      BY <1>2, <1>3, <1>4 DEF Matching, LogsIn, Free
    <3>2. h[i] = IF f[i] = k THEN s ELSE f[i]
      OBVIOUS
    <3> HIDE DEF h
    <3> QED
      BY <1>1, <1>3, <1>4, <3>1, <3>2
  <2>2. ASSUME NEW i \in left, NEW j \in left, h[i] = h[j] PROVE i = j
    <3>1. f[i] = f[j]
      BY <1>3, <1>4, <2>2 DEF Free
    <3> QED
      BY <1>2, <1>4, <3>1 DEF Matching
  <2>3. h \in [left -> DOMAIN rules]
    BY <1>4, <2>1
  <2> QED
    BY <2>1, <2>2, <2>3 DEF Matching, Free
<1>6. /\ new = RemoveAt(rules, k) /\ logs = LogsIn(new) /\ g = Pulled(h, k, logs)
      /\ left = LogsIn(rules) \ {k}
  BY <1>1
<1> HIDE DEF new, logs, left, h, g
<1>7. Matching(new, logs, g)
  BY <1>5, <1>6, RemoveMatch
<1> QED
  BY <1>6, <1>7 DEF Covered, new

(* When such a call comes next, and what precedes it.                      *)

LEMMA HeadOfRest ==
    ASSUME NEW s \in Seq(Calls), NEW k \in 1..Len(s)
    PROVE  Rest(s, k) # <<>> /\ Head(Rest(s, k)) = s[k]
  BY RestProperties

LEMMA AwaitedAt ==
    ASSUME NEW c \in Clients
    PROVE  /\ ~Awaits(<<>>, c)
           /\ \A k \in 1..15 : ~Awaits(Rest(Starting, k), c)
           /\ \A k \in 1..6 : ~Awaits(Rest(Cleaning, k), c)
           /\ \A d \in Clients, k \in 1..5 :
                 Awaits(Rest(Adding(d), k), c) => k = 2 /\ d = c
           /\ \A d \in Clients, k \in 1..4 :
                 Awaits(Rest(Removing(d), k), c) => k = 2 /\ d = c
<1>1. ~Awaits(<<>>, c)
  BY DEF Awaits
<1>2. ASSUME NEW k \in 1..15 PROVE ~Awaits(Rest(Starting, k), c)
  <2>1. Head(Rest(Starting, k)) = Starting[k]
    BY StartingCalls, HeadOfRest
  <2>2. Starting[k].method \notin {"insertEntry", "deleteEntry"}
    BY StartingCalls, CleaningCalls DEF Call, CallWith
  <2> QED
    BY <2>1, <2>2 DEF Awaits
<1>3. ASSUME NEW k \in 1..6 PROVE ~Awaits(Rest(Cleaning, k), c)
  <2>1. Head(Rest(Cleaning, k)) = Cleaning[k]
    BY CleaningCalls, HeadOfRest
  <2>2. Cleaning[k].method \notin {"insertEntry", "deleteEntry"}
    BY CleaningCalls DEF Call, CallWith
  <2> QED
    BY <2>1, <2>2 DEF Awaits
<1>4. \A d \in Clients : Accept(d) # Log(c) /\ (Log(d) = Log(c) => d = c)
          /\ Log(d) # Accept(c) /\ (Accept(d) = Accept(c) => d = c)
  <2> SUFFICES ASSUME NEW d \in Clients
               PROVE  /\ Accept(d).rule # Log(c).rule /\ Log(d).rule # Accept(c).rule
                      /\ Log(d).source = d /\ Log(c).source = c
                      /\ Accept(d).source = d /\ Accept(c).source = c
    OBVIOUS
  <2> QED
    BY DEF Accept, Log
<1>5. ASSUME NEW d \in Clients, NEW k \in 1..5, Awaits(Rest(Adding(d), k), c)
      PROVE  k = 2 /\ d = c
  <2>1. Head(Rest(Adding(d), k)) = Adding(d)[k]
    BY AddingCalls, HeadOfRest
  <2>2. /\ Adding(d)[1].method = "insertEntry" /\ Adding(d)[1].rule = Accept(d)
        /\ Adding(d)[2].method = "insertEntry" /\ Adding(d)[2].rule = Log(d)
        /\ Adding(d)[3].method = "replace" /\ Adding(d)[4].method = "addCounters"
        /\ Adding(d)[5].method = "queued"
    BY MethodsOf
  <2>3. \/ Adding(d)[k].method = "insertEntry" /\ Adding(d)[k].rule = Log(c)
        \/ Adding(d)[k].method = "deleteEntry"
    BY <1>5, <2>1 DEF Awaits
  <2> QED
    BY <1>4, <2>2, <2>3
<1>6. ASSUME NEW d \in Clients, NEW k \in 1..4, Awaits(Rest(Removing(d), k), c)
      PROVE  k = 2 /\ d = c
  <2>1. Head(Rest(Removing(d), k)) = Removing(d)[k]
    BY RemovingCalls, HeadOfRest
  <2>2. /\ Removing(d)[1].method = "deleteEntry" /\ Removing(d)[1].rule = Log(d)
        /\ Removing(d)[2].method = "deleteEntry" /\ Removing(d)[2].rule = Accept(d)
        /\ Removing(d)[3].method = "replace" /\ Removing(d)[4].method = "addCounters"
    BY MethodsOf
  <2>3. \/ Removing(d)[k].method = "insertEntry"
        \/ Removing(d)[k].method = "deleteEntry" /\ Removing(d)[k].rule = Accept(c)
    BY <1>6, <2>1 DEF Awaits
  <2> QED
    BY <1>4, <2>2, <2>3
<1> QED
  BY <1>1, <1>2, <1>3, <1>5, <1>6

LEMMA AwaitedAfter ==
    ASSUME Inv, NEW m, Calling(m), m # "finished", NEW c \in Clients
    PROVE  /\ Awaits(Tail(todo), c) =>
                 \/ AtAdding(c, 1) /\ m = "insertEntry" /\ Head(todo).rule = Accept(c)
                 \/ AtRemoving(c, 1) /\ m = "deleteEntry" /\ Head(todo).rule = Log(c)
           /\ m = "replace" => ~Awaits(Tail(Tail(todo)), c) \/ \E d \in Clients : AtAdding(d, 3)
<1>1. todo # <<>>
  BY DEF Calling
<1>2. ASSUME NEW k \in 1..15, AtStarting(k)
      PROVE  /\ ~Awaits(Tail(todo), c)
             /\ m = "replace" => ~Awaits(Tail(Tail(todo)), c)
  <2>1. k < 15 /\ (m = "replace" => k < 14)
    BY <1>2, Methods
  <2>2. /\ Tail(todo) = Rest(Starting, k + 1) /\ k + 1 \in 1..15
        /\ m = "replace" => Tail(Tail(todo)) = Rest(Starting, k + 2) /\ k + 2 \in 1..15
    BY <1>2, <2>1 DEF AtStarting
  <2> QED
    BY <2>2, AwaitedAt
<1>3. ASSUME NEW k \in 1..6, AtCleaning(k)
      PROVE  /\ ~Awaits(Tail(todo), c)
             /\ m = "replace" => ~Awaits(Tail(Tail(todo)), c)
  <2>1. k < 6 /\ (m = "replace" => k < 5)
    BY <1>3, Methods
  <2>2. /\ Tail(todo) = Rest(Cleaning, k + 1) /\ k + 1 \in 1..6
        /\ m = "replace" => Tail(Tail(todo)) = Rest(Cleaning, k + 2) /\ k + 2 \in 1..6
    BY <1>3, <2>1 DEF AtCleaning
  <2> QED
    BY <2>2, AwaitedAt
<1>4. ASSUME NEW d \in Clients, NEW k \in 1..5, AtAdding(d, k), Awaits(Tail(todo), c)
      PROVE  AtAdding(c, 1) /\ m = "insertEntry" /\ Head(todo).rule = Accept(c)
  <2>1. k < 5
    <3>1. Tail(todo) # <<>>
      BY <1>4 DEF Awaits
    <3>2. k = 5 => Tail(todo) = <<>>
      BY <1>4 DEF AtAdding
    <3> QED
      BY <3>1, <3>2
  <2>2. Tail(todo) = Rest(Adding(d), k + 1) /\ k + 1 \in 1..5
    BY <1>4, <2>1 DEF AtAdding
  <2>3. k + 1 = 2 /\ d = c
    BY <1>4, <2>2, AwaitedAt
  <2>4. k = 1
    BY <2>3
  <2> QED
    BY <1>4, <2>3, <2>4, Methods
<1>5. ASSUME NEW d \in Clients, NEW k \in 1..4, AtRemoving(d, k), Awaits(Tail(todo), c)
      PROVE  AtRemoving(c, 1) /\ m = "deleteEntry" /\ Head(todo).rule = Log(c)
  <2>1. k < 4
    <3>1. Tail(todo) # <<>>
      BY <1>5 DEF Awaits
    <3>2. k = 4 => Tail(todo) = <<>>
      BY <1>5 DEF AtRemoving
    <3> QED
      BY <3>1, <3>2
  <2>2. Tail(todo) = Rest(Removing(d), k + 1) /\ k + 1 \in 1..4
    BY <1>5, <2>1 DEF AtRemoving
  <2>3. k + 1 = 2 /\ d = c
    BY <1>5, <2>2, AwaitedAt
  <2>4. k = 1
    BY <2>3
  <2> QED
    BY <1>5, <2>3, <2>4, Methods
<1>6. ASSUME NEW d \in Clients, NEW k \in 1..4, AtRemoving(d, k), m = "replace"
      PROVE  ~Awaits(Tail(Tail(todo)), c)
  <2>1. k = 3
    BY <1>6, Methods
  <2> QED
    BY <1>6, <2>1, AwaitedAt DEF AtRemoving
<1>7. ASSUME NEW d \in Clients, NEW k \in 1..5, AtAdding(d, k), m = "replace"
      PROVE  AtAdding(d, 3)
  <2>1. k = 3
    BY <1>7, Methods
  <2> QED
    BY <1>7, <2>1
<1> QED
  BY <1>1, <1>2, <1>3, <1>4, <1>5, <1>6, <1>7, Where

LEMMA NotAwaited ==
    ASSUME LogInv, UNCHANGED <<kernel, handle>>, \A c \in Clients : ~Awaits(todo', c)
    PROVE  LogInv'
  BY DEF LogInv

LEMMA CopyCovered ==
    ASSUME Inv, LogInv
    PROVE  Covered(Copy.rules)
  BY HandleTypes DEF Inv, LogInv, Copy

LEMMA RaisesCovered ==
    ASSUME Inv, LogInv, todo # <<>>, Head(todo).method \notin {"queued", "finished"},
           NEW h \in {handle, Handle}, Raises(h), kernel' = kernel
    PROVE  LogInv'
<1>1. h # None => Covered(h.table.rules)
  BY CopyCovered DEF LogInv, Copy
<1>2. Covered(kernel'.rules)
  BY DEF LogInv
<1>3. CASE Head(todo).method \in Tolerated /\ handle' = h /\ todo' = Tail(todo)
  <2>1. Calling(Head(todo).method)
    BY DEF Calling
  <2>2. \A c \in Clients : ~Awaits(Tail(todo), c)
    BY <1>3, <2>1, AwaitedAfter DEF Tolerated
  <2> QED
    BY <1>1, <1>2, <1>3, <2>2 DEF LogInv
<1>4. CASE handle' = h /\ todo' = <<>>
  BY <1>1, <1>2, <1>4 DEF LogInv, Awaits
<1>5. CASE Gone("failed")
  BY <1>2, <1>5 DEF LogInv, Awaits, Gone
<1> QED
  BY <1>3, <1>4, <1>5 DEF Raises

\* A call that leaves t in the handle.
LEMMA SucceedsCovered ==
    ASSUME Inv, LogInv, NEW m, Calling(m), m # "finished",
           NEW t \in Table, Covered(t.rules), Succeeds(t), kernel' = kernel,
           \A c \in Clients : Awaits(Tail(todo), c) => Spare(t.rules, c)
    PROVE  LogInv'
<1>1. /\ handle' # None /\ handle'.table = t /\ todo' = Tail(todo)
  BY SucceedsTypes
<1> QED
  BY <1>1 DEF LogInv

\* A chain without log rules.
LEMMA NothingLogged ==
    ASSUME NEW rules, rules # None => LogsIn(rules) = {}
    PROVE  Covered(rules)
<1> SUFFICES ASSUME rules # None PROVE \E f : Matching(rules, LogsIn(rules), f)
  BY DEF Covered
<1> DEFINE f == [i \in {} |-> 1]
<1>1. Matching(rules, LogsIn(rules), f)
  BY DEF Matching
<1> QED
  BY <1>1

LEMMA InsertEntryCovered == ASSUME Inv, LogInv, InsertEntry PROVE LogInv'
<1> DEFINE r == Head(todo).rule
           t == [Copy EXCEPT !.rules = InsertAt(@, InsertPosition(@), r)]
<1>1. Calling("insertEntry") /\ todo # <<>> /\ Head(todo).method = "insertEntry"
  BY DEF InsertEntry, Calling
<1>2. PICK c \in Clients, k \in 1..2 :
          /\ AtAdding(c, k)
          /\ r = IF k = 1 THEN Accept(c) ELSE Log(c)
  BY <1>1, Where, Methods
<1>3. CASE Raises(Handle) /\ kernel' = kernel
  BY <1>1, <1>3, RaisesCovered
<1>4. CASE Succeeds(t) /\ kernel' = kernel /\ HasChain(Copy) /\ Len(Copy.rules) >= 2
  <2>1. Copy \in Table /\ Copy.rules \in Seq(Rule) /\ Shaped(Copy.rules)
    <3>1. Copy \in Table
      BY HandleTypes DEF Inv
    <3>2. Copy.rules \in Seq(Rule)
      BY <1>4, <3>1 DEF HasChain, Table
    <3>3. Settled(Copy.rules)
      BY <1>2, CopyOK DEF AtAdding
    <3> QED
      BY <1>4, <3>1, <3>2, <3>3 DEF HasChain, Settled
  <2>2. r \in ClientRule
    BY <1>2 DEF ClientRule
  <2>3. t \in Table /\ t.rules = InsertAt(Copy.rules, 3, r)
    BY <2>1, <2>2, InsertKeeps DEF Table, InsertPosition
  <2> HIDE DEF t
  <2>4. /\ Covered(t.rules)
        /\ \A d \in Clients : Awaits(Tail(todo), d) => Spare(t.rules, d)
    <3>1. CASE k = 1
      <4>1. r = Accept(c) /\ Spare(t.rules, c)
        BY <1>2, <2>1, <2>3, <3>1, CopyCovered, AcceptSpares
      <4>2. Covered(t.rules)
        BY <4>1 DEF Spare, Covered
      <4>3. ASSUME NEW d \in Clients, Awaits(Tail(todo), d) PROVE d = c
        <5>1. r = Accept(d)
          BY <1>1, <4>3, AwaitedAfter
        <5> QED
          BY <4>1, <5>1 DEF Accept
      <4> QED
        BY <4>1, <4>2, <4>3
    <3>2. CASE k = 2
      <4>1. r = Log(c) /\ Awaits(todo, c)
        BY <1>1, <1>2, <3>2 DEF Awaits
      <4>2. Spare(Copy.rules, c)
        BY <4>1, HandleTypes DEF Inv, LogInv, Copy
      <4>3. Covered(t.rules)
        BY <2>1, <2>3, <4>1, <4>2, LogCovered
      <4>4. ASSUME NEW d \in Clients, Awaits(Tail(todo), d) PROVE FALSE
        <5>1. r = Accept(d)
          BY <1>1, <4>4, AwaitedAfter
        <5> QED
          BY <4>1, <5>1 DEF Accept, Log
      <4> QED
        BY <4>3, <4>4
    <3> QED
      BY <3>1, <3>2
  <2> QED
    BY <1>1, <1>4, <2>3, <2>4, SucceedsCovered
<1> QED
  BY <1>3, <1>4 DEF InsertEntry, Edits

LEMMA DeleteEntryCovered == ASSUME Inv, LogInv, DeleteEntry PROVE LogInv'
<1> DEFINE r == Head(todo).rule
           t == [Copy EXCEPT !.rules = RemoveFirst(@, r)]
<1>1. Calling("deleteEntry") /\ todo # <<>> /\ Head(todo).method = "deleteEntry"
  BY DEF DeleteEntry, Calling
<1>2. PICK c \in Clients, k \in 1..2 :
          /\ AtRemoving(c, k)
          /\ r = IF k = 1 THEN Log(c) ELSE Accept(c)
  BY <1>1, Where, Methods
<1>3. CASE Raises(Handle) /\ kernel' = kernel
  BY <1>1, <1>3, RaisesCovered
<1>4. CASE /\ Succeeds(t) /\ kernel' = kernel
           /\ HasChain(Copy) /\ Contains(Copy.rules, r)
  <2>1. Copy \in Table /\ Copy.rules \in Seq(Rule) /\ Shaped(Copy.rules)
    <3>1. Copy \in Table
      BY HandleTypes DEF Inv
    <3>2. Copy.rules \in Seq(Rule)
      BY <1>4, <3>1 DEF HasChain, Table
    <3>3. Settled(Copy.rules) /\ Copy.rules # None
      BY <1>2, <1>4, CopyOK DEF AtRemoving, HasChain
    <3>4. Copy.rules # <<>>
      BY <1>4 DEF Contains
    <3> QED
      BY <3>1, <3>2, <3>3, <3>4 DEF Settled
  <2>2. r \in ClientRule
    BY <1>2 DEF ClientRule
  <2>3. t \in Table /\ t.rules = RemoveFirst(Copy.rules, r)
    BY <1>4, <2>1, <2>2, DeleteKeeps DEF Table
  <2> HIDE DEF t
  <2>4. /\ Covered(t.rules)
        /\ \A d \in Clients : Awaits(Tail(todo), d) => Spare(t.rules, d)
    <3>1. CASE k = 1
      <4>1. r = Log(c) /\ Spare(t.rules, c)
        BY <1>2, <1>4, <2>1, <2>3, <3>1, CopyCovered, UnloggedSpares
      <4>2. Covered(t.rules)
        BY <4>1 DEF Spare, Covered
      <4>3. ASSUME NEW d \in Clients, Awaits(Tail(todo), d) PROVE d = c
        <5>1. r = Log(d)
          BY <1>1, <4>3, AwaitedAfter
        <5> QED
          BY <4>1, <5>1 DEF Log
      <4> QED
        BY <4>1, <4>2, <4>3
    <3>2. CASE k = 2
      <4>1. r = Accept(c) /\ Awaits(todo, c)
        BY <1>1, <1>2, <3>2 DEF Awaits
      <4>2. Spare(Copy.rules, c)
        BY <4>1, HandleTypes DEF Inv, LogInv, Copy
      <4>3. Covered(t.rules)
        BY <1>4, <2>1, <2>3, <4>1, <4>2, RefusedCovered
      <4>4. ASSUME NEW d \in Clients, Awaits(Tail(todo), d) PROVE FALSE
        <5>1. r = Log(d)
          BY <1>1, <4>4, AwaitedAfter
        <5> QED
          BY <4>1, <5>1 DEF Accept, Log
      <4> QED
        BY <4>3, <4>4
    <3> QED
      BY <3>1, <3>2
  <2> QED
    BY <1>1, <1>4, <2>3, <2>4, SucceedsCovered
<1> QED
  BY <1>3, <1>4 DEF DeleteEntry, Edits

\* The calls that edit the chain as a whole, or the jumps to it.
LEMMA EditCovered ==
    ASSUME Inv, LogInv, NEW m, Calling(m),
           m \notin {"insertEntry", "deleteEntry", "queued", "finished"},
           NEW possible, NEW t \in Table,
           possible => Covered(t.rules),
           Edits(possible, t)
    PROVE  LogInv'
<1>1. todo # <<>> /\ Head(todo).method = m /\ kernel' = kernel
  BY DEF Calling, Edits
<1>2. \A c \in Clients : ~Awaits(Tail(todo), c)
  BY AwaitedAfter
<1>3. CASE Raises(Handle)
  BY <1>1, <1>3, RaisesCovered
<1>4. CASE possible /\ Succeeds(t)
  BY <1>1, <1>2, <1>4, SucceedsCovered
<1> QED
  BY <1>3, <1>4 DEF Edits

LEMMA BuildsCovered ==
    ASSUME Inv, LogInv,
           \/ AppendJump \/ DeleteJump \/ CreateChain \/ FlushEntries \/ DeleteChain
    PROVE  LogInv'
<1>1. Copy \in Table /\ Covered(Copy.rules)
  BY HandleTypes, CopyCovered DEF Inv
<1>2. /\ [Copy EXCEPT !.rules = <<>>] \in Table
      /\ Covered([Copy EXCEPT !.rules = <<>>].rules)
  <2>1. LogsIn(<<>>) = {} /\ <<>> \in Seq(Rule)
    BY DEF LogsIn
  <2> QED
    BY <1>1, <2>1, WithRules, NothingLogged
<1>3. /\ [Copy EXCEPT !.rules = None] \in Table
      /\ Covered([Copy EXCEPT !.rules = None].rules)
  BY <1>1, WithRules DEF Covered
<1>4. CASE AppendJump
  <2>1. /\ [Copy EXCEPT !.jumps = @ + 1] \in Table
        /\ Covered([Copy EXCEPT !.jumps = @ + 1].rules)
    BY <1>1 DEF Table
  <2> QED
    BY <1>4, <2>1, EditCovered DEF AppendJump
<1>5. CASE DeleteJump
  <2> DEFINE possible == HasChain(Copy) /\ Copy.jumps > 0
             t == IF possible THEN [Copy EXCEPT !.jumps = @ - 1] ELSE Copy
  <2>1. t \in Table /\ Covered(t.rules)
    BY <1>1 DEF Table
  <2>2. Calling("deleteJump") /\ Edits(possible, t)
    BY <1>5 DEF DeleteJump, Edits
  <2> HIDE DEF possible, t
  <2> QED
    BY <2>1, <2>2, EditCovered
<1>6. CASE CreateChain
  BY <1>2, <1>6, EditCovered DEF CreateChain
<1>7. CASE FlushEntries
  BY <1>2, <1>7, EditCovered DEF FlushEntries
<1>8. CASE DeleteChain
  BY <1>3, <1>8, EditCovered DEF DeleteChain
<1> QED
  BY <1>4, <1>5, <1>6, <1>7, <1>8

LEMMA AppendEntryCovered == ASSUME Inv, LogInv, AppendEntry PROVE LogInv'
<1> DEFINE r == Head(todo).rule
           t == [Copy EXCEPT !.rules = Append(@, r)]
<1>1. Calling("appendEntry") /\ todo # <<>>
  BY DEF AppendEntry, Calling
<1>2. PICK k \in {7, 8, 9} : AtStarting(k)
  BY <1>1, Where, Methods
<1>3. r \in {Authenticator, LocalTraffic, Tproxy}
  BY <1>2, StartingCalls DEF AtStarting, CallWith
<1>4. Copy \in Table /\ Copy = handle.table
  BY <1>2, HandleTypes, StartingCopy DEF Inv
<1>5. Copy.rules \in {<<>>, <<Authenticator>>, <<Authenticator, LocalTraffic>>}
  BY <1>2, <1>4 DEF AtStarting, BuiltUpTo
<1>6. /\ Authenticator.rule # "log" /\ LocalTraffic.rule # "log" /\ Tproxy.rule # "log"
      /\ Authenticator \in Rule /\ LocalTraffic \in Rule /\ Tproxy \in Rule
  BY DEF Authenticator, LocalTraffic, Tproxy, Rule
<1>7. /\ Copy.rules \in Seq(Rule)
      /\ \A i \in 1..Len(Copy.rules) : Copy.rules[i].rule # "log"
  <2>1. CASE Copy.rules = <<>>
    BY <2>1
  <2>2. CASE Copy.rules = <<Authenticator>>
    <3> DEFINE s == <<Authenticator>>
    <3>1. s \in Seq(Rule) /\ Len(s) = 1 /\ s[1] = Authenticator
      BY <1>6
    <3> HIDE DEF s
    <3>2. \A i \in 1..Len(s) : s[i].rule # "log"
      BY <1>6, <3>1
    <3> QED
      BY <2>2, <3>1, <3>2 DEF s
  <2>3. CASE Copy.rules = <<Authenticator, LocalTraffic>>
    <3> DEFINE s == <<Authenticator, LocalTraffic>>
    <3>1. /\ s \in Seq(Rule) /\ Len(s) = 2
          /\ s[1] = Authenticator /\ s[2] = LocalTraffic
      BY <1>6
    <3> HIDE DEF s
    <3>2. \A i \in 1..Len(s) : s[i].rule # "log"
      BY <1>6, <3>1
    <3> QED
      BY <2>3, <3>1, <3>2 DEF s
  <2> QED
    BY <1>5, <2>1, <2>2, <2>3
<1> DEFINE new == Append(Copy.rules, r)
<1>8. new \in Seq(Rule) /\ LogsIn(new) = {}
  <2>1. /\ new \in Seq(Rule) /\ Len(new) = Len(Copy.rules) + 1
        /\ \A i \in 1..Len(Copy.rules) : new[i] = Copy.rules[i]
        /\ new[Len(Copy.rules) + 1] = r
    BY <1>3, <1>6, <1>7, AppendProperties
  <2>2. Len(Copy.rules) \in Nat /\ DOMAIN new = 1..(Len(Copy.rules) + 1)
    BY <1>7, <2>1
  <2>3. r.rule # "log"
    BY <1>3, <1>6
  <2> HIDE DEF new, r
  <2>4. \A i \in DOMAIN new : i \in 1..Len(Copy.rules) \/ i = Len(Copy.rules) + 1
    BY <2>2
  <2>5. \A i \in DOMAIN new : new[i].rule # "log"
    BY <1>7, <2>1, <2>3, <2>4
  <2> QED
    BY <2>1, <2>5 DEF LogsIn
<1>9. t \in Table /\ Covered(t.rules)
  <2>1. new \in Seq(Rule) \cup {None} /\ Covered(new)
    BY <1>8, NothingLogged
  <2> QED
    BY <1>4, <2>1, WithRules
<1> HIDE DEF new, t
<1>10. Edits(HasChain(Copy), t)
  BY DEF AppendEntry, t
<1> QED
  BY <1>1, <1>9, <1>10, EditCovered

LEMMA ReplaceCovered == ASSUME Inv, LogInv, Replace PROVE LogInv'
<1>1. Calling("replace") /\ todo # <<>> /\ Head(todo).method = "replace"
  BY DEF Replace, Calling
<1>2. CASE Raises(handle) /\ kernel' = kernel
  BY <1>1, <1>2, RaisesCovered
<1>3. CASE /\ handle # None /\ ~handle.changed /\ handle' = None
           /\ todo' = Tail(Tail(todo)) /\ kernel' = kernel
  <2>1. \A d \in Clients : ~AtAdding(d, 3)
    BY <1>3 DEF AtAdding, AddedUpTo
  <2>2. \A c \in Clients : ~Awaits(todo', c)
    BY <1>1, <1>3, <2>1, AwaitedAfter
  <2> QED
    BY <1>3, <2>2 DEF LogInv
<1>4. CASE /\ handle # None /\ kernel' = handle.table
           /\ todo' = Tail(todo) /\ handle' = handle
  <2>1. \A c \in Clients : ~Awaits(todo', c)
    BY <1>1, <1>4, AwaitedAfter
  <2> QED
    BY <1>4, <2>1 DEF LogInv
<1> QED
  BY <1>2, <1>3, <1>4 DEF Replace

LEMMA AddCountersCovered == ASSUME Inv, LogInv, AddCounters PROVE LogInv'
<1>1. /\ Calling("addCounters") /\ todo # <<>> /\ Head(todo).method = "addCounters"
      /\ kernel' = kernel
  BY DEF AddCounters, Calling
<1>2. CASE Raises(handle)
  BY <1>1, <1>2, RaisesCovered
<1>3. CASE handle' = None /\ todo' = Tail(todo)
  <2>1. \A c \in Clients : ~Awaits(todo', c)
    BY <1>1, <1>3, AwaitedAfter
  <2> QED
    BY <1>1, <1>3, <2>1 DEF LogInv
<1> QED
  BY <1>2, <1>3 DEF AddCounters

\* The operations around the calls begin with another call than those.
LEMMA BeginsCovered ==
    ASSUME LogInv, NEW s \in {Starting, Cleaning} \cup {Adding(c) : c \in Clients}
                              \cup {Removing(c) : c \in Clients},
           todo' = s, kernel' = kernel, handle' = handle \/ handle' = Read(kernel)
    PROVE  LogInv'
<1>1. /\ \A c \in Clients : Adding(c) = Rest(Adding(c), 1)
      /\ \A c \in Clients : Removing(c) = Rest(Removing(c), 1)
      /\ Starting = Rest(Starting, 1) /\ Cleaning = Rest(Cleaning, 1)
  BY AddingCalls, RemovingCalls, StartingCalls, CleaningCalls, FromTheFirst
<1>2. \A c \in Clients : ~Awaits(s, c)
  BY <1>1, AwaitedAt
<1>3. Read(kernel).table = kernel
  BY DEF Read
<1> QED
  BY <1>2, <1>3 DEF LogInv

LEMMA LogInvNext == Inv /\ LogInv /\ [Next]_vars => LogInv'
<1> SUFFICES ASSUME Inv, LogInv, [Next]_vars PROVE LogInv'
  OBVIOUS
<1>1. CASE Start
  BY <1>1, BeginsCovered DEF Start, Starting
<1>2. ASSUME NEW c \in Clients, AddClient(c) \/ RemoveClient(c) \/ StopRemove(c)
      PROVE  LogInv'
  BY <1>2, BeginsCovered DEF AddClient, RemoveClient, StopRemove, Adding, Removing
<1>3. CASE StopClean
  BY <1>3, BeginsCovered DEF StopClean, Cleaning
<1>4. CASE Stop \/ \E c \in Clients : ForgetClient(c)
  BY <1>4 DEF Stop, ForgetClient, LogInv
<1>5. CASE InsertEntry \/ AppendEntry \/ DeleteEntry
  BY <1>5, InsertEntryCovered, AppendEntryCovered, DeleteEntryCovered
<1>6. CASE \/ AppendJump \/ DeleteJump \/ CreateChain \/ FlushEntries \/ DeleteChain
  BY <1>6, BuildsCovered
<1>7. CASE Replace \/ AddCounters
  BY <1>7, ReplaceCovered, AddCountersCovered
<1>8. CASE Queued
  <2>1. Calling("queued")
    BY <1>8 DEF Queued
  <2>2. \A c \in Clients : ~Awaits(Tail(todo), c)
    BY <2>1, AwaitedAfter
  <2> QED
    BY <1>8, <2>2 DEF Queued, LogInv
<1>9. CASE Finished \/ Crash
  BY <1>9 DEF Finished, Crash, Gone, LogInv, Awaits
<1>10. CASE CallFails
  BY <1>10, RaisesCovered DEF CallFails
<1>11. CASE OtherProcess
  <2>1. kernel'.rules = kernel.rules
    BY <1>11 DEF OtherProcess, Inv, Types, Table
  <2> QED
    BY <1>11, <2>1 DEF OtherProcess, LogInv
<1>12. CASE UNCHANGED vars
  BY <1>12 DEF vars, LogInv
<1> QED
  BY <1>1, <1>2, <1>3, <1>4, <1>5, <1>6, <1>7, <1>8, <1>9, <1>10, <1>11, <1>12
     DEF Next

(* Whatever fails and whoever else writes: a client whose packets the chain *)
(* logs is let through further down the same chain, also when addClient or  *)
(* removeClient was abandoned between its two rules and a later commit took *)
(* what the handle had of it (base.py, addClient and removeClient).         *)
THEOREM LogCorrect == Spec => []LoggedIsAccepted
<1>1. ASSUME Init PROVE LogInv
  BY <1>1 DEF Init, LogInv, Covered, Awaits
<1>2. Inv /\ LogInv => LoggedIsAccepted
  <2> SUFFICES ASSUME Inv, LogInv, HasChain(kernel),
                      NEW i \in DOMAIN kernel.rules, NEW c \in Clients,
                      kernel.rules[i] = Log(c)
               PROVE  \E j \in (i + 1)..Len(kernel.rules) : kernel.rules[j] = Accept(c)
    BY DEF LoggedIsAccepted
  <2>1. PICK f : Matching(kernel.rules, LogsIn(kernel.rules), f)
    BY DEF LogInv, Covered, HasChain
  <2>2. kernel.rules \in Seq(Rule)
    BY DEF Inv, Types, Table, HasChain
  <2>3. i \in LogsIn(kernel.rules) /\ kernel.rules[i].source = c
    BY DEF LogsIn, Log
  <2>4. /\ f[i] \in 1..Len(kernel.rules) /\ i < f[i] /\ kernel.rules[f[i]] = Accept(c)
        /\ Len(kernel.rules) \in Nat /\ i \in 1..Len(kernel.rules)
    BY <2>1, <2>2, <2>3 DEF Matching
  <2>5. f[i] \in (i + 1)..Len(kernel.rules)
    BY <2>4
  <2> QED
    BY <2>4, <2>5
<1> QED
  BY <1>1, <1>2, InvHolds, LogInvNext, PTL DEF Spec

-----------------------------------------------------------------------------
(* The second part: no call fails by itself and no other process writes.   *)


Open == {c \in Clients : client[c] = "open"}

\* No rule is there twice.
Distinct(rules) == \A i, j \in DOMAIN rules : rules[i] = rules[j] => i = j

\* Who is logged is let through by the very next rule.
Paired(rules) ==
    \A i \in DOMAIN rules, c \in Clients :
        rules[i] = Log(c) => i + 1 \in DOMAIN rules /\ rules[i + 1] = Accept(c)

\* A whole chain that accepts the clients in accepted and logs those in logged.
Holds(rules, accepted, logged) ==
    /\ rules \in Seq(Rule) /\ Shaped(rules) /\ Distinct(rules) /\ Paired(rules)
    /\ \A c \in Clients :
          /\ In(Accept(c), rules) <=> c \in accepted
          /\ In(Log(c), rules) <=> c \in logged

Bare(t) == t.rules = None /\ t.jumps = 0 /\ t.others = {}

Full(t, jumps, accepted, logged) ==
    t.jumps = jumps /\ t.others = {} /\ Holds(t.rules, accepted, logged)

\* What a run may leave in the kernel wherever it is killed.
Leftover(t) ==
    \/ Bare(t)
    \/ \E jumps \in {0, 1}, accepted \in SUBSET Clients :
          Full(t, jumps, accepted, accepted)

-----------------------------------------------------------------------------
(* The invariant.                                                          *)

\* The kernel will take the handle.
Fits ==
    /\ handle # None
    /\ handle.num = Entries(kernel)
    /\ ~handle.changed => handle.table = kernel

\* The kernel has taken it.
Sent == handle # None /\ kernel = handle.table

\* Before the k-th call of clean.
Cleared(k) ==
    /\ k = 1 => handle = None \/ (Fits /\ handle.table = kernel)
    /\ k \in 2..4 => Fits /\ handle.table.jumps = 0 /\ handle.table.others = {}
    /\ k = 2 => Settled(handle.table.rules)
    /\ k = 3 => handle.table.rules \in {None, <<>>}
    /\ k = 4 => handle.table.rules = None
    /\ k = 5 => Sent
    /\ k = 6 => handle = None
    /\ k \in {5, 6} => Bare(kernel)

\* Before the k-th call of initialize.
Built(k) ==
    /\ k \in 1..6 => Cleared(k)
    /\ k \in 7..10 =>
          /\ Fits /\ handle.changed /\ Bare(kernel)
          /\ handle.table.jumps = 0 /\ handle.table.others = {}
    /\ k = 7 => handle.table.rules = <<>>
    /\ k = 8 => handle.table.rules = <<Authenticator>>
    /\ k = 9 => handle.table.rules = <<Authenticator, LocalTraffic>>
    /\ k = 10 => Holds(handle.table.rules, {}, {})
    /\ k \in 11..13 => Full(kernel, 0, {}, {})
    /\ k \in {11, 14} => Sent
    /\ k \in {12, 15} => handle = None
    /\ k = 13 => Fits /\ handle.changed /\ Full(handle.table, 1, {}, {})
    /\ k \in {14, 15} => Full(kernel, 1, {}, {})

\* Before the k-th call of addClient.
Added(c, k) ==
    /\ c \notin Open
    /\ k \in {1, 5} => handle = None
    /\ k \in {2, 3} => Fits /\ handle.changed
    /\ k = 2 => /\ Full(handle.table, 1, Open \cup {c}, Open)
                /\ handle.table.rules[3] = Accept(c)
    /\ k = 3 => Full(handle.table, 1, Open \cup {c}, Open \cup {c})
    /\ k = 4 => Sent
    /\ k \in 1..3 => Full(kernel, 1, Open, Open)
    /\ k \in {4, 5} => Full(kernel, 1, Open \cup {c}, Open \cup {c})

\* Before the k-th call of removeClient.
Removed(c, k) ==
    /\ c \notin Open
    /\ k = 1 => handle = None
    /\ k \in {2, 3} => Fits /\ handle.changed
    /\ k = 2 => Full(handle.table, 1, Open \cup {c}, Open)
    /\ k = 3 => Full(handle.table, 1, Open, Open)
    /\ k = 4 => Sent
    /\ k \in 1..3 => Full(kernel, 1, Open \cup {c}, Open \cup {c})
    /\ k = 4 => Full(kernel, 1, Open, Open)

Resting == todo = <<>> /\ handle = None /\ Full(kernel, 1, Open, Open)

Starts == status = "starting" /\ \E k \in 1..15 : todo = Rest(Starting, k) /\ Built(k)

Adds ==
    status = "up"
        /\ \E c \in Clients, k \in 1..5 : todo = Rest(Adding(c), k) /\ Added(c, k)

Removes ==
    status \in {"up", "stopping"}
        /\ \E c \in Clients, k \in 1..4 : todo = Rest(Removing(c), k) /\ Removed(c, k)

Cleans ==
    status = "stopping" /\ NoneOpen
        /\ \E k \in 1..6 : todo = Rest(Cleaning, k) /\ Cleared(k)

Rests == status \in {"up", "stopping"} /\ Resting

Ended == status = "down" \/ (status = "stopped" /\ Bare(kernel))

Quiet ==
    ~disturbed =>
        /\ Leftover(kernel)
        /\ Starts \/ Adds \/ Removes \/ Cleans \/ Rests \/ Ended

-----------------------------------------------------------------------------
(* What editing a chain does to who is in it.                              *)

LEMMA RulesDiffer ==
    \A c, d : /\ Accept(c) = Accept(d) <=> c = d
              /\ Log(c) = Log(d) <=> c = d
              /\ Accept(c) # Log(d)
<1> TAKE c, d
<1>1. Accept(c).source = c /\ Accept(d).source = d /\ Accept(c).rule = "accept"
  BY DEF Accept
<1>2. Log(c).source = c /\ Log(d).source = d /\ Log(d).rule = "log"
  BY DEF Log
<1> QED
  BY <1>1, <1>2

LEMMA InsertExact ==
    ASSUME NEW rules \in Seq(Rule), Shaped(rules), Distinct(rules), Paired(rules),
           NEW r \in ClientRule, ~In(r, rules),
           \A c \in Clients : r = Log(c) => rules[3] = Accept(c)
    PROVE  /\ Distinct(InsertAt(rules, 3, r))
           /\ Paired(InsertAt(rules, 3, r))
           /\ \A x : In(x, InsertAt(rules, 3, r)) => In(x, rules) \/ x = r
<1> DEFINE new == InsertAt(rules, 3, r)
           old(i) == IF i < 3 THEN i ELSE i - 1
<1>1. 3 \in 1..(Len(rules) + 1) /\ Len(rules) \in Nat /\ Len(rules) >= 3
  BY DEF Shaped
<1>2. /\ new \in Seq(Rule)
      /\ Len(new) = Len(rules) + 1
      /\ \A i \in 1..2 : new[i] = rules[i]
      /\ new[3] = r
      /\ \A i \in 3..Len(rules) : new[i + 1] = rules[i]
  BY <1>1, RulesOfClients, InsertAtProperties
<1> HIDE DEF new
<1>3. rules # None /\ DOMAIN rules = 1..Len(rules) /\ DOMAIN new = 1..Len(new)
  BY <1>2, FirewallAssumption
<1>4. ASSUME NEW i \in 1..Len(new), i # 3
      PROVE  old(i) \in 1..Len(rules) /\ new[i] = rules[old(i)]
  <2>1. CASE i < 3
    BY <1>1, <1>2, <2>1
  <2>2. CASE i > 3
    <3>1. i - 1 \in 3..Len(rules) /\ (i - 1) + 1 = i
      BY <1>1, <1>2, <2>2
    <3>2. new[i] = rules[i - 1]
      BY <1>2, <3>1
    <3> QED
      BY <1>1, <2>2, <3>1, <3>2
  <2> QED
    BY <1>2, <1>4, <2>1, <2>2
<1>5. ASSUME NEW i \in 1..Len(rules) PROVE rules[i] # r
  BY <1>3, <1>5 DEF In
<1>6. Distinct(new)
  <2> SUFFICES ASSUME NEW i \in 1..Len(new), NEW j \in 1..Len(new), new[i] = new[j]
               PROVE  i = j
    BY <1>3 DEF Distinct
  <2>1. CASE i = 3 \/ j = 3
    BY <1>2, <1>4, <1>5, <2>1
  <2>2. CASE i # 3 /\ j # 3
    <3>1. /\ old(i) \in 1..Len(rules) /\ old(j) \in 1..Len(rules)
          /\ rules[old(i)] = rules[old(j)]
      BY <1>4, <2>2
    <3>2. old(i) = old(j)
      <4> HIDE DEF old
      <4> QED
        BY <1>3, <3>1 DEF Distinct
    <3> QED
      BY <1>2, <2>2, <3>2
  <2> QED
    BY <2>1, <2>2
<1>7. ASSUME NEW x, In(x, new) PROVE In(x, rules) \/ x = r
  <2>1. PICK i \in 1..Len(new) : new[i] = x
    BY <1>3, <1>7 DEF In
  <2> QED
    BY <1>2, <1>3, <1>4, <2>1 DEF In
<1>8. Paired(new)
  <2> SUFFICES ASSUME NEW i \in 1..Len(new), NEW c \in Clients, new[i] = Log(c)
               PROVE  i + 1 \in 1..Len(new) /\ new[i + 1] = Accept(c)
    BY <1>3 DEF Paired
  <2>1. \A j \in 1..Len(rules) :
           rules[j] = Log(c) => j + 1 \in 1..Len(rules) /\ rules[j + 1] = Accept(c)
    BY <1>3 DEF Paired
  <2>2. CASE i < 3
    <3>1. rules[i] = Log(c) /\ i \in 1..Len(rules)
      BY <1>1, <1>2, <2>2
    <3>2. rules[i] \in {Authenticator, LocalTraffic}
      BY <1>1, <2>2 DEF Shaped
    <3>3. Log(c) \in ClientRule
      BY DEF ClientRule
    <3> QED
      BY <3>1, <3>2, <3>3, RulesOfClients
  <2>3. CASE i = 3
    <3>1. rules[3] = Accept(c) /\ 3 \in 3..Len(rules)
      BY <1>1, <1>2, <2>3
    <3> QED
      BY <1>1, <1>2, <2>3, <3>1
  <2>4. CASE i > 3
    <3>1. i - 1 \in 1..Len(rules) /\ rules[i - 1] = Log(c)
      BY <1>1, <1>2, <1>4, <2>4
    <3>2. i \in 1..Len(rules) /\ rules[i] = Accept(c)
      BY <2>1, <3>1
    <3>3. i \in 3..Len(rules)
      BY <2>4, <3>2
    <3> QED
      BY <1>1, <1>2, <3>2, <3>3
  <2> QED
    BY <1>2, <2>2, <2>3, <2>4
<1> QED
  BY <1>6, <1>7, <1>8 DEF new

LEMMA DeleteExact ==
    ASSUME NEW rules \in Seq(Rule), Distinct(rules), Paired(rules),
           NEW r, Contains(rules, r),
           \A c \in Clients : r = Accept(c) => ~In(Log(c), rules)
    PROVE  /\ Distinct(RemoveFirst(rules, r))
           /\ Paired(RemoveFirst(rules, r))
           /\ \A x : In(x, RemoveFirst(rules, r)) => In(x, rules) /\ x # r
<1> DEFINE new == RemoveFirst(rules, r)
<1>1. PICK k \in 1..Len(rules) : rules[k] = r /\ new = RemoveAt(rules, k)
  BY FirstRemoved
<1> DEFINE old(i) == IF i < k THEN i ELSE i + 1
<1>2. /\ new \in Seq(Rule)
      /\ Len(new) = Len(rules) - 1
      /\ \A i \in 1..(k - 1) : new[i] = rules[i]
      /\ \A i \in k..(Len(rules) - 1) : new[i] = rules[i + 1]
  BY <1>1, RemoveAtProperties
<1> HIDE DEF new
<1>3. /\ rules # None /\ Len(rules) \in Nat
      /\ DOMAIN rules = 1..Len(rules) /\ DOMAIN new = 1..Len(new)
  BY <1>2, FirewallAssumption
<1>4. ASSUME NEW i \in 1..Len(new)
      PROVE  old(i) \in 1..Len(rules) /\ old(i) # k /\ new[i] = rules[old(i)]
  <2>1. CASE i < k
    BY <1>2, <1>3, <2>1
  <2>2. CASE i >= k
    <3>1. i \in k..(Len(rules) - 1)
      BY <1>2, <1>3, <2>2
    <3> QED
      BY <1>2, <1>3, <2>2, <3>1
  <2> QED
    BY <2>1, <2>2
<1>5. ASSUME NEW i \in 1..Len(rules), rules[i] = r PROVE i = k
  BY <1>1, <1>3, <1>5 DEF Distinct
<1>6. Distinct(new)
  <2> SUFFICES ASSUME NEW i \in 1..Len(new), NEW j \in 1..Len(new), new[i] = new[j]
               PROVE  i = j
    BY <1>3 DEF Distinct
  <2>1. old(i) = old(j)
    BY <1>3, <1>4 DEF Distinct
  <2> QED
    BY <1>2, <1>3, <2>1
<1>7. ASSUME NEW x, In(x, new) PROVE In(x, rules) /\ x # r
  <2>1. PICK i \in 1..Len(new) : new[i] = x
    BY <1>3, <1>7 DEF In
  <2> QED
    BY <1>3, <1>4, <1>5, <2>1 DEF In
<1>8. Paired(new)
  <2> SUFFICES ASSUME NEW i \in 1..Len(new), NEW c \in Clients, new[i] = Log(c)
               PROVE  i + 1 \in 1..Len(new) /\ new[i + 1] = Accept(c)
    BY <1>3 DEF Paired
  <2>1. old(i) \in 1..Len(rules) /\ rules[old(i)] = Log(c)
    BY <1>4
  <2>2. old(i) + 1 \in 1..Len(rules) /\ rules[old(i) + 1] = Accept(c)
    <3> HIDE DEF old
    <3> QED
      BY <1>3, <2>1 DEF Paired
  <2>3. old(i) + 1 # k
    <3> HIDE DEF old
    <3>1. In(Log(c), rules)
      BY <1>3, <2>1 DEF In
    <3> QED
      BY <1>1, <2>2, <3>1
  <2>4. i + 1 \in 1..Len(new) /\ old(i + 1) = old(i) + 1
    BY <1>2, <1>3, <2>2, <2>3
  <2>5. new[i + 1] = rules[old(i + 1)]
    BY <1>4, <2>4
  <2> QED
    BY <2>2, <2>4, <2>5
<1> QED
  BY <1>6, <1>7, <1>8 DEF new

LEMMA Inserted ==
    ASSUME NEW rules, NEW A \in SUBSET Clients, NEW L \in SUBSET Clients,
           Holds(rules, A, L), NEW c \in Clients
    PROVE  /\ rules \in Seq(Rule) /\ rules # None /\ Len(rules) >= 2
           /\ c \notin A => /\ Holds(InsertAt(rules, 3, Accept(c)), A \cup {c}, L)
                            /\ InsertAt(rules, 3, Accept(c))[3] = Accept(c)
           /\ c \notin L /\ rules[3] = Accept(c) =>
                 Holds(InsertAt(rules, 3, Log(c)), A, L \cup {c})
<1>1. /\ rules \in Seq(Rule) /\ Shaped(rules) /\ Distinct(rules) /\ Paired(rules)
      /\ \A d \in Clients : /\ In(Accept(d), rules) <=> d \in A
                            /\ In(Log(d), rules) <=> d \in L
  BY DEF Holds
<1>2. rules # None /\ Len(rules) >= 2
  BY <1>1, FirewallAssumption DEF Shaped
<1>3. Accept(c) \in ClientRule /\ Log(c) \in ClientRule
  BY DEF ClientRule
<1>4. ASSUME NEW r \in ClientRule, ~In(r, rules),
             \A d \in Clients : r = Log(d) => rules[3] = Accept(d)
      PROVE  /\ InsertAt(rules, 3, r) \in Seq(Rule)
             /\ Shaped(InsertAt(rules, 3, r)) /\ Distinct(InsertAt(rules, 3, r))
             /\ Paired(InsertAt(rules, 3, r))
             /\ \A x : In(x, InsertAt(rules, 3, r)) <=> In(x, rules) \/ x = r
  BY <1>1, <1>4, InsertKeeps, InsertExact
<1>5. ASSUME c \notin A
      PROVE  /\ Holds(InsertAt(rules, 3, Accept(c)), A \cup {c}, L)
             /\ InsertAt(rules, 3, Accept(c))[3] = Accept(c)
  <2> DEFINE new == InsertAt(rules, 3, Accept(c))
  <2>1. /\ new \in Seq(Rule) /\ Shaped(new) /\ Distinct(new) /\ Paired(new)
        /\ \A x : In(x, new) <=> In(x, rules) \/ x = Accept(c)
    BY <1>1, <1>3, <1>4, <1>5, RulesDiffer
  <2> HIDE DEF new
  <2>2. ASSUME NEW d \in Clients
        PROVE  /\ In(Accept(d), new) <=> d \in A \cup {c}
               /\ In(Log(d), new) <=> d \in L
    BY <1>1, <2>1, RulesDiffer
  <2>3. InsertAt(rules, 3, Accept(c))[3] = Accept(c)
    <3>1. 3 \in 1..(Len(rules) + 1) /\ Accept(c) \in Rule
      BY <1>1, <1>3, RulesOfClients DEF Shaped
    <3> QED
      BY <1>1, <3>1, InsertAtProperties
  <2> QED
    BY <2>1, <2>2, <2>3 DEF Holds, new
<1>6. ASSUME c \notin L, rules[3] = Accept(c)
      PROVE  Holds(InsertAt(rules, 3, Log(c)), A, L \cup {c})
  <2> DEFINE new == InsertAt(rules, 3, Log(c))
  <2>1. /\ new \in Seq(Rule) /\ Shaped(new) /\ Distinct(new) /\ Paired(new)
        /\ \A x : In(x, new) <=> In(x, rules) \/ x = Log(c)
    BY <1>1, <1>3, <1>4, <1>6, RulesDiffer
  <2> HIDE DEF new
  <2>2. ASSUME NEW d \in Clients
        PROVE  /\ In(Accept(d), new) <=> d \in A
               /\ In(Log(d), new) <=> d \in L \cup {c}
    BY <1>1, <2>1, RulesDiffer
  <2> QED
    BY <2>1, <2>2 DEF Holds, new
<1> QED
  BY <1>1, <1>2, <1>5, <1>6

LEMMA Deleted ==
    ASSUME NEW rules, NEW A \in SUBSET Clients, NEW L \in SUBSET Clients,
           Holds(rules, A, L), NEW c \in Clients
    PROVE  /\ rules \in Seq(Rule) /\ rules # None
           /\ c \in A \ L =>
                         /\ Contains(rules, Accept(c))
                         /\ Holds(RemoveFirst(rules, Accept(c)), A \ {c}, L)
           /\ c \in L => /\ Contains(rules, Log(c))
                         /\ Holds(RemoveFirst(rules, Log(c)), A, L \ {c})
<1>1. /\ rules \in Seq(Rule) /\ Shaped(rules) /\ Distinct(rules) /\ Paired(rules)
      /\ \A d \in Clients : /\ In(Accept(d), rules) <=> d \in A
                            /\ In(Log(d), rules) <=> d \in L
  BY DEF Holds
<1>2. rules # None /\ DOMAIN rules = 1..Len(rules)
  BY <1>1, FirewallAssumption
<1>3. Accept(c) \in ClientRule /\ Log(c) \in ClientRule
  BY DEF ClientRule
<1>4. ASSUME NEW r \in ClientRule, In(r, rules),
             \A d \in Clients : r = Accept(d) => ~In(Log(d), rules)
      PROVE  /\ Contains(rules, r)
             /\ RemoveFirst(rules, r) \in Seq(Rule)
             /\ Shaped(RemoveFirst(rules, r)) /\ Distinct(RemoveFirst(rules, r))
             /\ Paired(RemoveFirst(rules, r))
             /\ \A x : In(x, RemoveFirst(rules, r)) <=> In(x, rules) /\ x # r
  <2>1. Contains(rules, r)
    BY <1>2, <1>4 DEF In, Contains
  <2> QED
    BY <1>1, <1>4, <2>1, DeleteKeeps, DeleteExact
<1>5. ASSUME c \in A \ L
      PROVE  /\ Contains(rules, Accept(c))
             /\ Holds(RemoveFirst(rules, Accept(c)), A \ {c}, L)
  <2> DEFINE new == RemoveFirst(rules, Accept(c))
  <2>1. /\ new \in Seq(Rule) /\ Shaped(new) /\ Distinct(new) /\ Paired(new)
        /\ Contains(rules, Accept(c))
        /\ \A x : In(x, new) <=> In(x, rules) /\ x # Accept(c)
    BY <1>1, <1>3, <1>4, <1>5, RulesDiffer
  <2> HIDE DEF new
  <2>2. ASSUME NEW d \in Clients
        PROVE  /\ In(Accept(d), new) <=> d \in A \ {c}
               /\ In(Log(d), new) <=> d \in L
    BY <1>1, <2>1, RulesDiffer
  <2> QED
    BY <2>1, <2>2 DEF Holds, new
<1>6. ASSUME c \in L
      PROVE  /\ Contains(rules, Log(c))
             /\ Holds(RemoveFirst(rules, Log(c)), A, L \ {c})
  <2> DEFINE new == RemoveFirst(rules, Log(c))
  <2>1. /\ new \in Seq(Rule) /\ Shaped(new) /\ Distinct(new) /\ Paired(new)
        /\ Contains(rules, Log(c))
        /\ \A x : In(x, new) <=> In(x, rules) /\ x # Log(c)
    BY <1>1, <1>3, <1>4, <1>6, RulesDiffer
  <2> HIDE DEF new
  <2>2. ASSUME NEW d \in Clients
        PROVE  /\ In(Accept(d), new) <=> d \in A
               /\ In(Log(d), new) <=> d \in L \ {c}
    BY <1>1, <2>1, RulesDiffer
  <2> QED
    BY <2>1, <2>2 DEF Holds, new
<1> QED
  BY <1>1, <1>2, <1>5, <1>6

LEMMA Empty ==
    /\ <<Authenticator, LocalTraffic, Tproxy>> \in Seq(Rule)
    /\ Holds(<<Authenticator, LocalTraffic, Tproxy>>, {}, {})
<1> DEFINE all == <<Authenticator, LocalTraffic, Tproxy>>
<1>1. /\ Authenticator \in Rule /\ LocalTraffic \in Rule /\ Tproxy \in Rule
  BY DEF Rule
<1>2. /\ Authenticator.rule = "authenticator" /\ LocalTraffic.rule = "local"
      /\ Tproxy.rule = "tproxy"
  BY DEF Authenticator, LocalTraffic, Tproxy
<1>3. /\ all \in Seq(Rule) /\ Len(all) = 3 /\ DOMAIN all = 1..3
      /\ all[1] = Authenticator /\ all[2] = LocalTraffic /\ all[3] = Tproxy
  BY <1>1
<1> HIDE DEF all
<1>4. Distinct(all) /\ Shaped(all) /\ Paired(all)
  <2>1. /\ Authenticator # LocalTraffic /\ Authenticator # Tproxy
        /\ LocalTraffic # Tproxy
    BY <1>2
  <2>2. \A i \in 1..3 : i = 1 \/ i = 2 \/ i = 3
    OBVIOUS
  <2>3. Distinct(all)
    BY <1>3, <2>1, <2>2 DEF Distinct
  <2>4. \A i \in DOMAIN all : all[i] = Tproxy <=> i = Len(all)
    BY <1>3, <2>1, <2>2
  <2>5. Paired(all)
    <3>1. \A c \in Clients : Log(c) \notin {Authenticator, LocalTraffic, Tproxy}
      BY RulesOfClients DEF ClientRule
    <3>2. \A i \in DOMAIN all : all[i] \in {Authenticator, LocalTraffic, Tproxy}
      BY <1>3
    <3> QED
      BY <3>1, <3>2 DEF Paired
  <2> QED
    BY <1>3, <2>3, <2>4, <2>5 DEF Shaped
<1>5. ASSUME NEW c \in Clients PROVE ~In(Accept(c), all) /\ ~In(Log(c), all)
  <2>1. /\ Accept(c) \notin {Authenticator, LocalTraffic, Tproxy}
        /\ Log(c) \notin {Authenticator, LocalTraffic, Tproxy}
    BY RulesOfClients DEF ClientRule
  <2>2. \A i \in DOMAIN all : all[i] \in {Authenticator, LocalTraffic, Tproxy}
    BY <1>3
  <2> QED
    BY <2>1, <2>2 DEF In
<1>6. Holds(all, {}, {})
  BY <1>3, <1>4, <1>5 DEF Holds
<1> QED
  BY <1>3, <1>6 DEF all

-----------------------------------------------------------------------------
(* Where the program is when it makes a call.                              *)

LEMMA WhenBuilding ==
    ASSUME Inv, NEW k \in 1..15, status = "starting",
           todo = Rest(Starting, k), Built(k)
    PROVE  AtStarting(k)
<1>1. NoneOpen
  BY DEF Inv, WhileStarting
<1>2. Settled(kernel.rules)
  BY DEF Inv, KernelOK
<1>3. BuiltUpTo(k)
  <2>1. k \in {7, 8, 9} => handle # None
    BY DEF Built, Fits
  <2>2. /\ k = 7 => handle.table.rules = <<>>
        /\ k = 8 => handle.table.rules = <<Authenticator>>
        /\ k = 9 => handle.table.rules = <<Authenticator, LocalTraffic>>
    BY DEF Built
  <2>3. k \in 1..6 /\ handle # None => Settled(handle.table.rules)
    BY <1>2 DEF Built, Cleared, Settled, Sent
  <2>4. k \in {7, 10} => Settled(handle.table.rules)
    BY DEF Built, Settled, Holds
  <2>5. k \in 11..15 /\ handle # None => Settled(handle.table.rules)
    BY DEF Built, Sent, Full, Settled, Holds
  <2>6. k \notin {8, 9} => k \in 1..6 \/ k \in {7, 10} \/ k \in 11..15
    OBVIOUS
  <2> QED
    BY <2>1, <2>2, <2>3, <2>4, <2>5, <2>6 DEF BuiltUpTo
<1> QED
  BY <1>1, <1>3, StartingPosition

LEMMA WhenAdding ==
    ASSUME NEW c \in Clients, NEW k \in 1..5, status = "up",
           todo = Rest(Adding(c), k), Added(c, k)
    PROVE  AtAdding(c, k)
<1>1. k \in {2, 3} => handle # None /\ handle.changed /\ In(Accept(c), handle.table.rules)
  BY DEF Added, Fits, Full, Holds
<1>2. k \in {4, 5} => In(Accept(c), kernel.rules)
  BY DEF Added, Full, Holds
<1>3. /\ k = 4 => handle # None /\ In(Accept(c), handle.table.rules)
      /\ k = 5 => handle = None
  BY <1>2 DEF Added, Sent
<1> QED
  BY <1>1, <1>2, <1>3, AddingPosition DEF AddedUpTo

LEMMA WhenRemoving ==
    ASSUME NEW c \in Clients, NEW k \in 1..4, status \in {"up", "stopping"},
           todo = Rest(Removing(c), k), Removed(c, k)
    PROVE  AtRemoving(c, k)
<1>1. client[c] # "open"
  BY DEF Removed, Open
<1> QED
  BY <1>1, RemovingPosition

LEMMA NotIdle ==
    /\ \A k \in 1..15 : Rest(Starting, k) # <<>>
    /\ \A c \in Clients, k \in 1..5 : Rest(Adding(c), k) # <<>>
    /\ \A c \in Clients, k \in 1..4 : Rest(Removing(c), k) # <<>>
    /\ \A k \in 1..6 : Rest(Cleaning, k) # <<>>
<1> HIDE DEF Starting, Adding, Removing, Cleaning, Rest, Calls
<1>1. \A k \in 1..15 : Rest(Starting, k) # <<>>
  BY StartingCalls, RestProperties
<1>2. \A c \in Clients, k \in 1..5 : Rest(Adding(c), k) # <<>>
  BY AddingCalls, RestProperties
<1>3. \A c \in Clients, k \in 1..4 : Rest(Removing(c), k) # <<>>
  BY RemovingCalls, RestProperties
<1>4. \A k \in 1..6 : Rest(Cleaning, k) # <<>>
  BY CleaningCalls, RestProperties
<1> QED
  BY <1>1, <1>2, <1>3, <1>4

LEMMA Position ==
    ASSUME Inv, Quiet, ~disturbed, todo # <<>>
    PROVE  \/ \E k \in 1..15 : AtStarting(k) /\ Built(k)
           \/ \E c \in Clients, k \in 1..5 : AtAdding(c, k) /\ Added(c, k)
           \/ \E c \in Clients, k \in 1..4 : AtRemoving(c, k) /\ Removed(c, k)
           \/ \E k \in 1..6 : AtCleaning(k) /\ Cleared(k)
<1>1. CASE Starts
  BY <1>1, WhenBuilding DEF Starts
<1>2. CASE Adds
  BY <1>2, WhenAdding DEF Adds
<1>3. CASE Removes
  BY <1>3, WhenRemoving DEF Removes
<1>4. CASE Cleans
  BY <1>4, CleaningPosition DEF Cleans
<1>5. CASE Rests
  BY <1>5 DEF Rests, Resting
<1>6. CASE Ended
  BY <1>6 DEF Ended, Inv, WhenEnded
<1> QED
  BY <1>1, <1>2, <1>3, <1>4, <1>5, <1>6 DEF Quiet

LEMMA AtRest ==
    ASSUME Quiet, ~disturbed, todo = <<>>, status \in {"up", "stopping"}
    PROVE  Resting
  BY NotIdle DEF Quiet, Starts, Adds, Removes, Cleans, Rests, Ended

-----------------------------------------------------------------------------
(* The handle a call works on, and the one it leaves.                      *)

LEMMA Working ==
    ASSUME Inv, handle = None \/ Fits
    PROVE  /\ Handle # None /\ Copy \in Table /\ Copy = Handle.table
           /\ Handle.num = Entries(kernel)
           /\ ~Handle.changed => Copy = kernel
           /\ handle = None => Copy = kernel
           /\ handle # None => Copy = handle.table
<1>1. /\ Handle # None /\ Copy \in Table /\ Copy = Handle.table
  BY HandleTypes DEF Inv, Copy
<1>2. CASE handle = None
  BY <1>1, <1>2 DEF Handle, Read
<1>3. CASE handle # None
  BY <1>1, <1>3 DEF Handle, Fits
<1> QED
  BY <1>1, <1>2, <1>3

LEMMA SucceedsFits ==
    ASSUME Inv, handle = None \/ Fits, NEW t \in Table, Succeeds(t), kernel' = kernel
    PROVE  /\ Fits' /\ handle'.changed /\ handle'.table = t
           /\ todo' = Tail(todo) /\ client' = client /\ status' = status
<1>1. /\ handle' # None /\ handle'.table = t /\ handle'.changed
      /\ todo' = Tail(todo) /\ client' = client /\ status' = status
  BY SucceedsTypes
<1>2. handle'.num = Handle.num
  BY HandleTypes DEF Succeeds, HandleType, Inv
<1>3. Entries(kernel)' = Entries(kernel)
  BY DEF Entries, HasChain
<1> QED
  BY <1>1, <1>2, <1>3, Working DEF Fits

LEMMA RaisesFits ==
    ASSUME Inv, handle = None \/ Fits, Raises(Handle), kernel' = kernel,
           Head(todo).method \in Tolerated
    PROVE  /\ Fits' /\ handle'.table = Copy
           /\ todo' = Tail(todo) /\ client' = client /\ status' = status
<1>1. /\ handle' = Handle
      /\ todo' = Tail(todo) /\ client' = client /\ status' = status
  BY DEF Raises
<1>2. Entries(kernel)' = Entries(kernel)
  BY DEF Entries, HasChain
<1> QED
  BY <1>1, <1>2, Working DEF Fits

LEMMA OtherRules ==
    ASSUME NEW t \in Table, NEW rules \in Seq(Rule) \cup {None}
    PROVE  /\ [t EXCEPT !.rules = rules] \in Table
           /\ [t EXCEPT !.rules = rules].rules = rules
           /\ [t EXCEPT !.rules = rules].jumps = t.jumps
           /\ [t EXCEPT !.rules = rules].others = t.others
  BY DEF Table

(* A step that leads on in an operation.                                   *)

LEMMA GoStarting ==
    ASSUME Leftover(kernel)', status' = "starting", NEW n \in 1..15,
           todo' = Rest(Starting, n), Built(n)'
    PROVE  Quiet'
  BY DEF Quiet, Starts

LEMMA GoAdding ==
    ASSUME Leftover(kernel)', status' = "up", NEW c \in Clients, NEW n \in 1..5,
           todo' = Rest(Adding(c), n), Added(c, n)'
    PROVE  Quiet'
  BY DEF Quiet, Adds

LEMMA GoRemoving ==
    ASSUME Leftover(kernel)', status' \in {"up", "stopping"},
           NEW c \in Clients, NEW n \in 1..4,
           todo' = Rest(Removing(c), n), Removed(c, n)'
    PROVE  Quiet'
  BY DEF Quiet, Removes

LEMMA GoCleaning ==
    ASSUME Leftover(kernel)', status' = "stopping", NoneOpen', NEW n \in 1..6,
           todo' = Rest(Cleaning, n), Cleared(n)'
    PROVE  Quiet'
  BY DEF Quiet, Cleans

LEMMA GoIdle ==
    ASSUME Leftover(kernel)', status' \in {"up", "stopping"}, Resting'
    PROVE  Quiet'
  BY DEF Quiet, Rests

(* The first calls of initialize are the calls of clean.                   *)
LEMMA GoClearing ==
    ASSUME Inv, NEW k \in 1..5, AtStarting(k) \/ AtCleaning(k),
           todo' = Tail(todo), client' = client, status' = status,
           Leftover(kernel)', Cleared(k + 1)'
    PROVE  Quiet'
<1>1. NoneOpen'
  BY DEF AtStarting, AtCleaning, NoneOpen
<1>2. CASE AtStarting(k)
  <2>1. Built(k + 1)'
    BY DEF Built
  <2>2. status' = "starting" /\ todo' = Rest(Starting, k + 1) /\ k + 1 \in 1..15
    BY <1>2 DEF AtStarting
  <2> QED
    BY <2>1, <2>2, GoStarting
<1>3. CASE AtCleaning(k)
  <2>1. status' = "stopping" /\ todo' = Rest(Cleaning, k + 1) /\ k + 1 \in 1..6
    BY <1>3 DEF AtCleaning
  <2> QED
    BY <1>1, <2>1, GoCleaning
<1> QED
  BY <1>2, <1>3

LEMMA Kernel ==
    ASSUME kernel' = kernel, Quiet, ~disturbed
    PROVE  Leftover(kernel)'
  BY DEF Quiet, Leftover, Bare, Full

-----------------------------------------------------------------------------
(* The calls, one by one.                                                  *)

LEMMA SameOpen == client' = client => Open' = Open
  BY DEF Open

LEMMA InsertEntryQuiet ==
    ASSUME Inv, Quiet, ~disturbed, InsertEntry PROVE Quiet'
<1> DEFINE r == Head(todo).rule
           t == [Copy EXCEPT !.rules = InsertAt(@, InsertPosition(@), r)]
<1>1. Calling("insertEntry") /\ todo # <<>> /\ kernel' = kernel
  BY DEF InsertEntry, Calling, Edits
<1>2. PICK c \in Clients, k \in 1..2 :
          /\ AtAdding(c, k) /\ Added(c, k)
          /\ r = IF k = 1 THEN Accept(c) ELSE Log(c)
  BY <1>1, Position, Methods
<1> DEFINE A == IF k = 1 THEN Open ELSE Open \cup {c}
<1>3. /\ c \notin Open /\ Open \in SUBSET Clients /\ A \in SUBSET Clients
      /\ handle = None \/ Fits
      /\ Full(Copy, 1, A, Open) /\ Full(kernel, 1, Open, Open)
      /\ k = 2 => Copy.rules[3] = Accept(c)
  <2>1. c \notin Open /\ Open \in SUBSET Clients /\ A \in SUBSET Clients
    BY <1>2 DEF Added, Open
  <2>2. handle = None \/ Fits
    BY <1>2 DEF Added
  <2>3. Full(kernel, 1, Open, Open)
    BY <1>2 DEF Added
  <2>4. CASE k = 1
    BY <1>2, <2>1, <2>2, <2>3, <2>4, Working DEF Added
  <2>5. CASE k = 2
    <3>1. /\ handle # None /\ Full(handle.table, 1, A, Open)
          /\ handle.table.rules[3] = Accept(c)
      BY <1>2, <2>5 DEF Added, Fits
    <3> QED
      BY <2>1, <2>2, <2>3, <3>1, Working
  <2> QED
    BY <2>4, <2>5
<1> DEFINE new == InsertAt(Copy.rules, 3, r)
           A2 == Open \cup {c}
           L2 == IF k = 1 THEN Open ELSE Open \cup {c}
<1>4. /\ Copy.rules \in Seq(Rule) /\ Copy.rules # None /\ Len(Copy.rules) >= 2
      /\ Holds(new, A2, L2) /\ (k = 1 => new[3] = Accept(c))
  <2>1. Holds(Copy.rules, A, Open)
    BY <1>3 DEF Full
  <2>2. /\ Copy.rules \in Seq(Rule) /\ Copy.rules # None /\ Len(Copy.rules) >= 2
        /\ c \notin A => /\ Holds(InsertAt(Copy.rules, 3, Accept(c)), A \cup {c}, Open)
                         /\ InsertAt(Copy.rules, 3, Accept(c))[3] = Accept(c)
        /\ c \notin Open /\ Copy.rules[3] = Accept(c) =>
              Holds(InsertAt(Copy.rules, 3, Log(c)), A, Open \cup {c})
    BY <1>3, <2>1, Inserted
  <2>3. CASE k = 1
    BY <1>2, <1>3, <2>2, <2>3
  <2>4. CASE k = 2
    BY <1>2, <1>3, <2>2, <2>4
  <2> QED
    BY <2>2, <2>3, <2>4
<1>5. t \in Table /\ Full(t, 1, A2, L2) /\ (k = 1 => t.rules[3] = Accept(c))
  <2>1. Copy \in Table
    BY <1>3, Working
  <2>2. new \in Seq(Rule)
    BY <1>4 DEF Holds
  <2>3. t \in Table /\ t.rules = new /\ t.jumps = Copy.jumps /\ t.others = Copy.others
    BY <2>1, <2>2 DEF Table, InsertPosition
  <2> QED
    BY <1>3, <1>4, <2>3 DEF Full
<1>6. Succeeds(t)
  BY <1>4 DEF InsertEntry, Edits, HasChain
<1> HIDE DEF t, new, r
<1>7. /\ Fits' /\ handle'.changed /\ handle'.table = t
      /\ todo' = Tail(todo) /\ client' = client /\ status' = status
  BY <1>1, <1>3, <1>5, <1>6, SucceedsFits
<1>8. Added(c, k + 1)'
  <2>1. Open' = Open
    BY <1>7, SameOpen
  <2>2. Full(kernel, 1, Open, Open)'
    BY <1>1, <1>3, <2>1 DEF Full
  <2>3. Full(handle.table, 1, A2, L2)'
    BY <1>5, <1>7, <2>1
  <2>4. CASE k = 1
    BY <1>3, <1>5, <1>7, <2>1, <2>2, <2>3, <2>4 DEF Added
  <2>5. CASE k = 2
    BY <1>3, <1>7, <2>1, <2>2, <2>3, <2>5 DEF Added
  <2> QED
    BY <2>4, <2>5
<1>9. todo' = Rest(Adding(c), k + 1) /\ status' = "up" /\ k + 1 \in 1..5
  BY <1>2, <1>7 DEF AtAdding
<1>10. Leftover(kernel)'
  BY <1>1, Kernel
<1> QED
  BY <1>8, <1>9, <1>10, GoAdding

LEMMA DeleteEntryQuiet ==
    ASSUME Inv, Quiet, ~disturbed, DeleteEntry PROVE Quiet'
<1> DEFINE r == Head(todo).rule
           t == [Copy EXCEPT !.rules = RemoveFirst(@, r)]
<1>1. Calling("deleteEntry") /\ todo # <<>> /\ kernel' = kernel
  BY DEF DeleteEntry, Calling, Edits
<1>2. PICK c \in Clients, k \in 1..2 :
          /\ AtRemoving(c, k) /\ Removed(c, k)
          /\ r = IF k = 1 THEN Log(c) ELSE Accept(c)
  BY <1>1, Position, Methods
<1> DEFINE Both == Open \cup {c}
           L == IF k = 1 THEN Both ELSE Open
<1>3. /\ c \notin Open /\ Both \in SUBSET Clients /\ L \in SUBSET Clients
      /\ handle = None \/ Fits
      /\ Full(Copy, 1, Both, L) /\ Full(kernel, 1, Both, Both)
  <2>1. c \notin Open /\ Both \in SUBSET Clients /\ L \in SUBSET Clients
    BY <1>2 DEF Removed, Open
  <2>2. handle = None \/ Fits
    BY <1>2 DEF Removed
  <2>3. Full(kernel, 1, Both, Both)
    BY <1>2 DEF Removed
  <2>4. CASE k = 1
    BY <1>2, <2>1, <2>2, <2>3, <2>4, Working DEF Removed
  <2>5. CASE k = 2
    <3>1. handle # None /\ Full(handle.table, 1, Both, L)
      BY <1>2, <2>5 DEF Removed, Fits
    <3> QED
      BY <2>1, <2>2, <2>3, <3>1, Working
  <2> QED
    BY <2>4, <2>5
<1> DEFINE new == RemoveFirst(Copy.rules, r)
           A2 == IF k = 1 THEN Both ELSE Open
<1>4. /\ Copy.rules \in Seq(Rule) /\ Copy.rules # None /\ Contains(Copy.rules, r)
      /\ Holds(new, A2, Open)
  <2>1. Holds(Copy.rules, Both, L)
    BY <1>3 DEF Full
  <2>2. /\ Copy.rules \in Seq(Rule) /\ Copy.rules # None
        /\ c \in Both \ L =>
                         /\ Contains(Copy.rules, Accept(c))
                         /\ Holds(RemoveFirst(Copy.rules, Accept(c)), Both \ {c}, L)
        /\ c \in L => /\ Contains(Copy.rules, Log(c))
                      /\ Holds(RemoveFirst(Copy.rules, Log(c)), Both, L \ {c})
    BY <1>3, <2>1, Deleted
  <2>3. Both \ {c} = Open /\ c \in Both
    BY <1>3
  <2>4. CASE k = 1
    BY <1>2, <2>2, <2>3, <2>4
  <2>5. CASE k = 2
    BY <1>2, <2>2, <2>3, <2>5
  <2> QED
    BY <2>2, <2>4, <2>5
<1>5. t \in Table /\ Full(t, 1, A2, Open)
  <2>1. Copy \in Table
    BY <1>3, Working
  <2>2. new \in Seq(Rule)
    BY <1>4 DEF Holds
  <2>3. t \in Table /\ t.rules = new /\ t.jumps = Copy.jumps /\ t.others = Copy.others
    BY <2>1, <2>2 DEF Table
  <2> QED
    BY <1>3, <1>4, <2>3 DEF Full
<1>6. Succeeds(t)
  BY <1>4 DEF DeleteEntry, Edits, HasChain
<1> HIDE DEF t, new, r
<1>7. /\ Fits' /\ handle'.changed /\ handle'.table = t
      /\ todo' = Tail(todo) /\ client' = client /\ status' = status
  BY <1>1, <1>3, <1>5, <1>6, SucceedsFits
<1>8. Removed(c, k + 1)'
  <2>1. Open' = Open
    BY <1>7, SameOpen
  <2>2. Full(kernel, 1, Open \cup {c}, Open \cup {c})'
    BY <1>1, <1>3, <2>1 DEF Full
  <2>3. Full(handle.table, 1, A2, Open)'
    BY <1>5, <1>7, <2>1
  <2>4. CASE k = 1
    BY <1>3, <1>7, <2>1, <2>2, <2>3, <2>4 DEF Removed
  <2>5. CASE k = 2
    BY <1>3, <1>7, <2>1, <2>2, <2>3, <2>5 DEF Removed
  <2> QED
    BY <2>4, <2>5
<1>9. todo' = Rest(Removing(c), k + 1) /\ status' \in {"up", "stopping"} /\ k + 1 \in 1..4
  BY <1>2, <1>7 DEF AtRemoving
<1>10. Leftover(kernel)'
  BY <1>1, Kernel
<1> QED
  BY <1>8, <1>9, <1>10, GoRemoving

(* The calls of clean, made by initialize as well.                         *)

LEMMA WhileClearing ==
    ASSUME Inv, Quiet, ~disturbed, NEW m, Calling(m),
           m \in {"deleteJump", "flushEntries", "deleteChain"}
    PROVE  \E k \in 1..3 :
              /\ AtStarting(k) \/ AtCleaning(k)
              /\ Cleared(k)
              /\ \/ k = 1 /\ m = "deleteJump"
                 \/ k = 2 /\ m = "flushEntries"
                 \/ k = 3 /\ m = "deleteChain"
<1>1. todo # <<>>
  BY DEF Calling
<1>2. ASSUME NEW k \in 1..15, AtStarting(k), Built(k)
      PROVE  /\ k \in 1..3 /\ Cleared(k)
             /\ \/ k = 1 /\ m = "deleteJump"
                \/ k = 2 /\ m = "flushEntries"
                \/ k = 3 /\ m = "deleteChain"
  <2>1. \/ k = 1 /\ m = "deleteJump"
        \/ k = 2 /\ m = "flushEntries"
        \/ k = 3 /\ m = "deleteChain"
    BY <1>2, Methods
  <2> QED
    BY <1>2, <2>1 DEF Built
<1>3. ASSUME NEW k \in 1..6, AtCleaning(k)
      PROVE  /\ k \in 1..3
             /\ \/ k = 1 /\ m = "deleteJump"
                \/ k = 2 /\ m = "flushEntries"
                \/ k = 3 /\ m = "deleteChain"
  BY <1>3, Methods
<1>4. ASSUME NEW c \in Clients, NEW k \in 1..5, AtAdding(c, k) PROVE FALSE
  BY <1>4, Methods
<1>5. ASSUME NEW c \in Clients, NEW k \in 1..4, AtRemoving(c, k) PROVE FALSE
  BY <1>5, Methods
<1> QED
  BY <1>1, <1>2, <1>3, <1>4, <1>5, Position

LEMMA DeleteJumpQuiet ==
    ASSUME Inv, Quiet, ~disturbed, DeleteJump PROVE Quiet'
<1> DEFINE t == [Copy EXCEPT !.jumps = @ - 1]
<1>1. Calling("deleteJump") /\ kernel' = kernel
  BY DEF DeleteJump, Edits
<1>2. AtStarting(1) \/ AtCleaning(1)
  BY <1>1, WhileClearing
<1>3. (handle = None \/ Fits) /\ Copy = kernel
  <2>1. Cleared(1)
    BY <1>1, WhileClearing
  <2>2. handle = None \/ (Fits /\ handle.table = kernel)
    BY <2>1 DEF Cleared
  <2> QED
    BY <2>2, Working DEF Fits
<1>4. /\ Copy \in Table /\ Copy.others = {} /\ Copy.jumps \in {0, 1}
      /\ Settled(Copy.rules) /\ (Copy.jumps = 1 => HasChain(Copy))
  <2>1. Copy \in Table
    BY <1>3, Working
  <2>2. Leftover(kernel)
    BY DEF Quiet
  <2>3. Settled(kernel.rules)
    BY DEF Inv, KernelOK
  <2>4. \/ Bare(kernel)
        \/ kernel.others = {} /\ kernel.jumps \in {0, 1} /\ kernel.rules # None
    BY <2>2, FirewallAssumption DEF Leftover, Full, Holds
  <2> QED
    BY <1>3, <2>1, <2>3, <2>4 DEF Bare, HasChain
<1>5. CASE HasChain(Copy) /\ Copy.jumps > 0
  <2>1. t \in Table /\ t.jumps = 0 /\ t.rules = Copy.rules /\ t.others = {}
    BY <1>4, <1>5 DEF Table
  <2>2. Succeeds(t)
    BY <1>5 DEF DeleteJump, Edits
  <2> HIDE DEF t
  <2>3. /\ Fits' /\ handle'.table = t
        /\ todo' = Tail(todo) /\ client' = client /\ status' = status
    BY <1>1, <1>3, <2>1, <2>2, SucceedsFits
  <2>4. Cleared(2)'
    BY <1>4, <2>1, <2>3 DEF Cleared
  <2> QED
    BY <1>1, <1>2, <2>3, <2>4, Kernel, GoClearing
<1>6. CASE ~(HasChain(Copy) /\ Copy.jumps > 0)
  <2>1. Raises(Handle) /\ Head(todo).method \in Tolerated
    BY <1>1, <1>6 DEF DeleteJump, Edits, Calling, Tolerated
  <2>2. /\ Fits' /\ handle'.table = Copy
        /\ todo' = Tail(todo) /\ client' = client /\ status' = status
    BY <1>1, <1>3, <2>1, RaisesFits
  <2>3. Copy.jumps = 0
    BY <1>4, <1>6
  <2>4. Cleared(2)'
    BY <1>4, <2>2, <2>3 DEF Cleared
  <2> QED
    BY <1>1, <1>2, <2>2, <2>4, Kernel, GoClearing
<1> QED
  BY <1>5, <1>6

LEMMA FlushEntriesQuiet ==
    ASSUME Inv, Quiet, ~disturbed, FlushEntries PROVE Quiet'
<1> DEFINE t == [Copy EXCEPT !.rules = <<>>]
<1>1. Calling("flushEntries") /\ kernel' = kernel
  BY DEF FlushEntries, Edits
<1>2. AtStarting(2) \/ AtCleaning(2)
  BY <1>1, WhileClearing
<1>3. Fits /\ Copy \in Table /\ Copy.jumps = 0 /\ Copy.others = {}
  <2>1. Cleared(2)
    BY <1>1, WhileClearing
  <2> QED
    BY <2>1, Working DEF Cleared, Fits
<1>4. CASE HasChain(Copy)
  <2>1. t \in Table /\ t.jumps = 0 /\ t.rules = <<>> /\ t.others = {}
    <3>1. <<>> \in Seq(Rule)
      OBVIOUS
    <3> QED
      BY <1>3, <3>1, OtherRules
  <2>2. Succeeds(t)
    BY <1>4 DEF FlushEntries, Edits
  <2> HIDE DEF t
  <2>3. /\ Fits' /\ handle'.table = t
        /\ todo' = Tail(todo) /\ client' = client /\ status' = status
    BY <1>1, <1>3, <2>1, <2>2, SucceedsFits
  <2>4. Cleared(3)'
    BY <2>1, <2>3 DEF Cleared
  <2> QED
    BY <1>1, <1>2, <2>3, <2>4, Kernel, GoClearing
<1>5. CASE ~HasChain(Copy)
  <2>1. Raises(Handle) /\ Head(todo).method \in Tolerated
    BY <1>1, <1>5 DEF FlushEntries, Edits, Calling, Tolerated
  <2>2. /\ Fits' /\ handle'.table = Copy
        /\ todo' = Tail(todo) /\ client' = client /\ status' = status
    BY <1>1, <1>3, <2>1, RaisesFits
  <2>3. Cleared(3)'
    BY <1>3, <1>5, <2>2 DEF Cleared, HasChain
  <2> QED
    BY <1>1, <1>2, <2>2, <2>3, Kernel, GoClearing
<1> QED
  BY <1>4, <1>5

LEMMA DeleteChainQuiet ==
    ASSUME Inv, Quiet, ~disturbed, DeleteChain PROVE Quiet'
<1> DEFINE t == [Copy EXCEPT !.rules = None]
<1>1. Calling("deleteChain") /\ kernel' = kernel
  BY DEF DeleteChain, Edits
<1>2. AtStarting(3) \/ AtCleaning(3)
  BY <1>1, WhileClearing
<1>3. /\ Fits /\ Copy \in Table /\ Copy.jumps = 0 /\ Copy.others = {}
      /\ Copy.rules \in {None, <<>>}
  <2>1. Cleared(3)
    BY <1>1, WhileClearing
  <2> QED
    BY <2>1, Working DEF Cleared, Fits
<1>4. CASE Copy.rules = <<>>
  <2>1. t \in Table /\ t.jumps = 0 /\ t.rules = None /\ t.others = {}
    BY <1>3 DEF Table
  <2>2. Succeeds(t)
    BY <1>3, <1>4 DEF DeleteChain, Edits
  <2> HIDE DEF t
  <2>3. /\ Fits' /\ handle'.table = t
        /\ todo' = Tail(todo) /\ client' = client /\ status' = status
    BY <1>1, <1>3, <2>1, <2>2, SucceedsFits
  <2>4. Cleared(4)'
    BY <2>1, <2>3 DEF Cleared
  <2> QED
    BY <1>1, <1>2, <2>3, <2>4, Kernel, GoClearing
<1>5. CASE Copy.rules # <<>>
  <2>1. Raises(Handle) /\ Head(todo).method \in Tolerated
    BY <1>1, <1>5 DEF DeleteChain, Edits, Calling, Tolerated
  <2>2. /\ Fits' /\ handle'.table = Copy
        /\ todo' = Tail(todo) /\ client' = client /\ status' = status
    BY <1>1, <1>3, <2>1, RaisesFits
  <2>3. Cleared(4)'
    BY <1>3, <1>5, <2>2 DEF Cleared
  <2> QED
    BY <1>1, <1>2, <2>2, <2>3, Kernel, GoClearing
<1> QED
  BY <1>4, <1>5

(* The calls that build the chain.                                         *)

LEMMA CreateChainQuiet ==
    ASSUME Inv, Quiet, ~disturbed, CreateChain PROVE Quiet'
<1> DEFINE t == [Copy EXCEPT !.rules = <<>>]
<1>1. Calling("createChain") /\ todo # <<>> /\ kernel' = kernel
  BY DEF CreateChain, Calling, Edits
<1>2. AtStarting(6) /\ Built(6)
  BY <1>1, Position, Methods
<1>3. handle = None /\ Bare(kernel)
  BY <1>2 DEF Built, Cleared
<1>4. Copy \in Table /\ Copy = kernel
  BY <1>3, Working
<1>5. t \in Table /\ t.jumps = 0 /\ t.rules = <<>> /\ t.others = {}
  <2>1. <<>> \in Seq(Rule)
    OBVIOUS
  <2>2. t \in Table /\ t.rules = <<>> /\ t.jumps = Copy.jumps /\ t.others = Copy.others
    BY <1>4, <2>1, OtherRules
  <2>3. Copy.jumps = 0 /\ Copy.others = {}
    BY <1>3, <1>4 DEF Bare
  <2> HIDE DEF t
  <2> QED
    BY <2>2, <2>3
<1>6. Succeeds(t)
  BY <1>3, <1>4 DEF CreateChain, Edits, HasChain, Bare
<1> HIDE DEF t
<1>7. /\ Fits' /\ handle'.changed /\ handle'.table = t
      /\ todo' = Tail(todo) /\ client' = client /\ status' = status
  BY <1>1, <1>3, <1>5, <1>6, SucceedsFits
<1>8. Bare(kernel)'
  BY <1>1, <1>3 DEF Bare
<1>9. Built(7)'
  BY <1>5, <1>7, <1>8 DEF Built
<1>10. todo' = Rest(Starting, 7) /\ status' = "starting"
  BY <1>2, <1>7 DEF AtStarting
<1> QED
  BY <1>1, <1>9, <1>10, Kernel, GoStarting

LEMMA Growing ==
    /\ <<>> \in Seq(Rule) /\ <<Authenticator>> \in Seq(Rule)
    /\ <<Authenticator, LocalTraffic>> \in Seq(Rule)
    /\ <<Authenticator, LocalTraffic, Tproxy>> \in Seq(Rule)
    /\ Append(<<>>, Authenticator) = <<Authenticator>>
    /\ Append(<<Authenticator>>, LocalTraffic) = <<Authenticator, LocalTraffic>>
    /\ Append(<<Authenticator, LocalTraffic>>, Tproxy)
          = <<Authenticator, LocalTraffic, Tproxy>>
<1>1. Authenticator \in Rule /\ LocalTraffic \in Rule /\ Tproxy \in Rule
  BY DEF Rule
<1>2. /\ <<>> \in Seq(Rule) /\ <<Authenticator>> \in Seq(Rule)
      /\ <<Authenticator, LocalTraffic>> \in Seq(Rule)
      /\ <<Authenticator, LocalTraffic, Tproxy>> \in Seq(Rule)
  BY <1>1
<1>3. Append(<<>>, Authenticator) = <<Authenticator>>
  OBVIOUS
<1> QED
  BY <1>1, <1>2, <1>3, Appending

LEMMA AppendEntryQuiet ==
    ASSUME Inv, Quiet, ~disturbed, AppendEntry PROVE Quiet'
<1> DEFINE r == Head(todo).rule
           t == [Copy EXCEPT !.rules = Append(@, r)]
<1>1. Calling("appendEntry") /\ todo # <<>> /\ kernel' = kernel
  BY DEF AppendEntry, Calling, Edits
<1>2. PICK k \in {7, 8, 9} : AtStarting(k) /\ Built(k)
  BY <1>1, Position, Methods
<1>3. /\ Fits /\ Bare(kernel) /\ Copy \in Table /\ Copy = handle.table
      /\ Copy.jumps = 0 /\ Copy.others = {}
  <2>1. Fits /\ Bare(kernel) /\ handle.table.jumps = 0 /\ handle.table.others = {}
    BY <1>2 DEF Built
  <2> QED
    BY <2>1, Working DEF Fits
<1> DEFINE new == Append(Copy.rules, r)
<1>4. /\ Copy.rules \in Seq(Rule) /\ new \in Seq(Rule)
      /\ k = 7 => new = <<Authenticator>>
      /\ k = 8 => new = <<Authenticator, LocalTraffic>>
      /\ k = 9 => new = <<Authenticator, LocalTraffic, Tproxy>>
  <2>1. /\ k = 7 => Copy.rules = <<>>
        /\ k = 8 => Copy.rules = <<Authenticator>>
        /\ k = 9 => Copy.rules = <<Authenticator, LocalTraffic>>
    BY <1>2, <1>3 DEF Built
  <2>2. /\ k = 7 => r = Authenticator
        /\ k = 8 => r = LocalTraffic
        /\ k = 9 => r = Tproxy
    BY <1>2, StartingCalls DEF AtStarting, CallWith
  <2> HIDE DEF r
  <2>3. CASE k = 7
    BY <2>1, <2>2, <2>3, Growing
  <2>4. CASE k = 8
    BY <2>1, <2>2, <2>4, Growing
  <2>5. CASE k = 9
    BY <2>1, <2>2, <2>5, Growing
  <2> QED
    BY <2>3, <2>4, <2>5
<1>5. t \in Table /\ t.rules = new /\ t.jumps = 0 /\ t.others = {}
  BY <1>3, <1>4 DEF Table
<1>6. Succeeds(t)
  BY <1>4, FirewallAssumption DEF AppendEntry, Edits, HasChain
<1> HIDE DEF t, new, r
<1>7. /\ Fits' /\ handle'.changed /\ handle'.table = t
      /\ todo' = Tail(todo) /\ client' = client /\ status' = status
  BY <1>1, <1>3, <1>5, <1>6, SucceedsFits
<1>8. Bare(kernel)'
  BY <1>1, <1>3 DEF Bare
<1>9. Built(k + 1)'
  <2>1. k = 9 => Holds(t.rules, {}, {})
    BY <1>4, <1>5, Empty
  <2>2. k = 9 => Holds(handle.table.rules, {}, {})'
    BY <1>7, <2>1 DEF Holds
  <2> QED
    BY <1>4, <1>5, <1>7, <1>8, <2>2 DEF Built
<1>10. todo' = Rest(Starting, k + 1) /\ status' = "starting" /\ k + 1 \in 1..15
  BY <1>2, <1>7 DEF AtStarting
<1> QED
  BY <1>1, <1>9, <1>10, Kernel, GoStarting

LEMMA AppendJumpQuiet ==
    ASSUME Inv, Quiet, ~disturbed, AppendJump PROVE Quiet'
<1> DEFINE t == [Copy EXCEPT !.jumps = @ + 1]
<1>1. Calling("appendJump") /\ todo # <<>> /\ kernel' = kernel
  BY DEF AppendJump, Calling, Edits
<1>2. AtStarting(12) /\ Built(12)
  BY <1>1, Position, Methods
<1>3. handle = None /\ Full(kernel, 0, {}, {})
  BY <1>2 DEF Built
<1>4. Copy \in Table /\ Copy = kernel
  BY <1>3, Working
<1>5. t \in Table /\ Full(t, 1, {}, {})
  <2>1. t \in Table /\ t.jumps = 1 /\ t.rules = kernel.rules /\ t.others = {}
    BY <1>3, <1>4 DEF Table, Full
  <2> QED
    BY <1>3, <2>1 DEF Full
<1>6. Succeeds(t)
  BY <1>3, <1>4, FirewallAssumption DEF AppendJump, Edits, HasChain, Full, Holds
<1> HIDE DEF t
<1>7. /\ Fits' /\ handle'.changed /\ handle'.table = t
      /\ todo' = Tail(todo) /\ client' = client /\ status' = status
  BY <1>1, <1>3, <1>5, <1>6, SucceedsFits
<1>8. Full(kernel, 0, {}, {})' /\ Full(handle.table, 1, {}, {})'
  BY <1>1, <1>3, <1>5, <1>7 DEF Full, Holds
<1>9. Built(13)'
  BY <1>7, <1>8 DEF Built
<1>10. todo' = Rest(Starting, 13) /\ status' = "starting"
  BY <1>2, <1>7 DEF AtStarting
<1> QED
  BY <1>1, <1>9, <1>10, Kernel, GoStarting

(* The two halves of a commit.                                             *)

LEMMA BareLeftover == ASSUME Bare(kernel)' PROVE Leftover(kernel)'
  BY DEF Leftover

LEMMA FullLeftover ==
    ASSUME NEW jumps \in {0, 1}, NEW A \in SUBSET Clients, Full(kernel', jumps, A, A)
    PROVE  Leftover(kernel)'
  BY DEF Leftover

\* The kernel takes a handle that fits it, and skips one without changes.
LEMMA ReplaceWorks ==
    ASSUME Quiet, ~disturbed, Fits, Replace
    PROVE  \/ /\ ~handle.changed /\ handle.table = kernel
              /\ handle' = None /\ todo' = Tail(Tail(todo))
              /\ UNCHANGED <<kernel, client, status>>
           \/ /\ handle.changed /\ kernel' = handle.table /\ todo' = Tail(todo)
              /\ UNCHANGED <<handle, client, status>>
  BY DEF Fits, Replace

LEMMA ReplaceQuiet ==
    ASSUME Inv, Quiet, ~disturbed, Replace PROVE Quiet'
<1>1. Calling("replace") /\ todo # <<>>
  BY DEF Replace, Calling
<1>2. \/ \E k \in {4, 10, 13} : AtStarting(k) /\ Built(k)
      \/ \E c \in Clients : AtAdding(c, 3) /\ Added(c, 3)
      \/ \E c \in Clients : AtRemoving(c, 3) /\ Removed(c, 3)
      \/ AtCleaning(4) /\ Cleared(4)
  BY <1>1, Position, Methods
<1>3. ASSUME AtStarting(4) \/ AtCleaning(4), Cleared(4) PROVE Quiet'
  <2>1. /\ Fits /\ handle.table.jumps = 0 /\ handle.table.others = {}
        /\ handle.table.rules = None
    BY <1>3 DEF Cleared
  <2>2. CASE /\ ~handle.changed /\ handle.table = kernel
             /\ handle' = None /\ todo' = Tail(Tail(todo))
             /\ UNCHANGED <<kernel, client, status>>
    <3>1. Bare(kernel)' /\ Cleared(6)' /\ Built(6)'
      BY <2>1, <2>2 DEF Bare, Cleared, Built
    <3>2. CASE AtStarting(4)
      <4>1. todo' = Rest(Starting, 6) /\ status' = "starting"
        BY <2>2, <3>2 DEF AtStarting
      <4> QED
        BY <3>1, <4>1, BareLeftover, GoStarting
    <3>3. CASE AtCleaning(4)
      <4>1. todo' = Rest(Cleaning, 6) /\ status' = "stopping" /\ NoneOpen'
        BY <2>2, <3>3 DEF AtCleaning, NoneOpen
      <4> QED
        BY <3>1, <4>1, BareLeftover, GoCleaning
    <3> QED
      BY <1>3, <3>2, <3>3
  <2>3. CASE /\ kernel' = handle.table /\ todo' = Tail(todo)
             /\ UNCHANGED <<handle, client, status>>
    <3>1. Bare(kernel)' /\ Cleared(5)'
      BY <2>1, <2>3 DEF Bare, Cleared, Sent, Fits
    <3> QED
      BY <1>3, <2>3, <3>1, BareLeftover, GoClearing
  <2> QED
    BY <2>1, <2>2, <2>3, ReplaceWorks
<1>4. ASSUME NEW k \in {10, 13}, AtStarting(k), Built(k) PROVE Quiet'
  <2> DEFINE j == IF k = 10 THEN 0 ELSE 1
  <2>1. Fits /\ handle.changed /\ Full(handle.table, j, {}, {})
    BY <1>4 DEF Built, Full
  <2>2. kernel' = handle.table /\ todo' = Tail(todo) /\ UNCHANGED <<handle, client, status>>
    BY <2>1, ReplaceWorks
  <2>3. Full(kernel', j, {}, {}) /\ Sent'
    BY <2>1, <2>2 DEF Sent, Fits
  <2>4. Built(k + 1)'
    BY <2>3 DEF Built
  <2>5. Leftover(kernel)'
    BY <2>3, FullLeftover
  <2>6. todo' = Rest(Starting, k + 1) /\ status' = "starting" /\ k + 1 \in 1..15
    BY <1>4, <2>2 DEF AtStarting
  <2> QED
    BY <2>4, <2>5, <2>6, GoStarting
<1>5. ASSUME NEW c \in Clients, AtAdding(c, 3), Added(c, 3) PROVE Quiet'
  <2>1. /\ Fits /\ handle.changed /\ c \notin Open
        /\ Full(handle.table, 1, Open \cup {c}, Open \cup {c})
    BY <1>5 DEF Added
  <2>2. kernel' = handle.table /\ todo' = Tail(todo) /\ UNCHANGED <<handle, client, status>>
    BY <2>1, ReplaceWorks
  <2>3. Open' = Open /\ Open \cup {c} \in SUBSET Clients
    BY <2>2 DEF Open
  <2>4. Full(kernel', 1, Open \cup {c}, Open \cup {c}) /\ Sent'
    BY <2>1, <2>2 DEF Sent, Fits
  <2>5. Added(c, 4)'
    BY <2>1, <2>3, <2>4 DEF Added
  <2>6. Leftover(kernel)'
    BY <2>3, <2>4, FullLeftover
  <2>7. todo' = Rest(Adding(c), 4) /\ status' = "up"
    BY <1>5, <2>2 DEF AtAdding
  <2> QED
    BY <2>5, <2>6, <2>7, GoAdding
<1>6. ASSUME NEW c \in Clients, AtRemoving(c, 3), Removed(c, 3) PROVE Quiet'
  <2>1. Fits /\ handle.changed /\ c \notin Open /\ Full(handle.table, 1, Open, Open)
    BY <1>6 DEF Removed
  <2>2. kernel' = handle.table /\ todo' = Tail(todo) /\ UNCHANGED <<handle, client, status>>
    BY <2>1, ReplaceWorks
  <2>3. Open' = Open /\ Open \in SUBSET Clients
    BY <2>2 DEF Open
  <2>4. Full(kernel', 1, Open, Open) /\ Sent'
    BY <2>1, <2>2 DEF Sent, Fits
  <2>5. Removed(c, 4)'
    BY <2>1, <2>3, <2>4 DEF Removed
  <2>6. Leftover(kernel)'
    BY <2>3, <2>4, FullLeftover
  <2>7. todo' = Rest(Removing(c), 4) /\ status' \in {"up", "stopping"}
    BY <1>6, <2>2 DEF AtRemoving
  <2> QED
    BY <2>5, <2>6, <2>7, GoRemoving
<1>7. ASSUME AtStarting(4), Built(4) PROVE Cleared(4)
  BY <1>7 DEF Built
<1> QED
  BY <1>2, <1>3, <1>4, <1>5, <1>6, <1>7

\* The counters go to the table that was sent.
LEMMA AddCountersWorks ==
    ASSUME Sent, AddCounters
    PROVE  /\ handle' = None /\ todo' = Tail(todo)
           /\ UNCHANGED <<kernel, client, status>>
  BY DEF Sent, AddCounters

LEMMA AddCountersQuiet ==
    ASSUME Inv, Quiet, ~disturbed, AddCounters PROVE Quiet'
<1>1. Calling("addCounters") /\ todo # <<>> /\ kernel' = kernel
  BY DEF AddCounters, Calling
<1>2. \/ \E k \in {5, 11, 14} : AtStarting(k) /\ Built(k)
      \/ \E c \in Clients : AtAdding(c, 4) /\ Added(c, 4)
      \/ \E c \in Clients : AtRemoving(c, 4) /\ Removed(c, 4)
      \/ AtCleaning(5) /\ Cleared(5)
  BY <1>1, Position, Methods
<1>3. Leftover(kernel)'
  BY <1>1, Kernel
<1>4. Sent
  <2>1. \A k \in {5, 11, 14} : Built(k) => Sent
    BY DEF Built, Cleared
  <2>2. \A c \in Clients : (Added(c, 4) => Sent) /\ (Removed(c, 4) => Sent)
    BY DEF Added, Removed
  <2>3. Cleared(5) => Sent
    BY DEF Cleared
  <2> QED
    BY <1>2, <2>1, <2>2, <2>3
<1>5. /\ handle' = None /\ todo' = Tail(todo)
      /\ UNCHANGED <<kernel, client, status>>
  BY <1>4, AddCountersWorks
<1>6. Open' = Open
  BY <1>5, SameOpen
<1>7. ASSUME AtStarting(5) \/ AtCleaning(5), Cleared(5) PROVE Quiet'
  <2>1. Cleared(6)'
    BY <1>5, <1>7 DEF Cleared, Bare
  <2> QED
    BY <1>3, <1>5, <1>7, <2>1, GoClearing
<1>8. ASSUME NEW k \in {11, 14}, AtStarting(k), Built(k) PROVE Quiet'
  <2>1. Built(k + 1)'
    BY <1>5, <1>8 DEF Built, Full, Holds
  <2>2. todo' = Rest(Starting, k + 1) /\ status' = "starting" /\ k + 1 \in 1..15
    BY <1>5, <1>8 DEF AtStarting
  <2> QED
    BY <1>3, <2>1, <2>2, GoStarting
<1>9. ASSUME NEW c \in Clients, AtAdding(c, 4), Added(c, 4) PROVE Quiet'
  <2>1. c \notin Open /\ Full(kernel, 1, Open \cup {c}, Open \cup {c})
    BY <1>9 DEF Added
  <2>2. Added(c, 5)'
    BY <1>5, <1>6, <2>1 DEF Added, Full, Holds
  <2>3. todo' = Rest(Adding(c), 5) /\ status' = "up"
    BY <1>5, <1>9 DEF AtAdding
  <2> QED
    BY <1>3, <2>2, <2>3, GoAdding
<1>10. ASSUME NEW c \in Clients, AtRemoving(c, 4), Removed(c, 4) PROVE Quiet'
  <2>1. Full(kernel, 1, Open, Open)
    BY <1>10 DEF Removed
  <2>2. Resting' /\ status' \in {"up", "stopping"}
    BY <1>5, <1>6, <1>10, <2>1 DEF Resting, Full, Holds, AtRemoving
  <2> QED
    BY <1>3, <2>2, GoIdle
<1>11. ASSUME AtStarting(5), Built(5) PROVE Cleared(5)
  BY <1>11 DEF Built
<1> QED
  BY <1>2, <1>7, <1>8, <1>9, <1>10, <1>11

-----------------------------------------------------------------------------
(* The operations around the calls.                                        *)

LEMMA StartQuiet ==
    ASSUME Inv, Quiet, ~disturbed, Start PROVE Quiet'
<1>1. /\ status' = "starting" /\ handle' = Read(kernel) /\ handle' # None
      /\ UNCHANGED <<kernel, client>>
  BY HandleTypes DEF Start, Inv
<1>2. todo' = Rest(Starting, 1)
  <2>1. todo' = Starting
    BY DEF Start, Starting
  <2> QED
    BY <2>1, StartingCalls, FromTheFirst
<1>3. Fits' /\ handle'.table = kernel'
  <2>1. Read(kernel).table = kernel /\ Read(kernel).num = Entries(kernel)
    BY DEF Read
  <2>2. Entries(kernel)' = Entries(kernel)
    BY <1>1 DEF Entries, HasChain
  <2> QED
    BY <1>1, <2>1, <2>2 DEF Fits
<1>4. Built(1)'
  BY <1>3 DEF Built, Cleared
<1> QED
  BY <1>1, <1>2, <1>4, Kernel, GoStarting

LEMMA AddClientQuiet ==
    ASSUME Inv, Quiet, ~disturbed, NEW c \in Clients, AddClient(c) PROVE Quiet'
<1>1. Resting /\ status' = "up" /\ UNCHANGED <<kernel, handle>>
  BY AtRest DEF AddClient, Idle
<1>2. c \notin Open /\ Open' = Open
  BY DEF AddClient, Open, Inv, Types
<1>3. todo' = Rest(Adding(c), 1)
  <2>1. todo' = Adding(c)
    BY DEF AddClient, Adding
  <2> QED
    BY <2>1, AddingCalls, FromTheFirst
<1>4. Added(c, 1)'
  BY <1>1, <1>2 DEF Resting, Added, Full, Holds
<1> QED
  BY <1>1, <1>3, <1>4, Kernel, GoAdding

LEMMA RemovesQuiet ==
    ASSUME Inv, Quiet, ~disturbed, NEW c \in Clients,
           status \in {"up", "stopping"}, todo = <<>>, client[c] = "open",
           client' = [client EXCEPT ![c] = "closed"],
           todo' = RemoveClientCalls(c), UNCHANGED <<kernel, handle, status>>
    PROVE  Quiet'
<1>1. Resting
  BY AtRest
<1>2. c \notin Open' /\ Open' \cup {c} = Open
  BY DEF Open, Inv, Types
<1>3. todo' = Rest(Removing(c), 1)
  <2>1. todo' = Removing(c)
    BY DEF Removing
  <2> QED
    BY <2>1, RemovingCalls, FromTheFirst
<1>4. Removed(c, 1)'
  BY <1>1, <1>2 DEF Resting, Removed, Full, Holds
<1> QED
  BY <1>3, <1>4, Kernel, GoRemoving

LEMMA RemoveClientQuiet ==
    ASSUME Inv, Quiet, ~disturbed, NEW c \in Clients,
           RemoveClient(c) \/ StopRemove(c)
    PROVE  Quiet'
  BY RemovesQuiet DEF RemoveClient, Idle, StopRemove, Stopping

LEMMA ForgetClientQuiet ==
    ASSUME Inv, Quiet, ~disturbed, NEW c \in Clients, ForgetClient(c) PROVE Quiet'
<1>1. Resting
  BY AtRest DEF ForgetClient, Idle
<1>2. Open' = Open
  BY DEF ForgetClient, Open, Inv, Types
<1>3. Resting' /\ status' = "up" /\ kernel' = kernel
  BY <1>1, <1>2 DEF ForgetClient, Idle, Resting, Full, Holds
<1> QED
  BY <1>3, Kernel, GoIdle

LEMMA StopQuiet ==
    ASSUME Inv, Quiet, ~disturbed, Stop PROVE Quiet'
<1>1. Resting
  BY AtRest DEF Stop, Idle
<1>2. Open' = Open
  BY DEF Stop, Open
<1>3. Resting' /\ status' = "stopping" /\ kernel' = kernel
  BY <1>1, <1>2 DEF Stop, Idle, Resting, Full, Holds
<1> QED
  BY <1>3, Kernel, GoIdle

LEMMA StopCleanQuiet ==
    ASSUME Inv, Quiet, ~disturbed, StopClean PROVE Quiet'
<1>1. Resting
  BY AtRest DEF StopClean, Stopping
<1>2. NoneOpen' /\ status' = "stopping" /\ UNCHANGED <<kernel, handle>>
  BY DEF StopClean, Stopping, NoneOpen
<1>3. todo' = Rest(Cleaning, 1)
  <2>1. todo' = Cleaning
    BY DEF StopClean, Cleaning
  <2> QED
    BY <2>1, CleaningCalls, FromTheFirst
<1>4. Cleared(1)'
  BY <1>1, <1>2 DEF Resting, Cleared
<1> QED
  BY <1>2, <1>3, <1>4, Kernel, GoCleaning

LEMMA QueuedQuiet ==
    ASSUME Inv, Quiet, ~disturbed, Queued PROVE Quiet'
<1>1. Calling("queued") /\ todo # <<>> /\ kernel' = kernel
  BY DEF Queued, Calling
<1>2. PICK c \in Clients : AtAdding(c, 5) /\ Added(c, 5) /\ Head(todo).client = c
  BY <1>1, Position, Methods
<1>3. /\ client' = [client EXCEPT ![c] = "open"] /\ todo' = <<>> /\ status' = "up"
      /\ UNCHANGED <<kernel, handle>>
  BY <1>2 DEF Queued, AtAdding
<1>4. Open' = Open \cup {c}
  BY <1>3 DEF Open, Inv, Types
<1>5. handle = None /\ Full(kernel, 1, Open \cup {c}, Open \cup {c})
  BY <1>2 DEF Added
<1>6. Resting'
  BY <1>3, <1>4, <1>5 DEF Resting, Full, Holds
<1> QED
  BY <1>1, <1>3, <1>6, Kernel, GoIdle

LEMMA FinishedQuiet ==
    ASSUME Inv, Quiet, ~disturbed, Finished PROVE Quiet'
<1>1. Calling("finished") /\ todo # <<>> /\ kernel' = kernel
  BY DEF Finished, Calling
<1>2. \/ AtStarting(15) /\ Built(15)
      \/ AtCleaning(6) /\ Cleared(6)
  BY <1>1, Position, Methods
<1>3. CASE AtStarting(15) /\ Built(15)
  <2>1. status' = "up" /\ todo' = <<>> /\ UNCHANGED <<handle, client>>
    BY <1>3 DEF Finished, AtStarting
  <2>2. Open' = {}
    BY <1>3, <2>1 DEF AtStarting, NoneOpen, Open
  <2>3. handle = None /\ Full(kernel, 1, {}, {})
    BY <1>3 DEF Built
  <2>4. Resting'
    BY <1>1, <2>1, <2>2, <2>3 DEF Resting, Full, Holds
  <2> QED
    BY <1>1, <2>1, <2>4, Kernel, GoIdle
<1>4. CASE AtCleaning(6) /\ Cleared(6)
  <2>1. status' = "stopped"
    BY <1>4 DEF Finished, AtCleaning, Gone
  <2>2. Bare(kernel)'
    BY <1>1, <1>4 DEF Cleared, Bare
  <2> QED
    BY <1>1, <2>1, <2>2, Kernel DEF Quiet, Ended
<1> QED
  BY <1>2, <1>3, <1>4

LEMMA CrashQuiet ==
    ASSUME Quiet, ~disturbed, Crash PROVE Quiet'
<1>1. status' = "down" /\ kernel' = kernel
  BY DEF Crash, Gone
<1> QED
  BY <1>1, Kernel DEF Quiet, Ended

-----------------------------------------------------------------------------
(* The invariant holds.                                                    *)

LEMMA QuietInit == Init => Quiet
  BY DEF Init, Quiet, Leftover, Bare, Ended

LEMMA QuietNext == Inv /\ Quiet /\ [Next]_vars => Quiet'
<1> SUFFICES ASSUME Inv, Quiet, [Next]_vars PROVE Quiet'
  OBVIOUS
<1>1. CASE disturbed
  <2>1. disturbed'
    BY <1>1 DEF Next, vars, Start, AddClient, RemoveClient, ForgetClient, Stop,
           StopClean, StopRemove, InsertEntry, AppendEntry, DeleteEntry, AppendJump,
           DeleteJump, CreateChain, FlushEntries, DeleteChain, Edits, Replace,
           AddCounters, Queued, Finished, CallFails, Crash, OtherProcess
  <2> QED
    BY <2>1 DEF Quiet
<1>2. CASE ~disturbed
  <2>1. CASE Start
    BY <1>2, <2>1, StartQuiet
  <2>2. ASSUME NEW c \in Clients, AddClient(c) \/ RemoveClient(c) \/ ForgetClient(c)
        PROVE  Quiet'
    BY <1>2, <2>2, AddClientQuiet, RemoveClientQuiet, ForgetClientQuiet
  <2>3. ASSUME Stop \/ StopClean \/ \E c \in Clients : StopRemove(c) PROVE Quiet'
    BY <1>2, <2>3, StopQuiet, StopCleanQuiet, RemoveClientQuiet
  <2>4. CASE InsertEntry \/ AppendEntry \/ DeleteEntry
    BY <1>2, <2>4, InsertEntryQuiet, AppendEntryQuiet, DeleteEntryQuiet
  <2>5. CASE AppendJump \/ DeleteJump
    BY <1>2, <2>5, AppendJumpQuiet, DeleteJumpQuiet
  <2>6. CASE CreateChain \/ FlushEntries \/ DeleteChain
    BY <1>2, <2>6, CreateChainQuiet, FlushEntriesQuiet, DeleteChainQuiet
  <2>7. CASE Replace \/ AddCounters
    BY <1>2, <2>7, ReplaceQuiet, AddCountersQuiet
  <2>8. CASE Queued \/ Finished
    BY <1>2, <2>8, QueuedQuiet, FinishedQuiet
  <2>9. CASE CallFails \/ OtherProcess
    BY <2>9 DEF CallFails, OtherProcess, Quiet
  <2>10. CASE Crash
    BY <1>2, <2>10, CrashQuiet
  <2>11. CASE UNCHANGED vars
    <3>1. Leftover(kernel)' /\ Open' = Open /\ Ended' = Ended /\ Resting' = Resting
      BY <1>2, <2>11 DEF vars, Quiet, Leftover, Bare, Full, Holds, Open, Ended, Resting
    <3>2. Fits' = Fits /\ Sent' = Sent
      BY <2>11 DEF vars, Fits, Sent, Entries, HasChain
    <3>3. \A k : (Built(k) => Built(k)') /\ (Cleared(k) => Cleared(k)')
      <4>1. \A k : Cleared(k)' = Cleared(k)
        BY <2>11, <3>2 DEF vars, Cleared, Bare
      <4>2. \A k, A, L : /\ Full(kernel, k, A, L)' = Full(kernel, k, A, L)
                         /\ Full(handle.table, k, A, L)' = Full(handle.table, k, A, L)
                         /\ Holds(handle.table.rules, A, L)' = Holds(handle.table.rules, A, L)
        BY <2>11 DEF vars, Full, Holds
      <4> QED
        BY <2>11, <3>2, <4>1, <4>2 DEF vars, Built, Bare
    <3>4. \A c \in Clients : \A k : /\ Added(c, k) => Added(c, k)'
                                    /\ Removed(c, k) => Removed(c, k)'
      BY <2>11, <3>1, <3>2 DEF vars, Added, Removed, Full, Holds
    <3>5. NoneOpen' = NoneOpen
      BY <2>11 DEF vars, NoneOpen
    <3> QED
      BY <2>11, <3>1, <3>3, <3>4, <3>5
         DEF vars, Quiet, Starts, Adds, Removes, Cleans, Rests
  <2> QED
    BY <2>1, <2>2, <2>3, <2>4, <2>5, <2>6, <2>7, <2>8, <2>9, <2>10, <2>11 DEF Next
<1> QED
  BY <1>1, <1>2

LEMMA QuietHolds == Spec => []Quiet
<1>1. Init => Quiet
  BY QuietInit
<1>2. Inv /\ Quiet /\ [Next]_vars => Quiet'
  BY QuietNext
<1> QED
  BY <1>1, <1>2, InvHolds, PTL DEF Spec

(* Whatever a run that was killed between any two calls has left in the    *)
(* kernel, no later start or stop raises (base.py, initialize and clean).  *)
THEOREM RecoveryCorrect == Spec => []NeverFails
<1>1. Quiet => NeverFails
  BY DEF Quiet, NeverFails, Starts, Adds, Removes, Cleans, Rests, Ended
<1> QED
  BY <1>1, QuietHolds, PTL

(* A program that was stopped leaves neither a chain nor a jump to one in  *)
(* the kernel (base.py, clean; firewall.py, clean).                        *)
THEOREM CleanCorrect == Spec => []StopLeavesNothing
<1>1. Inv /\ Quiet => StopLeavesNothing
  BY DEF Quiet, StopLeavesNothing, Starts, Adds, Removes, Cleans, Rests, Ended,
         Bare, HasChain
<1> QED
  BY <1>1, InvHolds, QuietHolds, PTL

LEMMA OddAndEven ==
    /\ \A n \in Nat : n % 2 = 1 \/ n % 2 = 0
    /\ \A n \in Nat : n % 2 = 1 <=> (n + 1) % 2 = 0
    /\ \A n \in Nat : n >= 3 /\ n % 2 = 1 =>
          (n - 3) \div 2 \in Nat /\ n = 2 * ((n - 3) \div 2) + 3
    /\ \A n \in Nat : (2 * n + 1) % 2 = 1
  OBVIOUS

\* Between its fixed rules such a chain has a Log wherever the place is odd,
\* and the Accept of the same client behind it.
LEMMA Alternating ==
    ASSUME NEW rules, NEW S \in SUBSET Clients, Holds(rules, S, S)
    PROVE  /\ Len(rules) \in Nat /\ Len(rules) >= 3 /\ Len(rules) % 2 = 1
           /\ \A i \in 3..(Len(rules) - 1) :
                 i % 2 = 1 <=> \E c \in S : rules[i] = Log(c)
           /\ \A i \in 3..(Len(rules) - 1) : rules[i] \in ClientRule
<1> DEFINE n == Len(rules)
           Logs(i) == \E c \in Clients : rules[i] = Log(c)
<1>1. /\ rules \in Seq(Rule) /\ rules # None /\ n \in Nat /\ n >= 3 /\ DOMAIN rules = 1..n
      /\ rules[1] = Authenticator /\ rules[2] = LocalTraffic
      /\ \A i \in 1..n : rules[i] = Tproxy <=> i = n
      /\ \A i, j \in 1..n : rules[i] = rules[j] => i = j
  BY FirewallAssumption DEF Holds, Shaped, Distinct
<1>2. \A i \in 1..n, c \in Clients :
         rules[i] = Log(c) => i + 1 \in 1..n /\ rules[i + 1] = Accept(c)
  BY <1>1 DEF Holds, Paired
<1>b. \A i \in 1..n : rules[i] \in Rule
  BY <1>1, ElementOfSeq
<1> HIDE DEF n
<1>3. ASSUME NEW c \in Clients
      PROVE  /\ (\E i \in 1..n : rules[i] = Accept(c)) <=> c \in S
             /\ (\E i \in 1..n : rules[i] = Log(c)) <=> c \in S
  BY <1>1 DEF Holds, In
<1>4. ASSUME NEW i \in 3..(n - 1) PROVE i \in 1..n /\ rules[i] \in ClientRule
  <2>1. i \in 1..n /\ 1 \in 1..n /\ 2 \in 1..n /\ i # 1 /\ i # 2 /\ i # n
    BY <1>1
  <2>2. rules[i] \in Rule /\ rules[i] \notin {Authenticator, LocalTraffic, Tproxy}
    BY <1>1, <1>b, <2>1
  <2> QED
    BY <2>1, <2>2 DEF Rule, ClientRule
<1>5. ASSUME NEW i \in 1..n, NEW c \in Clients, rules[i] = Log(c)
      PROVE  i \in 3..(n - 1)
  <2>1. Log(c) \notin {Authenticator, LocalTraffic, Tproxy}
    BY RulesOfClients DEF ClientRule
  <2>2. i # 1 /\ i # 2 /\ i # n
    BY <1>1, <1>5, <2>1
  <2> QED
    BY <1>1, <2>2
<1> DEFINE I == {i \in 3..(n - 1) : ~(i % 2 = 1 <=> Logs(i))}
<1>6. I = {}
  <2> SUFFICES ASSUME I # {} PROVE FALSE
    OBVIOUS
  <2>1. I \subseteq Nat
    OBVIOUS
  <2>2. PICK i \in I : \A j \in I : i <= j
    BY <2>1, Smallest
  <2>3. i \in 3..(n - 1) /\ i \in 1..n /\ rules[i] \in ClientRule
    BY <1>4
  <2>4. ASSUME NEW j \in 3..(n - 1), j + 1 = i PROVE j % 2 = 1 <=> Logs(j)
    BY <2>2, <2>4
  <2> HIDE DEF I
  <2>5. CASE i % 2 = 1
    <3>1. ~Logs(i)
      BY <2>2, <2>5 DEF I
    <3>2. PICK c \in Clients : rules[i] = Accept(c)
      BY <2>3, <3>1 DEF ClientRule
    <3>3. PICK j \in 1..n : rules[j] = Log(c)
      BY <1>3, <2>3, <3>2
    <3>4. j + 1 = i
      BY <1>1, <1>2, <2>3, <3>2, <3>3
    <3>5. j \in 3..(n - 1)
      BY <1>5, <3>3
    <3>6. j % 2 = 1
      BY <2>4, <3>3, <3>4, <3>5
    <3> QED
      BY <2>5, <3>4, <3>5, <3>6
  <2>6. CASE i % 2 # 1
    <3>1. PICK c \in Clients : rules[i] = Log(c)
      BY <2>2, <2>6 DEF I
    <3>2. i # 3
      BY <2>6
    <3>3. i - 1 \in 3..(n - 1) /\ (i - 1) + 1 = i /\ i - 1 \in 1..n /\ (i - 1) % 2 = 1
      <4>1. i - 1 \in 3..(n - 1) /\ (i - 1) + 1 = i /\ i - 1 \in 1..n /\ i - 1 \in Nat
        BY <1>1, <2>3, <3>2
      <4> QED
        BY <2>6, <4>1, OddAndEven
    <3>4. PICK d \in Clients : rules[i - 1] = Log(d)
      BY <2>4, <3>3
    <3>5. rules[i] = Accept(d)
      BY <1>2, <3>3, <3>4
    <3> QED
      BY <3>1, <3>5, RulesDiffer
  <2> QED
    BY <2>5, <2>6
<1>7. \A i \in 3..(n - 1) : i % 2 = 1 <=> Logs(i)
  BY <1>6
<1>8. ASSUME NEW i \in 3..(n - 1), NEW c \in Clients, rules[i] = Log(c) PROVE c \in S
  BY <1>3, <1>4, <1>8
<1>9. n % 2 = 1
  <2>1. CASE n = 3
    BY <2>1
  <2>2. CASE n # 3 /\ n % 2 # 1
    <3>1. n - 1 \in 3..(n - 1) /\ n - 1 \in 1..n /\ (n - 1) + 1 = n /\ n - 1 \in Nat
      BY <1>1, <2>2
    <3>a. (n - 1) % 2 = 1
      BY <1>1, <2>2, <3>1, OddAndEven
    <3>2. PICK c \in Clients : rules[n - 1] = Log(c)
      BY <1>7, <3>1, <3>a
    <3>3. rules[n] = Accept(c)
      <4> DEFINE p == n - 1
      <4> HIDE DEF p
      <4>1. rules[p] = Log(c) /\ p \in 1..n /\ p + 1 = n
        BY <3>1, <3>2 DEF p
      <4> QED
        BY <1>2, <4>1
    <3>4. rules[n] = Tproxy
      BY <1>1
    <3>5. Accept(c) # Tproxy
      BY RulesOfClients DEF ClientRule
    <3> QED
      BY <3>3, <3>4, <3>5
  <2> QED
    BY <1>1, <2>1, <2>2
<1>10. \A i \in 3..(n - 1) : i % 2 = 1 <=> \E c \in S : rules[i] = Log(c)
  BY <1>7, <1>8
<1> QED
  BY <1>1, <1>4, <1>9, <1>10 DEF n

Middle(rules) == SubSeq(rules, 3, Len(rules) - 1)

Pairs(s) == [i \in DOMAIN s |-> <<Log(s[i]), Accept(s[i])>>]

\* It is the three fixed rules around the pairs of the clients, in some order.
LEMMA PairByPair ==
    ASSUME NEW rules, NEW S \in SUBSET Clients, Holds(rules, S, S)
    PROVE  /\ rules = <<Authenticator, LocalTraffic>> \o Middle(rules) \o <<Tproxy>>
           /\ \E s \in SetToSeqs(S) : Middle(rules) = FlattenSeq(Pairs(s))
<1> DEFINE middle == Middle(rules)
           n == Len(rules)
           m == (n - 3) \div 2
<1>1. /\ rules \in Seq(Rule) /\ rules # None /\ DOMAIN rules = 1..n
      /\ rules[1] = Authenticator /\ rules[2] = LocalTraffic
      /\ \A i \in 1..n : rules[i] = Tproxy <=> i = n
      /\ \A i, j \in 1..n : rules[i] = rules[j] => i = j
  BY FirewallAssumption DEF Holds, Shaped, Distinct
<1>2. \A i \in 1..n, c \in Clients :
         rules[i] = Log(c) => i + 1 \in 1..n /\ rules[i + 1] = Accept(c)
  BY <1>1 DEF Holds, Paired
<1>3. /\ n \in Nat /\ n >= 3 /\ n % 2 = 1
      /\ \A i \in 3..(n - 1) : i % 2 = 1 <=> \E c \in S : rules[i] = Log(c)
      /\ \A i \in 3..(n - 1) : rules[i] \in ClientRule
  BY Alternating
<1>4. m \in Nat /\ n = 2 * m + 3
  BY <1>3, OddAndEven
<1>5. /\ middle \in Seq(Rule) /\ Len(middle) = n - 3
      /\ \A i \in 1..(n - 3) : middle[i] = rules[i + 2]
  <2> DEFINE mid == SubSeq(rules, 3, n - 1)
  <2>1. /\ mid \in Seq(Rule) /\ Len(mid) = n - 3
        /\ \A i \in 1..(n - 3) : mid[i] = rules[3 + i - 1]
    <3> HIDE DEF m
    <3>0. \A i \in 1..n : rules[i] \in Rule
      BY <1>1, ElementOfSeq
    <3> HIDE DEF n
    <3>1. /\ 3 \in Int /\ n - 1 \in Int
          /\ \A i \in 3..(n - 1) : rules[i] \in Rule
      BY <1>3, <3>0
    <3>2. (IF 3 <= n - 1 THEN (n - 1) - 3 + 1 ELSE 0) = n - 3 /\ (n - 1) - 3 + 1 = n - 3
      BY <1>3
    <3> QED
      BY <3>1, <3>2, SubSeqProperties
  <2>2. \A i \in 1..(n - 3) : 3 + i - 1 = i + 2
    BY <1>3
  <2> HIDE DEF mid
  <2>3. middle = mid
    BY DEF mid, Middle
  <2> QED
    BY <2>1, <2>2, <2>3
<1> HIDE DEF m, n, middle
<1>6. rules = <<Authenticator, LocalTraffic>> \o middle \o <<Tproxy>>
  <2> DEFINE two == <<Authenticator, LocalTraffic>>
             front == two \o middle
             last == <<Tproxy>>
             all == front \o last
  <2>1. /\ two \in Seq(Rule) /\ Len(two) = 2
        /\ two[1] = Authenticator /\ two[2] = LocalTraffic
        /\ last \in Seq(Rule) /\ Len(last) = 1 /\ last[1] = Tproxy
    BY DEF Rule
  <2> HIDE DEF two, last
  <2>2. /\ front \in Seq(Rule) /\ Len(front) = Len(two) + Len(middle)
        /\ \A i \in 1..(Len(two) + Len(middle)) :
              front[i] = IF i <= Len(two) THEN two[i] ELSE middle[i - Len(two)]
    <3>1. two \in Seq(Rule) /\ middle \in Seq(Rule)
      BY <1>5, <2>1
    <3> QED
      BY <3>1, ConcatProperties
  <2> HIDE DEF front
  <2>3. /\ all \in Seq(Rule) /\ Len(all) = Len(front) + Len(last)
        /\ \A i \in 1..(Len(front) + Len(last)) :
              all[i] = IF i <= Len(front) THEN front[i] ELSE last[i - Len(front)]
    <3>1. front \in Seq(Rule) /\ last \in Seq(Rule)
      BY <2>1, <2>2
    <3> QED
      BY <3>1, ConcatProperties
  <2> HIDE DEF all
  <2>4. Len(front) = n - 1 /\ Len(all) = n
    BY <1>3, <1>5, <2>1, <2>2, <2>3
  <2>5. ASSUME NEW i \in 1..n PROVE all[i] = rules[i]
    <3>1. CASE i <= 2
      <4>1. i \in 1..(Len(two) + Len(middle)) /\ i <= Len(two)
            /\ i \in 1..(Len(front) + Len(last)) /\ i <= Len(front)
        BY <1>3, <1>5, <2>1, <2>4, <3>1
      <4>2. all[i] = two[i]
        BY <2>2, <2>3, <4>1
      <4>3. i = 1 \/ i = 2
        BY <3>1
      <4> QED
        BY <1>1, <2>1, <4>2, <4>3
    <3>2. CASE i > 2 /\ i < n
      <4> DEFINE l2 == Len(two)
                 l == Len(middle)
                 lf == Len(front)
                 l1 == Len(last)
      <4>0. l2 = 2 /\ l = n - 3 /\ lf = n - 1 /\ l1 = 1
        BY <1>5, <2>1, <2>4
      <4> HIDE DEF l2, l, lf, l1
      <4>a. /\ i \in 1..(l2 + l) /\ ~(i <= l2)
            /\ i \in 1..(lf + l1) /\ i <= lf
            /\ i - l2 \in 1..(n - 3) /\ i - l2 + 2 = i
        BY <1>3, <3>2, <4>0
      <4>1. /\ i \in 1..(Len(two) + Len(middle)) /\ ~(i <= Len(two))
            /\ i \in 1..(Len(front) + Len(last)) /\ i <= Len(front)
            /\ i - Len(two) \in 1..(n - 3) /\ i - Len(two) + 2 = i
        BY <4>a DEF l2, l, lf, l1
      <4>2. all[i] = middle[i - Len(two)]
        BY <2>2, <2>3, <4>1
      <4> QED
        BY <1>5, <4>1, <4>2
    <3>3. CASE i = n
      <4>1. i \in 1..(Len(front) + Len(last)) /\ ~(i <= Len(front)) /\ i - Len(front) = 1
        BY <1>3, <2>1, <2>4, <3>3
      <4>2. all[i] = last[1]
        BY <2>3, <4>1
      <4> QED
        BY <1>1, <2>1, <3>3, <4>2
    <3> QED
      BY <1>3, <3>1, <3>2, <3>3
  <2>6. Len(rules) = Len(all) /\ \A i \in 1..Len(rules) : rules[i] = all[i]
    BY <2>4, <2>5 DEF n
  <2>7. rules = all
    BY <1>1, <2>3, <2>6, SeqEqual
  <2> QED
    BY <2>7 DEF all, front, two, last
<1> DEFINE s == [j \in 1..m |-> CHOOSE c \in S : rules[2 * j + 1] = Log(c)]
<1>7. ASSUME NEW j \in 1..m
      PROVE  /\ s[j] \in S
             /\ 2 * j + 1 \in 1..n /\ 2 * j + 2 \in 1..n
             /\ rules[2 * j + 1] = Log(s[j]) /\ rules[2 * j + 2] = Accept(s[j])
  <2>1. /\ 2 * j + 1 \in 3..(n - 1) /\ (2 * j + 1) % 2 = 1
        /\ 2 * j + 1 \in 1..n /\ (2 * j + 1) + 1 = 2 * j + 2
    BY <1>3, <1>4
  <2>2. \E c \in S : rules[2 * j + 1] = Log(c)
    BY <1>3, <2>1
  <2>3. s[j] \in S /\ rules[2 * j + 1] = Log(s[j])
    BY <2>2
  <2> HIDE DEF s
  <2> QED
    BY <1>2, <2>1, <2>3
<1>8. s \in [1..m -> S]
  BY <1>7
<1> HIDE DEF s
<1>9. ASSUME NEW i \in 1..m, NEW j \in 1..m, s[i] = s[j] PROVE i = j
  <2>1. rules[2 * i + 1] = rules[2 * j + 1]
    BY <1>7, <1>9
  <2>2. 2 * i + 1 = 2 * j + 1
    BY <1>1, <1>7, <2>1
  <2> QED
    BY <2>2
<1>10. ASSUME NEW c \in S PROVE \E j \in 1..m : s[j] = c
  <2>1. PICK p \in 1..n : rules[p] = Log(c)
    BY <1>1 DEF Holds, In
  <2>2. p \in 3..(n - 1)
    <3>1. Log(c) \notin {Authenticator, LocalTraffic, Tproxy}
      BY RulesOfClients DEF ClientRule
    <3>2. p # 1 /\ p # 2 /\ p # n
      BY <1>1, <2>1, <3>1
    <3> QED
      BY <1>3, <3>2
  <2>3. p % 2 = 1
    BY <1>3, <2>1, <2>2
  <2>4. PICK j \in 1..m : 2 * j + 1 = p
    <3>1. (p - 1) \div 2 \in 1..m /\ 2 * ((p - 1) \div 2) + 1 = p
      BY <1>3, <1>4, <2>2, <2>3
    <3> QED
      BY <3>1
  <2>5. Log(s[j]) = Log(c)
    BY <1>7, <2>1, <2>4
  <2> QED
    BY <2>5, RulesDiffer
<1>11. s \in SetToSeqs(S)
  <2>1. s \in Bijection(1..m, S)
    BY <1>8, <1>9, <1>10 DEF Bijection, Injection, Surjection, IsInjective
  <2>2. Cardinality(S) = m
    BY <1>4, <2>1, FS_CountingElements DEF ExistsBijection
  <2> QED
    BY <1>8, <1>9, <2>2 DEF SetToSeqs
<1> DEFINE pairs == Pairs(s)
<1>12. FlattenSeq(pairs) = middle
  <2>1. DOMAIN s = 1..m
    BY <1>8
  <2>2. ASSUME NEW j \in 1..m
        PROVE  /\ pairs[j] \in Seq(Rule)
               /\ pairs[j] = <<middle[2 * j - 1], middle[2 * j]>>
    <3>1. Log(s[j]) \in Rule /\ Accept(s[j]) \in Rule
      BY <1>7, RulesOfClients DEF ClientRule
    <3>2. /\ 2 * j - 1 \in 1..(n - 3) /\ 2 * j \in 1..(n - 3)
          /\ (2 * j - 1) + 2 = 2 * j + 1
      BY <1>4
    <3>3. middle[2 * j - 1] = Log(s[j]) /\ middle[2 * j] = Accept(s[j])
      BY <1>5, <1>7, <3>2
    <3>4. pairs[j] = <<Log(s[j]), Accept(s[j])>>
      BY <2>1 DEF Pairs
    <3>5. <<Log(s[j]), Accept(s[j])>> \in Seq(Rule)
      BY <3>1
    <3> HIDE DEF pairs
    <3> QED
      BY <3>3, <3>4, <3>5
  <2>3. pairs \in Seq(Seq(Rule)) /\ Len(pairs) = m
    <3>1. pairs \in [1..m -> Seq(Rule)]
      BY <2>1, <2>2 DEF Pairs
    <3> HIDE DEF pairs
    <3> QED
      BY <1>4, <3>1
  <2>4. Len(middle) = 2 * Len(pairs)
    BY <1>4, <1>5, <2>3
  <2> HIDE DEF pairs
  <2> QED
    BY <1>5, <2>2, <2>3, <2>4, FlattenPairs
<1> QED
  BY <1>6, <1>11, <1>12 DEF middle

(* Between two operations the chain is what initialize made it plus the    *)
(* pair of every client with a queued hole and of nobody else, the pairs   *)
(* unbroken, and it is jumped to once - wherever the process was killed    *)
(* before (base.py; pyipt-table.c, commit).                                *)
THEOREM ContentsCorrect == Spec => []KernelMatches
<1>1. ASSUME Quiet PROVE KernelMatches
  <2> SUFFICES ASSUME Idle, ~disturbed
               PROVE  /\ kernel.jumps = 1
                      /\ HasChain(kernel)
                      /\ kernel.rules = <<Authenticator, LocalTraffic>> \o ClientRules
                                            \o <<Tproxy>>
                      /\ \E s \in SetToSeqs(Open) :
                            ClientRules = FlattenSeq([i \in DOMAIN s |->
                                                         <<Log(s[i]), Accept(s[i])>>])
    BY DEF KernelMatches, Open
  <2>1. Full(kernel, 1, Open, Open)
    BY <1>1, AtRest DEF Idle, Resting
  <2>2. Open \in SUBSET Clients
    BY DEF Open
  <2>3. kernel.jumps = 1 /\ Holds(kernel.rules, Open, Open)
    BY <2>1 DEF Full
  <2>4. HasChain(kernel)
    BY <2>3, FirewallAssumption DEF Holds, HasChain
  <2>5. ClientRules = Middle(kernel.rules)
    BY DEF ClientRules, Middle
  <2>6. /\ kernel.rules = <<Authenticator, LocalTraffic>> \o ClientRules \o <<Tproxy>>
        /\ \E s \in SetToSeqs(Open) : ClientRules = FlattenSeq(Pairs(s))
    <3>1. /\ kernel.rules = <<Authenticator, LocalTraffic>> \o Middle(kernel.rules)
                                  \o <<Tproxy>>
          /\ \E s \in SetToSeqs(Open) : Middle(kernel.rules) = FlattenSeq(Pairs(s))
      BY <2>2, <2>3, PairByPair
    <3> QED
      BY <2>5, <3>1
  <2>7. PICK s \in SetToSeqs(Open) : ClientRules = FlattenSeq(Pairs(s))
    BY <2>6
  <2> QED
    BY <2>3, <2>4, <2>6, <2>7 DEF Pairs
<1> QED
  BY <1>1, QuietHolds, PTL

-----------------------------------------------------------------------------
(* The gate.                                                               *)

\* The clients that pass, as the gate reads the kernel.
Through == IF disturbed THEN {} ELSE {c \in Clients : In(Accept(c), kernel.rules)}

LEMMA Once ==
    ASSUME kernel.rules = None \/ (kernel.rules \in Seq(Rule) /\ Distinct(kernel.rules)),
           NEW r
    PROVE  Occurrences(r) = IF In(r, kernel.rules) THEN 1 ELSE 0
<1> DEFINE where == {i \in DOMAIN kernel.rules : kernel.rules[i] = r}
<1>1. CASE kernel.rules = None
  BY <1>1 DEF Occurrences, HasChain, In
<1>2. CASE kernel.rules # None
  <2>1. Occurrences(r) = Cardinality(where)
    BY <1>2 DEF Occurrences, HasChain
  <2>2. CASE In(r, kernel.rules)
    <3>1. PICK i \in DOMAIN kernel.rules : kernel.rules[i] = r
      BY <2>2 DEF In
    <3>2. where = {i}
      BY <1>2, <3>1 DEF Distinct
    <3> QED
      BY <2>1, <2>2, <3>2, FS_Singleton
  <2>3. CASE ~In(r, kernel.rules)
    <3>1. where = {}
      BY <1>2, <2>3 DEF In
    <3> QED
      BY <2>1, <2>3, <3>1, FS_EmptySet
  <2> QED
    BY <2>2, <2>3
<1> QED
  BY <1>1, <1>2

LEMMA WhoPasses ==
    ASSUME ~disturbed, Leftover(kernel)
    PROVE  /\ Bare(kernel) => Through = {}
           /\ \A jumps, A : A \in SUBSET Clients /\ Full(kernel, jumps, A, A) => Through = A
           /\ \A c \in Clients :
                 /\ Occurrences(Accept(c)) = IF c \in Through THEN 1 ELSE 0
                 /\ Occurrences(Log(c)) = IF c \in Through THEN 1 ELSE 0
<1>1. kernel.rules = None \/ (kernel.rules \in Seq(Rule) /\ Distinct(kernel.rules))
  BY DEF Leftover, Bare, Full, Holds
<1>2. Bare(kernel) => Through = {}
  BY DEF Bare, Through, In
<1>3. \A jumps, A : A \in SUBSET Clients /\ Full(kernel, jumps, A, A) => Through = A
  BY DEF Full, Holds, Through
<1>4. \A c \in Clients : /\ In(Accept(c), kernel.rules) <=> c \in Through
                         /\ In(Log(c), kernel.rules) <=> c \in Through
  BY DEF Leftover, Bare, Full, Holds, Through, In
<1> QED
  BY <1>1, <1>2, <1>3, <1>4, Once

LEMMA OnlyReplaceWrites ==
    ASSUME [Next]_vars
    PROVE  \/ UNCHANGED <<kernel, disturbed>>
           \/ Replace /\ disturbed' = disturbed
           \/ disturbed'
<1>1. CASE InsertEntry \/ AppendEntry \/ DeleteEntry \/ AppendJump \/ DeleteJump
  BY <1>1 DEF InsertEntry, AppendEntry, DeleteEntry, AppendJump, DeleteJump, Edits
<1>2. CASE CreateChain \/ FlushEntries \/ DeleteChain
  BY <1>2 DEF CreateChain, FlushEntries, DeleteChain, Edits
<1>3. CASE Start \/ Stop \/ StopClean \/ Queued \/ Finished \/ Crash
  BY <1>3 DEF Start, Stop, StopClean, Queued, Finished, Crash
<1>4. ASSUME NEW c \in Clients,
             AddClient(c) \/ RemoveClient(c) \/ ForgetClient(c) \/ StopRemove(c)
      PROVE  UNCHANGED <<kernel, disturbed>>
  BY <1>4 DEF AddClient, RemoveClient, ForgetClient, StopRemove
<1>5. CASE Replace \/ AddCounters
  BY <1>5 DEF Replace, AddCounters
<1>6. CASE CallFails \/ OtherProcess
  BY <1>6 DEF CallFails, OtherProcess
<1>7. CASE UNCHANGED vars
  BY <1>7 DEF vars
<1> QED
  BY <1>1, <1>2, <1>3, <1>4, <1>5, <1>6, <1>7 DEF Next

\* One commit changes the kernel for one client, or turns everybody away.
LEMMA ThroughNext ==
    ASSUME Inv, Quiet, Quiet', [Next]_vars
    PROVE  \/ Through' = Through
           \/ Through' = {}
           \/ \E c \in Clients :
                 \/ c \notin Through /\ Through' = Through \cup {c}
                 \/ c \in Through /\ Through' = Through \ {c}
<1>1. CASE disturbed'
  BY <1>1 DEF Through
<1>2. CASE kernel' = kernel /\ disturbed' = disturbed
  BY <1>2 DEF Through
<1>3. CASE ~disturbed' /\ ~(kernel' = kernel /\ disturbed' = disturbed)
  <2>1. Replace /\ ~disturbed
    BY <1>3, OnlyReplaceWrites
  <2>2. Leftover(kernel) /\ Leftover(kernel)'
    BY <1>3, <2>1 DEF Quiet
  <2>3. Calling("replace") /\ todo # <<>>
    BY <2>1 DEF Replace, Calling
  <2>4. \/ \E k \in {4, 10, 13} : AtStarting(k) /\ Built(k)
        \/ \E c \in Clients : AtAdding(c, 3) /\ Added(c, 3)
        \/ \E c \in Clients : AtRemoving(c, 3) /\ Removed(c, 3)
        \/ AtCleaning(4) /\ Cleared(4)
    BY <2>1, <2>3, Position, Methods
  <2>5. Fits
    <3>1. \A k \in {4, 10, 13} : Built(k) => Fits
      BY DEF Built, Cleared
    <3>2. \A c \in Clients : (Added(c, 3) => Fits) /\ (Removed(c, 3) => Fits)
      BY DEF Added, Removed
    <3>3. Cleared(4) => Fits
      BY DEF Cleared
    <3> QED
      BY <2>4, <3>1, <3>2, <3>3
  <2>6. kernel' = handle.table
    BY <1>3, <2>1, <2>5, ReplaceWorks DEF Replace
  <2>7. ASSUME NEW A \in SUBSET Clients, Full(handle.table, 1, A, A)
        PROVE  Through' = A
    <3>1. Full(kernel', 1, A, A)
      BY <2>6, <2>7
    <3>2. A = {c \in Clients : In(Accept(c), kernel'.rules)}
      BY <3>1 DEF Full, Holds
    <3> QED
      BY <1>3, <3>2 DEF Through
  <2>8. ASSUME NEW A \in SUBSET Clients, Full(kernel, 1, A, A)
        PROVE  Through = A
    BY <2>1, <2>2, <2>8, WhoPasses
  <2>9. ASSUME handle.table.rules = None PROVE Through' = {}
    BY <1>3, <2>6, <2>9 DEF Through, In
  <2>10. ASSUME Holds(handle.table.rules, {}, {}) PROVE Through' = {}
    BY <1>3, <2>6, <2>10 DEF Through, Holds
  <2>11. CASE \E k \in {4, 10, 13} : AtStarting(k) /\ Built(k)
    BY <2>9, <2>10, <2>11 DEF Built, Cleared, Full
  <2>12. CASE AtCleaning(4) /\ Cleared(4)
    BY <2>9, <2>12 DEF Cleared
  <2>13. Open \in SUBSET Clients
    BY DEF Open
  <2>14. ASSUME NEW c \in Clients, Added(c, 3)
         PROVE  c \notin Through /\ Through' = Through \cup {c}
    <3>1. /\ c \notin Open /\ Full(kernel, 1, Open, Open)
          /\ Full(handle.table, 1, Open \cup {c}, Open \cup {c})
      BY <2>14 DEF Added
    <3> QED
      BY <2>7, <2>8, <2>13, <3>1
  <2>15. ASSUME NEW c \in Clients, Removed(c, 3)
         PROVE  c \in Through /\ Through' = Through \ {c}
    <3>1. /\ c \notin Open /\ Full(handle.table, 1, Open, Open)
          /\ Full(kernel, 1, Open \cup {c}, Open \cup {c})
      BY <2>15 DEF Removed
    <3>2. Through = Open \cup {c} /\ Through' = Open
      BY <2>7, <2>8, <2>13, <3>1
    <3> QED
      BY <3>1, <3>2
  <2> QED
    BY <2>4, <2>11, <2>12, <2>14, <2>15
<1> QED
  BY <1>1, <1>2, <1>3

\* What the gate reads.
Reading ==
    [c \in Clients |->
        CASE disturbed -> "shut"
          [] ~disturbed /\ Occurrences(Accept(c)) = 1
                /\ Occurrences(Log(c)) = 1 -> "open"
          [] ~disturbed /\ Occurrences(Accept(c)) = 0
                /\ Occurrences(Log(c)) = 0 -> "shut"
          [] OTHER -> "partial"]

OpenOrShut == [c \in Clients |-> IF c \in Through THEN "open" ELSE "shut"]

OneOrTheOther == Reading = OpenOrShut

LEMMA GateReads == Quiet => OneOrTheOther
<1> SUFFICES ASSUME Quiet PROVE Reading = OpenOrShut
  BY DEF OneOrTheOther
<1>1. CASE disturbed
  BY <1>1 DEF Through, Reading, OpenOrShut
<1>2. CASE ~disturbed
  <2>1. \A c \in Clients :
           /\ Occurrences(Accept(c)) = IF c \in Through THEN 1 ELSE 0
           /\ Occurrences(Log(c)) = IF c \in Through THEN 1 ELSE 0
    BY <1>2, WhoPasses DEF Quiet
  <2> QED
    BY <1>2, <2>1 DEF Reading, OpenOrShut
<1> QED
  BY <1>1, <1>2

LEMMA GateReadsNext == Quiet' => OneOrTheOther'
  BY GateReads, PTL

LEMMA GateInit == Init => Passes!Init
<1> SUFFICES ASSUME Init PROVE Passes!Init
  OBVIOUS
<1>1. Reading = OpenOrShut
  BY QuietInit, GateReads DEF OneOrTheOther
<1>2. Through = {}
  BY DEF Init, Through, In
<1>3. Reading = [c \in Clients |-> "shut"]
  BY <1>1, <1>2 DEF OpenOrShut
<1> QED
  BY <1>3 DEF Reading, Passes!Init

LEMMA GateNext ==
    ASSUME Inv, Quiet, Quiet', [Next]_vars
    PROVE  [Passes!Next]_(Passes!vars)
<1>1. Reading = OpenOrShut /\ Reading' = OpenOrShut'
  BY GateReads, GateReadsNext DEF OneOrTheOther
<1>2. \/ Reading' = Reading
      \/ Reading' = [c \in Clients |-> "shut"]
      \/ \E c \in Clients :
            \/ Reading[c] = "shut" /\ Reading' = [Reading EXCEPT ![c] = "open"]
            \/ Reading[c] = "open" /\ Reading' = [Reading EXCEPT ![c] = "shut"]
  <2>1. CASE Through' = Through
    BY <1>1, <2>1 DEF OpenOrShut
  <2>2. CASE Through' = {}
    BY <1>1, <2>2 DEF OpenOrShut
  <2>3. ASSUME NEW c \in Clients, c \notin Through, Through' = Through \cup {c}
        PROVE  Reading[c] = "shut" /\ Reading' = [Reading EXCEPT ![c] = "open"]
    BY <1>1, <2>3 DEF OpenOrShut
  <2>4. ASSUME NEW c \in Clients, c \in Through, Through' = Through \ {c}
        PROVE  Reading[c] = "open" /\ Reading' = [Reading EXCEPT ![c] = "shut"]
    BY <1>1, <2>4 DEF OpenOrShut
  <2> QED
    BY <2>1, <2>2, <2>3, <2>4, ThroughNext
<1> QED
  BY <1>2 DEF Reading, Passes!Next, Passes!vars, Passes!Open, Passes!Shut, Passes!ShutAll

(* As long as nothing is disturbed every commit opens the way for one      *)
(* client, with both of its rules, shuts it for one, or turns everybody    *)
(* away; no client is ever let through halfway (base.py, addClient,        *)
(* removeClient, initialize and clean; pyipt-table.c, commit).             *)
THEOREM GateImplemented == Spec => ImplementsGate
<1>1. Inv /\ Quiet /\ [Next]_vars => Inv' /\ Quiet' /\ [Passes!Next]_(Passes!vars)
  BY InvNext, QuietNext, GateNext
<1> QED
  BY InvInit, QuietInit, GateInit, <1>1, PTL DEF Spec, ImplementsGate, Passes!Spec
=============================================================================

------------------------ MODULE LeaderElection_proofs ------------------------
(***************************************************************************)
(* The types of LeaderElection for every choice of its bounds, and, while  *)
(* keys do not lapse and no reply is lost, that at most one main leads,    *)
(* for any number of mains, of overlapping checks and of departures.       *)
(***************************************************************************)
EXTENDS LeaderElection, SequenceTheorems, TLAPS

LEMMA ReplyNames ==
  /\ Replies = {"self", "other", "vacant", "set", "kept", "taken", "renewed", "cleared"}
  /\ Commands = {"get", "setnx", "expireTaken", "expireRenewed", "del"}
  /\ \A r \in Replies : CommandOf[r] \in Commands
<1>1. Replies = {"self", "other", "vacant", "set", "kept", "taken", "renewed", "cleared"}
  BY DEF Replies, CommandOf
<1>2. Commands = {CommandOf[r] : r \in {"self", "other", "vacant", "set", "kept", "taken", "renewed", "cleared"}}
  BY <1>1 DEF Commands
<1>3. Commands = {"get", "setnx", "expireTaken", "expireRenewed", "del"}
  BY <1>2 DEF CommandOf
<1>4. QED
  BY <1>1, <1>3 DEF Commands

(* Does x occur in s? *)
Has(s, x) == \E i \in 1..Len(s) : s[i] = x
Once(s, x) == \A i, j \in 1..Len(s) : s[i] = x /\ s[j] = x => i = j

LEMMA HasFacts ==
  ASSUME NEW S, NEW s \in Seq(S), NEW x
  PROVE  /\ ~Has(<<>>, x) /\ Once(<<>>, x)
         /\ \A y \in S : Has(Append(s, y), x) <=> Has(s, x) \/ x = y
         /\ \A y \in S : Once(s, x) /\ (y = x => ~Has(s, x)) => Once(Append(s, y), x)
         /\ s # <<>> => /\ Has(Tail(s), x) => Has(s, x)
                        /\ Head(s) = x => Has(s, x)
                        /\ Once(s, x) => Once(Tail(s), x)
                        /\ Once(s, x) /\ Head(s) = x => ~Has(Tail(s), x)
<1>1. ~Has(<<>>, x) /\ Once(<<>>, x)
  BY DEF Has, Once
<1>2. ASSUME NEW y \in S
      PROVE  Has(Append(s, y), x) <=> Has(s, x) \/ x = y
  <2>1. /\ Len(Append(s, y)) = Len(s) + 1
        /\ \A i \in 1..Len(s) : Append(s, y)[i] = s[i]
        /\ Append(s, y)[Len(s) + 1] = y
    OBVIOUS
  <2>2. 1..(Len(s) + 1) = 1..Len(s) \cup {Len(s) + 1} /\ Len(s) \in Nat
    OBVIOUS
  <2>3. QED
    BY <2>1, <2>2 DEF Has
<1>3. ASSUME NEW y \in S, Once(s, x), y = x => ~Has(s, x)
      PROVE  Once(Append(s, y), x)
  <2>1. /\ Len(Append(s, y)) = Len(s) + 1
        /\ \A i \in 1..Len(s) : Append(s, y)[i] = s[i]
        /\ Append(s, y)[Len(s) + 1] = y
    OBVIOUS
  <2>2. 1..(Len(s) + 1) = 1..Len(s) \cup {Len(s) + 1} /\ Len(s) \in Nat
    OBVIOUS
  <2>3. QED
    BY <1>3, <2>1, <2>2 DEF Has, Once
<1>4. ASSUME s # <<>>
      PROVE  /\ Has(Tail(s), x) => Has(s, x)
             /\ Head(s) = x => Has(s, x)
             /\ Once(s, x) => Once(Tail(s), x)
             /\ Once(s, x) /\ Head(s) = x => ~Has(Tail(s), x)
  <2>1. /\ Len(s) \in Nat \ {0} /\ Len(Tail(s)) = Len(s) - 1 /\ Head(s) = s[1]
        /\ \A i \in 1..(Len(s) - 1) : Tail(s)[i] = s[i + 1]
    BY <1>4
  <2>2. \A i \in 1..(Len(s) - 1) : i + 1 \in 1..Len(s) /\ i + 1 # 1
    BY <2>1
  <2>3. QED
    BY <2>1, <2>2 DEF Has, Once
<1>5. QED
  BY <1>1, <1>2, <1>3, <1>4

(* At most one command is sent for a reply. *)
LEMMA SendFacts ==
  ASSUME NEW S, NEW s \in Seq(S)
  PROVE  s \o <<>> = s /\ \A y \in S : s \o <<y>> = Append(s, y)
OBVIOUS

LEMMA SeqTypes ==
  ASSUME NEW S
  PROVE  /\ <<>> \in Seq(S)
         /\ \A c \in S : <<c>> \in Seq(S)
         /\ \A s, t \in Seq(S) : s \o t \in Seq(S)
         /\ \A s \in Seq(S), c \in S : Append(s, c) \in Seq(S)
         /\ \A s \in Seq(S) : s # <<>> => Tail(s) \in Seq(S)
OBVIOUS

LEMMA BoundTypes ==
  MaxChecks \in Nat /\ MaxLapses \in Nat /\ MaxDepartures \in Nat /\ MaxReconnects \in Nat
BY ElectionBounds

LEMMA AnswerType ==
  ASSUME ElectionTypeOK, NEW m \in Mains, sent[m] # <<>>
  PROVE  /\ Head(sent[m]) \in Commands
         /\ Answer(m) \in Replies
         /\ Answer(m) = "set" => key = NoMain
         /\ Answer(m) = "cleared" => Head(sent[m]) = "del"
<1>1. Head(sent[m]) \in Commands
  BY DEF ElectionTypeOK
<1>2. QED
  BY <1>1, ReplyNames DEF Answer

LEMMA StoreType ==
  ASSUME ElectionTypeOK, NEW m \in Mains, NEW r \in Replies, Store(m, r)
  PROVE  /\ key' \in Mains \cup {NoMain, Departed}
         /\ expires' \in BOOLEAN
         /\ r = "set" => key' = m
         /\ r = "cleared" => key' = NoMain
         /\ r \notin {"set", "cleared"} => key' = key
BY ReplyNames DEF ElectionTypeOK, Store, redisVars

(* What every handled reply does to the messages. *)
LEMMA ReceiveType ==
  ASSUME ElectionTypeOK, NEW m \in Mains, NEW R, NEW cmds \in {<<>>} \cup {<<c>> : c \in Commands},
         Receive(m, R, cmds)
  PROVE  /\ sent' \in [Mains -> Seq(Commands)]
         /\ replies' \in [Mains -> Seq(Replies)]
         /\ replies[m] # <<>> /\ Head(replies[m]) \in R
         /\ replies'[m] = Tail(replies[m]) /\ sent'[m] = sent[m] \o cmds
         /\ \A n \in Mains : n # m => sent'[n] = sent[n] /\ replies'[n] = replies[n]
         /\ UNCHANGED <<redisVars, boundVars>>
<1>1. cmds \in Seq(Commands) /\ sent[m] \in Seq(Commands) /\ replies[m] \in Seq(Replies)
  BY SeqTypes DEF ElectionTypeOK
<1>2. sent[m] \o cmds \in Seq(Commands)
  BY <1>1, SeqTypes
<1>3. replies[m] # <<>> => Tail(replies[m]) \in Seq(Replies)
  BY <1>1, SeqTypes
<1>4. QED
  BY <1>2, <1>3 DEF ElectionTypeOK, Receive

(* The replies handled up to the next await, in one shape. *)
Handles(m, R, cmds, r) ==
  /\ Receive(m, R, cmds)
  /\ phase' \in {phase, [phase EXCEPT ![m] = IF @ = "joining" THEN "up" ELSE @]}
  /\ role' \in {role, [role EXCEPT ![m] = r]}

(* The parts of the type invariant. *)
RedisOK == key \in Mains \cup {NoMain, Departed} /\ expires \in BOOLEAN
MainsOK == phase \in [Mains -> Phases] /\ role \in [Mains -> Roles]
MessagesOK == sent \in [Mains -> Seq(Commands)] /\ replies \in [Mains -> Seq(Replies)]
BoundsOK ==
  lapses \in 0..MaxLapses /\ departures \in 0..MaxDepartures /\ reconnects \in 0..MaxReconnects

LEMMA TypeParts ==
  /\ ElectionTypeOK <=> RedisOK /\ MainsOK /\ MessagesOK /\ BoundsOK
  /\ ElectionTypeOK' <=> RedisOK' /\ MainsOK' /\ MessagesOK' /\ BoundsOK'
BY DEF ElectionTypeOK, RedisOK, MainsOK, MessagesOK, BoundsOK

LEMMA MessageSteps ==
  ASSUME MessagesOK, NEW m \in Mains
  PROVE  /\ [sent EXCEPT ![m] = <<>>] \in [Mains -> Seq(Commands)]
         /\ [replies EXCEPT ![m] = <<>>] \in [Mains -> Seq(Replies)]
         /\ [sent EXCEPT ![m] = <<"setnx">>] \in [Mains -> Seq(Commands)]
         /\ \A c \in Commands : [sent EXCEPT ![m] = Append(@, c)] \in [Mains -> Seq(Commands)]
<1>1. <<>> \in Seq(Commands) /\ <<>> \in Seq(Replies) /\ <<"setnx">> \in Seq(Commands)
  BY SeqTypes, ReplyNames
<1>2. \A c \in Commands : Append(sent[m], c) \in Seq(Commands)
  BY SeqTypes DEF MessagesOK
<1>3. QED
  BY <1>1, <1>2 DEF MessagesOK

LEMMA HandlesAll ==
  ASSUME NEW m \in Mains, Quiet(m) \/ StepDown(m) \/ TakeOver(m)
  PROVE  \E R : \E cmds \in {<<>>} \cup {<<c>> : c \in Commands}, r \in Roles : Handles(m, R, cmds, r)
<1> DEFINE Sendable == {<<>>} \cup {<<c>> : c \in Commands}
<1>1. <<>> \in Sendable /\ <<"setnx">> \in Sendable
      /\ <<"expireTaken">> \in Sendable /\ <<"expireRenewed">> \in Sendable
  BY ReplyNames
<1>2. "leader" \in Roles /\ "follower" \in Roles
  BY DEF Roles
<1> SUFFICES \E R : \E cmds \in Sendable, r \in Roles : Handles(m, R, cmds, r)
  OBVIOUS
<1> HIDE DEF Sendable
<1>3. CASE Renew(m)
  <2>1. Handles(m, {"self"}, <<"expireRenewed">>, "leader")
    BY <1>3 DEF Renew, Handles
  <2>2. QED
    BY <1>1, <1>2, <2>1
<1>4. CASE Follow(m)
  <2>1. Handles(m, {"other"}, <<>>, "leader")
    BY <1>4 DEF Follow, Handles
  <2>2. QED
    BY <1>1, <1>2, <2>1
<1>5. CASE KeySet(m)
  <2>1. Handles(m, {"set"}, <<"expireTaken">>, "leader")
    BY <1>5 DEF KeySet, Handles, Become
  <2>2. QED
    BY <1>1, <1>2, <2>1
<1>6. CASE KeyKept(m)
  <2>1. Handles(m, {"kept"}, <<>>, "follower")
    BY <1>6 DEF KeyKept, Handles, Become, Joined
  <2>2. QED
    BY <1>1, <1>2, <2>1
<1>7. CASE Renewed(m)
  <2>1. Handles(m, {"renewed"}, <<>>, "leader")
    BY <1>7 DEF Renewed, Handles
  <2>2. QED
    BY <1>1, <1>2, <2>1
<1>8. CASE TakeOver(m)
  <2>1. Handles(m, {"taken"}, <<>>, "leader")
    BY <1>8 DEF TakeOver, Handles, Joined
  <2>2. QED
    BY <1>1, <1>2, <2>1
<1>9. CASE StepDown(m)
  <2>1. \/ Handles(m, {"other"}, <<>>, "follower")
        \/ Handles(m, {"vacant"}, <<"setnx">>, "follower")
    BY <1>9 DEF StepDown, Handles, Become
  <2>2. QED
    BY <1>1, <1>2, <2>1
<1>10. QED
  BY <1>3, <1>4, <1>5, <1>6, <1>7, <1>8, <1>9 DEF Quiet

LEMMA ElectionTypeStep == ElectionTypeOK /\ [ElectionNext]_electionVars => ElectionTypeOK'
<1> SUFFICES ASSUME ElectionTypeOK, [ElectionNext]_electionVars PROVE ElectionTypeOK'
  OBVIOUS
<1>0. RedisOK /\ MainsOK /\ MessagesOK /\ BoundsOK
  BY TypeParts
<1>1. ASSUME NEW m \in Mains, Execute(m) PROVE ElectionTypeOK'
  <2>1. Answer(m) \in Replies /\ Store(m, Answer(m))
    BY <1>1, AnswerType DEF Execute
  <2>2. RedisOK'
    BY <2>1, StoreType DEF RedisOK
  <2>3. MessagesOK'
    BY <1>0, <1>1, <2>1, SeqTypes DEF Execute, MessagesOK
  <2>4. MainsOK' /\ BoundsOK'
    BY <1>0, <1>1 DEF Execute, MainsOK, BoundsOK, boundVars
  <2>5. QED
    BY <2>2, <2>3, <2>4, TypeParts
<1>2. ASSUME NEW m \in Mains, Reconnect(m) PROVE ElectionTypeOK'
  <2> DEFINE again == [i \in DOMAIN replies[m] |-> CommandOf[replies[m][i]]]
  <2>1. again \in Seq(Commands)
    <3>1. replies[m] \in Seq(Replies)
      BY <1>0 DEF MessagesOK
    <3>2. DOMAIN replies[m] = 1..Len(replies[m]) /\ Len(replies[m]) \in Nat
      BY <3>1
    <3>3. \A i \in 1..Len(replies[m]) : CommandOf[replies[m][i]] \in Commands
      BY <3>1, ReplyNames
    <3>4. again \in [1..Len(replies[m]) -> Commands]
      BY <3>2, <3>3
    <3>5. QED
      BY <3>2, <3>4, IsASeq
  <2> HIDE DEF again
  <2>2. MessagesOK'
    <3>1. sent[m] \in Seq(Commands)
      BY <1>0 DEF MessagesOK
    <3>2. again \o sent[m] \in Seq(Commands)
      BY <2>1, <3>1, SeqTypes
    <3>3. sent' = [sent EXCEPT ![m] = again \o @] /\ replies' = [replies EXCEPT ![m] = <<>>]
      BY <1>2 DEF Reconnect, again
    <3>4. QED
      BY <1>0, <3>2, <3>3, SeqTypes DEF MessagesOK
  <2>3. BoundsOK'
    BY <1>0, <1>2, BoundTypes DEF Reconnect, BoundsOK
  <2>4. RedisOK' /\ MainsOK'
    BY <1>0, <1>2 DEF Reconnect, RedisOK, MainsOK, redisVars
  <2>5. QED
    BY <2>2, <2>3, <2>4, TypeParts
<1>3. ASSUME NEW m \in Mains, Connect(m) \/ CheckLeader(m) PROVE ElectionTypeOK'
  <2>1. "get" \in Commands
    BY ReplyNames
  <2>2. MessagesOK'
    <3>1. CASE Connect(m)
      BY <1>0, <3>1, MessageSteps DEF Connect, MessagesOK
    <3>2. CASE CheckLeader(m)
      BY <1>0, <2>1, <3>2, MessageSteps DEF CheckLeader, MessagesOK
    <3>3. QED
      BY <1>3, <3>1, <3>2
  <2>3. MainsOK'
    BY <1>0, <1>3 DEF Connect, CheckLeader, MainsOK, Phases
  <2>4. RedisOK' /\ BoundsOK'
    BY <1>0, <1>3 DEF Connect, CheckLeader, RedisOK, BoundsOK, redisVars, boundVars
  <2>5. QED
    BY <2>2, <2>3, <2>4, TypeParts
<1>4. ASSUME NEW m \in Mains, Quiet(m) \/ StepDown(m) \/ TakeOver(m) PROVE ElectionTypeOK'
  <2>1. PICK R : \E cmds \in {<<>>} \cup {<<c>> : c \in Commands}, r \in Roles : Handles(m, R, cmds, r)
    BY <1>4, HandlesAll
  <2>2. MessagesOK' /\ UNCHANGED <<redisVars, boundVars>>
    BY <2>1, ReceiveType DEF Handles, MessagesOK
  <2>3. MainsOK'
    BY <1>0, <2>1 DEF Handles, MainsOK, Phases
  <2>4. RedisOK' /\ BoundsOK'
    BY <1>0, <2>2 DEF RedisOK, BoundsOK, redisVars, boundVars
  <2>5. QED
    BY <2>2, <2>3, <2>4, TypeParts
<1>5. ASSUME NEW m \in Mains, Shutdown(m) \/ KeyCleared(m) PROVE ElectionTypeOK'
  <2>1. MessagesOK'
    <3>1. CASE Shutdown(m)
      <4>1. "del" \in Commands
        BY ReplyNames
      <4>2. \/ sent' = [sent EXCEPT ![m] = Append(@, "del")] /\ replies' = replies
            \/ sent' = [sent EXCEPT ![m] = <<>>] /\ replies' = [replies EXCEPT ![m] = <<>>]
        BY <3>1 DEF Shutdown, Disconnected
      <4>3. [sent EXCEPT ![m] = Append(@, "del")] \in [Mains -> Seq(Commands)]
        BY <1>0, <4>1, MessageSteps
      <4>4. [sent EXCEPT ![m] = <<>>] \in [Mains -> Seq(Commands)]
            /\ [replies EXCEPT ![m] = <<>>] \in [Mains -> Seq(Replies)]
        BY <1>0, MessageSteps
      <4>5. QED
        BY <1>0, <4>2, <4>3, <4>4 DEF MessagesOK
    <3>2. CASE KeyCleared(m)
      BY <1>0, <3>2, MessageSteps DEF KeyCleared, Disconnected, MessagesOK
    <3>3. QED
      BY <1>5, <3>1, <3>2
  <2>2. MainsOK'
    BY <1>0, <1>5 DEF Shutdown, KeyCleared, MainsOK, Phases
  <2>3. BoundsOK'
    BY <1>0, <1>5, BoundTypes DEF Shutdown, KeyCleared, BoundsOK, boundVars
  <2>4. RedisOK'
    BY <1>0, <1>5 DEF Shutdown, KeyCleared, RedisOK, redisVars
  <2>5. QED
    BY <2>1, <2>2, <2>3, <2>4, TypeParts
<1>6. ASSUME NEW m \in Mains, Exit(m) \/ Crash(m) PROVE ElectionTypeOK'
  <2>1. MessagesOK'
    BY <1>0, <1>6, MessageSteps DEF Exit, Crash, Leave, Disconnected, MessagesOK
  <2>2. MainsOK'
    BY <1>0, <1>6 DEF Exit, Crash, Leave, MainsOK, Phases, Roles
  <2>3. BoundsOK'
    BY <1>0, <1>6, BoundTypes DEF Exit, Crash, Leave, BoundsOK
  <2>4. RedisOK'
    BY <1>0, <1>6 DEF Exit, Crash, Leave, RedisOK
  <2>5. QED
    BY <2>1, <2>2, <2>3, <2>4, TypeParts
<1>7. ASSUME Lapse PROVE ElectionTypeOK'
  <2>1. BoundsOK'
    BY <1>0, <1>7, BoundTypes DEF Lapse, BoundsOK
  <2>2. RedisOK' /\ MainsOK' /\ MessagesOK'
    BY <1>0, <1>7 DEF Lapse, RedisOK, MainsOK, MessagesOK, mainVars
  <2>3. QED
    BY <2>1, <2>2, TypeParts
<1>8. ASSUME UNCHANGED electionVars PROVE ElectionTypeOK'
  BY <1>8 DEF electionVars, redisVars, mainVars, boundVars, ElectionTypeOK
<1>9. QED
  BY <1>1, <1>2, <1>3, <1>4, <1>5, <1>6, <1>7, <1>8 DEF ElectionNext

LEMMA ElectionTypeInit == ElectionInit => ElectionTypeOK
<1> SUFFICES ASSUME ElectionInit PROVE ElectionTypeOK
  OBVIOUS
<1>1. phase \in [Mains -> Phases] /\ role \in [Mains -> Roles]
  BY DEF ElectionInit, Phases, Roles
<1>2. sent \in [Mains -> Seq(Commands)] /\ replies \in [Mains -> Seq(Replies)]
  BY SeqTypes DEF ElectionInit
<1>3. lapses \in 0..MaxLapses /\ departures \in 0..MaxDepartures /\ reconnects \in 0..MaxReconnects
  BY BoundTypes DEF ElectionInit
<1>4. key \in Mains \cup {NoMain, Departed} /\ expires \in BOOLEAN
  BY DEF ElectionInit
<1>5. QED
  BY <1>1, <1>2, <1>3, <1>4 DEF ElectionTypeOK

(* The types, for every choice of the bounds. *)
THEOREM ElectionTypes == ElectionSafety => []ElectionTypeOK
BY ElectionTypeInit, ElectionTypeStep, PTL DEF ElectionSafety

-----------------------------------------------------------------------------
(* The key follows the main: of a main in phase p and role r, with commands  *)
(* s and replies q on their way, the key k is its own whenever it leads, is  *)
(* about to lead, or is about to delete the key.                             *)
Sound(m, k, p, r, s, q) ==
  /\ p \in {"joining", "up"} /\ (r = "leader" \/ Has(q, "set")) => k = m
  /\ p # "stopping" => ~Has(s, "del") /\ ~Has(q, "cleared")
  /\ Once(s, "del")
  /\ Has(s, "del") => k = m
  /\ p \in {"down", "exiting"} => s = <<>> /\ q = <<>>
  /\ p = "down" => k # m /\ r = "unset"

LeaseInv == \A m \in Mains : Sound(m, key, phase[m], role[m], sent[m], replies[m])

(* A step of m, or of nobody, leaves the other mains sound when it changes   *)
(* whether the key is theirs for none of them.                               *)
LEMMA OthersSound ==
  ASSUME LeaseInv, NEW m,
         Sound(m, key, phase[m], role[m], sent[m], replies[m])',
         \A n \in Mains \ {m} :
           /\ key = n <=> key' = n
           /\ phase'[n] = phase[n] /\ role'[n] = role[n]
           /\ sent'[n] = sent[n] /\ replies'[n] = replies[n]
  PROVE  LeaseInv'
BY DEF LeaseInv, Sound

LEMMA LeaseInit == ElectionInit => LeaseInv
BY HasFacts, MainIds DEF ElectionInit, LeaseInv, Sound, Has, Once

LEMMA ExecuteSound ==
  ASSUME ElectionTypeOK, LeaseInv, NEW m \in Mains, Execute(m)
  PROVE  LeaseInv' /\ (\A n \in Mains : key = n /\ IsActive(n) => key' = n)
<1> DEFINE a == Answer(m)
<1>1. a \in Replies /\ Store(m, a) /\ Head(sent[m]) \in Commands
      /\ (a = "set" => key = NoMain) /\ (a = "cleared" => Head(sent[m]) = "del")
  BY AnswerType DEF Execute
<1> HIDE DEF a
<1>2. /\ a = "set" => key' = m
      /\ a = "cleared" => key' = NoMain
      /\ a \notin {"set", "cleared"} => key' = key
  BY <1>1, StoreType
<1>3. /\ sent[m] # <<>> /\ sent[m] \in Seq(Commands) /\ replies[m] \in Seq(Replies)
      /\ sent'[m] = Tail(sent[m]) /\ replies'[m] = Append(replies[m], a)
      /\ phase' = phase /\ role' = role
      /\ \A n \in Mains \ {m} : sent'[n] = sent[n] /\ replies'[n] = replies[n]
  BY DEF Execute, ElectionTypeOK, a
<1>4. Sound(m, key, phase[m], role[m], sent[m], replies[m])
  BY DEF LeaseInv
<1>5. a = "cleared" => key = m /\ phase[m] = "stopping"
  BY <1>1, <1>3, <1>4, HasFacts DEF Sound
<1>6. phase[m] \notin {"down", "exiting"}
  BY <1>3, <1>4 DEF Sound
<1>7. /\ Has(Tail(sent[m]), "del") => Has(sent[m], "del") /\ a # "cleared"
      /\ Once(Tail(sent[m]), "del")
  BY <1>1, <1>3, <1>4, HasFacts DEF Sound
<1>8. /\ Has(Append(replies[m], a), "set") <=> Has(replies[m], "set") \/ a = "set"
      /\ Has(Append(replies[m], a), "cleared") <=> Has(replies[m], "cleared") \/ a = "cleared"
  BY <1>1, <1>3, HasFacts
<1>9. key = m => key' = m \/ a = "cleared"
  BY <1>1, <1>2, MainIds
<1>10. Sound(m, key, phase[m], role[m], sent[m], replies[m])'
  <2>1. Sound(m, key', phase[m], role[m], Tail(sent[m]), Append(replies[m], a))
    BY <1>2, <1>4, <1>5, <1>6, <1>7, <1>8, <1>9 DEF Sound
  <2>2. QED
    BY <1>3, <2>1 DEF Sound
<1>11. \A n \in Mains \ {m} : key = n <=> key' = n
  BY <1>1, <1>2, <1>5, MainIds
<1>12. LeaseInv'
  BY <1>3, <1>10, <1>11, OthersSound
<1>13. \A n \in Mains : key = n /\ IsActive(n) => key' = n
  BY <1>5, <1>9, <1>11 DEF IsActive
<1>14. QED
  BY <1>12, <1>13

LEMMA HandleSound ==
  ASSUME ElectionTypeOK, LeaseInv, NEW m \in Mains, Quiet(m) \/ StepDown(m) \/ TakeOver(m)
  PROVE  LeaseInv' /\ key' = key
<1> DEFINE Sendable == {<<>>, <<"setnx">>, <<"expireTaken">>, <<"expireRenewed">>}
           Restrained(R) ==
             /\ "cleared" \notin R
             /\ "set" \in R => R = {"set"}
             /\ "set" \notin R => role' = role \/ role' = [role EXCEPT ![m] = "follower"]
<1>1. \E R : \E cmds \in Sendable, r \in Roles : Handles(m, R, cmds, r) /\ Restrained(R)
  BY DEF Quiet, StepDown, TakeOver, Renew, Follow, KeySet, KeyKept, Renewed,
         Handles, Become, Joined, Roles
<1>2. PICK R : \E cmds \in Sendable, r \in Roles : Handles(m, R, cmds, r) /\ Restrained(R)
  BY <1>1
<1>3. PICK cmds \in Sendable, r \in Roles : Handles(m, R, cmds, r) /\ Restrained(R)
  BY <1>2
<1>4. cmds \in {<<>>} \cup {<<c>> : c \in Commands}
  BY ReplyNames
<1>5. /\ sent[m] \in Seq(Commands) /\ replies[m] \in Seq(Replies)
      /\ phase \in [Mains -> Phases] /\ role \in [Mains -> Roles]
  BY DEF ElectionTypeOK
<1>6. /\ replies[m] # <<>> /\ Head(replies[m]) \in R
      /\ replies'[m] = Tail(replies[m]) /\ sent'[m] = sent[m] \o cmds
      /\ \A n \in Mains : n # m => sent'[n] = sent[n] /\ replies'[n] = replies[n]
      /\ key' = key
  BY <1>3, <1>4, ReceiveType DEF Handles, redisVars
<1>7. Sound(m, key, phase[m], role[m], sent[m], replies[m])
  BY DEF LeaseInv
<1>8. /\ Has(Tail(replies[m]), "set") => Has(replies[m], "set")
      /\ Has(Tail(replies[m]), "cleared") => Has(replies[m], "cleared")
      /\ Head(replies[m]) = "set" => Has(replies[m], "set")
  BY <1>5, <1>6, HasFacts
<1>9. /\ Has(sent[m] \o cmds, "del") <=> Has(sent[m], "del")
      /\ Once(sent[m], "del") => Once(sent[m] \o cmds, "del")
  <2>1. CASE cmds = <<>>
    BY <1>5, <2>1, SendFacts
  <2>2. CASE \E c \in Commands \ {"del"} : cmds = <<c>>
    <3>1. PICK c \in Commands \ {"del"} : cmds = <<c>>
      BY <2>2
    <3>2. sent[m] \o cmds = Append(sent[m], c)
      BY <1>5, <3>1, SendFacts
    <3>3. /\ Has(Append(sent[m], c), "del") <=> Has(sent[m], "del")
          /\ Once(sent[m], "del") => Once(Append(sent[m], c), "del")
      BY <1>5, HasFacts
    <3>4. QED
      BY <3>2, <3>3
  <2>3. cmds = <<>> \/ \E c \in {"setnx", "expireTaken", "expireRenewed"} : cmds = <<c>>
    BY <1>3
  <2>4. {"setnx", "expireTaken", "expireRenewed"} \subseteq Commands \ {"del"}
    BY ReplyNames
  <2>5. QED
    BY <2>1, <2>2, <2>3, <2>4
<1>10. /\ phase'[m] = phase[m] \/ (phase[m] = "joining" /\ phase'[m] = "up")
       /\ \A n \in Mains : n # m => phase'[n] = phase[n] /\ role'[n] = role[n]
  BY <1>3, <1>5 DEF Handles
<1>11. "set" \notin R => role'[m] \in {role[m], "follower"}
  BY <1>3, <1>5
<1>12. "set" \in R => Has(replies[m], "set")
  BY <1>3, <1>6, <1>8
<1>13. phase[m] \notin {"down", "exiting"}
  BY <1>6, <1>7 DEF Sound
<1>14. Sound(m, key, phase'[m], role'[m], sent[m] \o cmds, Tail(replies[m]))
  BY <1>7, <1>8, <1>9, <1>10, <1>11, <1>12, <1>13 DEF Sound
<1>15. Sound(m, key, phase[m], role[m], sent[m], replies[m])'
  BY <1>6, <1>14
<1>16. QED
  BY <1>6, <1>10, <1>15, OthersSound

LEMMA StartSound ==
  ASSUME ElectionTypeOK, LeaseInv, NEW m \in Mains, Connect(m) \/ CheckLeader(m)
  PROVE  LeaseInv' /\ key' = key
<1>1. Sound(m, key, phase[m], role[m], sent[m], replies[m])
  BY DEF LeaseInv
<1>2. sent[m] \in Seq(Commands) /\ "get" \in Commands /\ "setnx" \in Commands
  BY ReplyNames DEF ElectionTypeOK
<1>3. /\ key' = key /\ role' = role /\ replies' = replies
      /\ \A n \in Mains \ {m} : sent'[n] = sent[n] /\ phase'[n] = phase[n]
  BY DEF Connect, CheckLeader, ElectionTypeOK, redisVars
<1>4. CASE Connect(m)
  <2>1. phase[m] = "down" /\ phase'[m] = "joining" /\ sent'[m] = <<"setnx">>
    BY <1>4 DEF Connect, ElectionTypeOK
  <2>2. sent[m] = <<>> /\ replies[m] = <<>> /\ role[m] = "unset"
    BY <1>1, <2>1 DEF Sound
  <2>3. ~Has(<<"setnx">>, "del") /\ Once(<<"setnx">>, "del")
    BY DEF Has, Once
  <2>4. ~Has(<<>>, "set") /\ ~Has(<<>>, "cleared")
    BY DEF Has
  <2>5. Sound(m, key, "joining", role[m], <<"setnx">>, replies[m])
    BY <2>2, <2>3, <2>4 DEF Sound
  <2>6. Sound(m, key, phase[m], role[m], sent[m], replies[m])'
    BY <1>3, <2>1, <2>5
  <2>7. QED
    BY <1>3, <2>6, OthersSound
<1>5. CASE CheckLeader(m)
  <2>1. phase[m] = "up" /\ phase' = phase /\ sent'[m] = Append(sent[m], "get")
    BY <1>5 DEF CheckLeader, ElectionTypeOK
  <2>2. /\ Has(Append(sent[m], "get"), "del") <=> Has(sent[m], "del")
        /\ Once(sent[m], "del") => Once(Append(sent[m], "get"), "del")
    BY <1>2, HasFacts
  <2>3. Sound(m, key, phase[m], role[m], Append(sent[m], "get"), replies[m])
    BY <1>1, <2>1, <2>2 DEF Sound
  <2>4. Sound(m, key, phase[m], role[m], sent[m], replies[m])'
    BY <1>3, <2>1, <2>3
  <2>5. QED
    BY <1>3, <2>1, <2>4, OthersSound
<1>6. QED
  BY <1>3, <1>4, <1>5

(* The steps by which a main leaves change the key at most from its own. *)
LEMMA LeaveSound ==
  ASSUME ElectionTypeOK, LeaseInv, NEW m \in Mains,
         Shutdown(m) \/ KeyCleared(m) \/ Exit(m) \/ Crash(m)
  PROVE  LeaseInv' /\ (\A n \in Mains : key = n /\ key' # n => phase'[n] = "down")
<1>1. Sound(m, key, phase[m], role[m], sent[m], replies[m])
  BY DEF LeaseInv
<1>2. sent[m] \in Seq(Commands) /\ replies[m] \in Seq(Replies) /\ "del" \in Commands
  BY ReplyNames DEF ElectionTypeOK
<1>3. \A n \in Mains \ {m} : /\ phase'[n] = phase[n] /\ role'[n] = role[n]
                             /\ sent'[n] = sent[n] /\ replies'[n] = replies[n]
  BY DEF Shutdown, KeyCleared, Exit, Crash, Leave, Disconnected, ElectionTypeOK
<1>4. /\ Once(<<>>, "del") /\ ~Has(<<>>, "del")
      /\ ~Has(<<>>, "set") /\ ~Has(<<>>, "cleared")
  BY DEF Has, Once
<1>5. CASE Shutdown(m) /\ role[m] = "leader"
  <2>1. /\ phase[m] = "up" /\ phase'[m] = "stopping" /\ role' = role /\ key' = key
        /\ sent'[m] = Append(sent[m], "del") /\ replies'[m] = replies[m]
    BY <1>5 DEF Shutdown, ElectionTypeOK, redisVars
  <2>2. key = m /\ ~Has(sent[m], "del")
    BY <1>1, <1>5, <2>1 DEF Sound
  <2>3. Once(Append(sent[m], "del"), "del")
    BY <1>1, <1>2, <2>2, HasFacts DEF Sound
  <2>4. Sound(m, key, "stopping", role[m], Append(sent[m], "del"), replies[m])
    BY <2>2, <2>3 DEF Sound
  <2>5. Sound(m, key, phase[m], role[m], sent[m], replies[m])'
    BY <2>1, <2>4
  <2>6. QED
    BY <1>3, <2>1, <2>5, OthersSound
<1>6. CASE KeyCleared(m) \/ (Shutdown(m) /\ role[m] # "leader")
  <2>1. /\ phase'[m] = "exiting" /\ role' = role /\ key' = key
        /\ sent'[m] = <<>> /\ replies'[m] = <<>>
    BY <1>6 DEF Shutdown, KeyCleared, Disconnected, ElectionTypeOK, redisVars
  <2>2. Sound(m, key, "exiting", role[m], <<>>, <<>>)
    BY <1>4 DEF Sound
  <2>3. Sound(m, key, phase[m], role[m], sent[m], replies[m])'
    BY <2>1, <2>2
  <2>4. QED
    BY <1>3, <2>1, <2>3, OthersSound
<1>7. CASE Exit(m) \/ Crash(m)
  <2>1. /\ phase'[m] = "down" /\ role'[m] = "unset"
        /\ sent'[m] = <<>> /\ replies'[m] = <<>>
        /\ key' = IF key = m THEN Departed ELSE key
    BY <1>7 DEF Exit, Crash, Leave, Disconnected, ElectionTypeOK
  <2>2. key' # m /\ \A n \in Mains \ {m} : key = n <=> key' = n
    BY <2>1, MainIds
  <2>3. Sound(m, key', "down", "unset", <<>>, <<>>)
    BY <1>4, <2>2 DEF Sound
  <2>4. Sound(m, key, phase[m], role[m], sent[m], replies[m])'
    BY <2>1, <2>3
  <2>5. QED
    BY <1>3, <2>1, <2>2, <2>4, OthersSound
<1>8. QED
  BY <1>5, <1>6, <1>7

(* A step never makes up for a lapse or for a lost reply. *)
LEMMA ReliableBefore ==
  ASSUME ElectionTypeOK, [ElectionNext]_electionVars, Reliable'
  PROVE  Reliable
<1>1. lapses \in Nat /\ reconnects \in Nat
  BY BoundTypes DEF ElectionTypeOK
<1>2. ASSUME NEW m \in Mains, Quiet(m) \/ StepDown(m) \/ TakeOver(m)
      PROVE  UNCHANGED <<lapses, reconnects>>
  <2>1. PICK R : \E cmds \in {<<>>} \cup {<<c>> : c \in Commands}, r \in Roles : Handles(m, R, cmds, r)
    BY <1>2, HandlesAll
  <2>2. QED
    BY <2>1 DEF Handles, Receive, boundVars
<1>3. ASSUME NEW m \in Mains,
             \/ Execute(m) \/ Connect(m) \/ CheckLeader(m)
             \/ Shutdown(m) \/ KeyCleared(m) \/ Exit(m) \/ Crash(m)
      PROVE  UNCHANGED <<lapses, reconnects>>
  BY <1>3 DEF Execute, Connect, CheckLeader, Shutdown, KeyCleared, Exit, Crash, Leave, boundVars
<1>4. (\E m \in Mains : Reconnect(m)) => reconnects' = reconnects + 1
  BY DEF Reconnect
<1>5. Lapse => reconnects' = reconnects /\ (lapses' = lapses \/ lapses' = lapses + 1)
  BY DEF Lapse
<1>6. UNCHANGED electionVars => UNCHANGED <<lapses, reconnects>>
  BY DEF electionVars, boundVars
<1>7. QED
  BY <1>1, <1>2, <1>3, <1>4, <1>5, <1>6 DEF ElectionNext, Reliable

(* A step after which no key of a live main has lapsed takes only the key of *)
(* a main that is gone, or is leaving.                                       *)
LEMMA LapseSound ==
  ASSUME ElectionTypeOK, LeaseInv, Reliable', Lapse
  PROVE  LeaseInv' /\ (\A n \in Mains : key = n => phase[n] = "exiting")
<1>1. HolderIsGone
  <2>1. lapses \in Nat /\ lapses' = 0
    BY BoundTypes DEF ElectionTypeOK, Reliable
  <2>2. QED
    BY <2>1 DEF Lapse
<1>2. \A n \in Mains : key = n => phase[n] = "exiting"
  BY <1>1, MainIds DEF HolderIsGone
<1>3. key' = NoMain /\ UNCHANGED mainVars
  BY DEF Lapse
<1>4. ASSUME NEW n \in Mains
      PROVE  Sound(n, key, phase[n], role[n], sent[n], replies[n])'
  <2>1. Sound(n, key, phase[n], role[n], sent[n], replies[n])
    BY DEF LeaseInv
  <2>2. ~Has(<<>>, "del") /\ ~Has(<<>>, "set") /\ ~Has(<<>>, "cleared") /\ Once(<<>>, "del")
    BY DEF Has, Once
  <2>3. Sound(n, key', phase[n], role[n], sent[n], replies[n])
    BY <1>2, <1>3, <2>1, <2>2, MainIds DEF Sound
  <2>4. QED
    BY <1>3, <2>3 DEF mainVars
<1>5. QED
  BY <1>2, <1>4 DEF LeaseInv

(* What a step does to the key of a main that is not leaving. *)
LeaseStep ==
  \A m \in Mains : key = m /\ key' # m /\ IsActive(m) => phase'[m] = "down"

LEMMA ElectionStep ==
  ASSUME ElectionTypeOK, LeaseInv, Reliable', [ElectionNext]_electionVars
  PROVE  LeaseInv' /\ LeaseStep
<1>1. ASSUME NEW m \in Mains, Execute(m) PROVE LeaseInv' /\ LeaseStep
  BY <1>1, ExecuteSound DEF LeaseStep
<1>2. ASSUME NEW m \in Mains PROVE ~Reconnect(m)
  <2>1. reconnects \in Nat /\ reconnects' = 0
    BY BoundTypes DEF ElectionTypeOK, Reliable
  <2>2. QED
    BY <2>1 DEF Reconnect
<1>3. ASSUME NEW m \in Mains, Connect(m) \/ CheckLeader(m) PROVE LeaseInv' /\ LeaseStep
  BY <1>3, StartSound DEF LeaseStep
<1>4. ASSUME NEW m \in Mains, Quiet(m) \/ StepDown(m) \/ TakeOver(m)
      PROVE  LeaseInv' /\ LeaseStep
  BY <1>4, HandleSound DEF LeaseStep
<1>5. ASSUME NEW m \in Mains, Shutdown(m) \/ KeyCleared(m) \/ Exit(m) \/ Crash(m)
      PROVE  LeaseInv' /\ LeaseStep
  BY <1>5, LeaveSound DEF LeaseStep
<1>6. ASSUME Lapse PROVE LeaseInv' /\ LeaseStep
  BY <1>6, LapseSound DEF LeaseStep, IsActive
<1>7. ASSUME UNCHANGED electionVars PROVE LeaseInv' /\ LeaseStep
  <2>1. UNCHANGED <<key, phase, role, sent, replies>>
    BY <1>7 DEF electionVars, redisVars, mainVars
  <2>2. LeaseStep
    BY <2>1 DEF LeaseStep
  <2>3. LeaseInv'
    BY <2>1 DEF LeaseInv, Sound
  <2>4. QED
    BY <2>2, <2>3
<1>8. QED
  BY <1>1, <1>2, <1>3, <1>4, <1>5, <1>6, <1>7 DEF ElectionNext

LEMMA LeaseAlways == ElectionSafety => [](ElectionTypeOK /\ (Reliable => LeaseInv))
<1>1. ElectionInit => ElectionTypeOK /\ (Reliable => LeaseInv)
  BY ElectionTypeInit, LeaseInit
<1>2. ElectionTypeOK /\ (Reliable => LeaseInv) /\ [ElectionNext]_electionVars
        => (ElectionTypeOK /\ (Reliable => LeaseInv))'
  BY ElectionTypeStep, ElectionStep, ReliableBefore
<1>3. QED
  BY <1>1, <1>2, PTL DEF ElectionSafety

(* While every holder has renewed the key in time and no reply was lost, at  *)
(* most one main leads: for any number of mains, of overlapping calls of     *)
(* checkLeader(), of shutdowns and of crashes.                               *)
THEOREM OneLeader == ElectionSafety => []AtMostOneLeader
<1>1. (Reliable => LeaseInv) => AtMostOneLeader
  BY DEF LeaseInv, Sound, AtMostOneLeader, Leads, IsActive
<1>2. QED
  BY <1>1, LeaseAlways, PTL

(* As long, nobody takes the key from a main that is not shutting down;      *)
(* above all, the DEL of shutdown() is the leader's own.                     *)
THEOREM KeyKeptByHolder == ElectionSafety => KeyNotTakenAway
<1>1. ElectionTypeOK /\ (Reliable => LeaseInv) /\ [ElectionNext]_electionVars
        => [Reliable' =>
            \A m \in Mains : key = m /\ key' # m /\ IsActive(m) => phase'[m] = "down"]_electionVars
  BY ElectionStep, ReliableBefore DEF LeaseStep
<1>2. QED
  BY <1>1, LeaseAlways, PTL DEF ElectionSafety, KeyNotTakenAway
=============================================================================

------------------------- MODULE OperatorConsoleProofs -------------------------
(***************************************************************************)
(* Proofs about the credentials in OperatorConsole, for any chats and any    *)
(* scenario: whatever is in .env at first, however many pairs are given,     *)
(* secrets saved, writes failed and restarts made.                           *)
(***************************************************************************)
EXTENDS OperatorConsole, Collections

Pairs == [key : Int, secret : Int]
Job == [ex : Polled, key : Int, secret : Int]
States == {Idle, [at |-> "password"], [at |-> "exchange"]}
          \cup [at : {"key"}, ex : Exchange] \cup [at : {"secret"}, ex : Exchange, key : Int]

Types ==
  /\ running \in BOOLEAN /\ given \in Nat \ {0}
  /\ talk \in [Chat -> States]
  /\ dotenv \in [Polled -> Pairs] /\ process \in [Polled -> Pairs]
  /\ api \in [Exchange -> Nat] /\ filed \in [Exchange -> Nat] /\ times \in [Exchange -> Nat]
  /\ saving \in [Writer -> {Quiet} \cup Job]

Whole(p) == p.key = p.secret /\ p.key # 0 /\ p.key # CANCEL
Settled(x) == dotenv[x] = None \/ Whole(dotenv[x])

\* An append of a pair to .env has none or one of its lines written, nobody
\* else appends for that exchange, and what was declared before stands.
Halfway(w, x) ==
  LET s == saving[w]
  IN /\ \A v \in Writer \ {w} : saving[v].ex # x
     /\ s.secret # 0 /\ s.secret # CANCEL
     /\ \/ s.key = s.secret /\ Settled(x)
        \/ s.key = 0 /\ (Whole(dotenv[x]) \/ dotenv[x] = [key |-> s.secret, secret |-> 0])

\* What the conversation keeps of a pair is its key; a dead process keeps nothing.
TalkInv == \A c \in Chat : talk[c].at = "secret" => talk[c].key # 0
QuietInv == ~running => \A w \in Writer : saving[w] = Quiet

PairInv ==
  \A x \in Polled \ spoilt :
    /\ (\A w \in Writer : saving[w].ex # x) => Settled(x)
    /\ \A w \in Writer : saving[w].ex = x => Halfway(w, x)

\* A real key of x in a conversation.
Held(x) == \E c \in Chat : talk[c].at = "secret" /\ talk[c].ex = x /\ talk[c].key # CANCEL

\* An exchange that was given no pair has none anywhere.
Ungiven ==
  \A x \in Polled \ spoilt :
    times[x] = 0 => /\ dotenv[x] = None /\ process[x] = None /\ api[x] = 0
                    /\ (\A w \in Writer : saving[w].ex # x) /\ ~Held(x)

\* The dashboard's pair, if it was the only one, is in .env or on its way.
OnTheWay(x) ==
  \/ dotenv[x].key = api[x]
  \/ dotenv[x] = None /\ saving["dashboard"] = [ex |-> x, key |-> api[x], secret |-> api[x]]

GivenOnce ==
  \A x \in Polled \ (spoilt \cup unsaved) :
    times[x] = 1 /\ api[x] # 0
    => /\ ~Held(x) /\ saving["wizard"].ex # x
       /\ OnTheWay(x)
       /\ running => x \in fresh \/ process[x].key = api[x]

\* An exchange given one pair at most has that one, or none, in config.json.
FiledInv ==
  \A x \in Exchange : /\ times[x] = 0 => api[x] = 0 /\ filed[x] = 0
                      /\ times[x] = 1 => filed[x] \in {0, api[x]}

\* The key and the secret the bot reads at a start were given together, unless
\* two savers wrote at once, a save was cut short, or /cancel was taken for an
\* answer.
WholePairs == \A x \in Polled \ spoilt : process[x] # None => Valid(x)

IInv == FiledInv /\ Types /\ TalkInv /\ QuietInv /\ PairInv /\ Ungiven /\ GivenOnce /\ WholePairs

-----------------------------------------------------------------------------
LEMMA Constants ==
  /\ CANCEL \in Int /\ CANCEL # 0 /\ CANCEL \notin Nat
  /\ "none" \notin Polled /\ Polled \subseteq Exchange
  /\ Writer = {"wizard", "dashboard"} /\ None \in Pairs /\ Quiet.ex = "none"
BY SMT DEF CANCEL, Polled, Exchange, Writer, None, Pairs, Quiet

LEMMA JobNotQuiet ==
  ASSUME Types, NEW w \in Writer
  PROVE  /\ saving[w] = Quiet \/ saving[w] \in Job
         /\ saving[w].ex \in Polled => saving[w] \in Job
         /\ saving[w] # Quiet => saving[w].ex \in Polled
BY Constants DEF Types, Job

\* Another saver's opening of the file, or its own, of lines for x.
LEMMA Started ==
  ASSUME Types, NEW w \in Writer, saving[w] = Quiet, NEW x \in Exchange,
         NEW key \in Int, NEW secret \in Int, StartAppend(w, x, key, secret)
  PROVE  /\ spoilt \subseteq spoilt'
         /\ saving' \in [Writer -> {Quiet} \cup Job]
         /\ \A v \in Writer \ {w} : saving'[v] = saving[v]
         /\ x \notin Polled => saving' = saving
         /\ x \in Polled => /\ saving'[w] = [ex |-> x, key |-> key, secret |-> secret]
                            /\ CANCEL \in {key, secret} => x \in spoilt'
                            /\ (\E v \in Writer \ {w} : saving[v].ex = x) => x \in spoilt'
<1>1. CASE x \in Polled
  <2>1. /\ saving' = [saving EXCEPT ![w] = [ex |-> x, key |-> key, secret |-> secret]]
        /\ spoilt' = spoilt \cup Overlap(w, x) \cup (IF CANCEL \in {key, secret} THEN {x} ELSE {})
    BY <1>1 DEF StartAppend
  <2>2. [ex |-> x, key |-> key, secret |-> secret] \in Job
    BY <1>1 DEF Job
  <2>3. (\E v \in Writer \ {w} : saving[v].ex = x) => x \in Overlap(w, x)
    BY DEF Overlap
  <2> QED BY <1>1, <2>1, <2>2, <2>3 DEF Types
<1>2. CASE x \notin Polled
  BY <1>2 DEF StartAppend, Types
<1> QED BY <1>1, <1>2

\* Lines for x are opened by w, whatever else changes in talk, times and api.
LEMMA StartedPairs ==
  ASSUME IInv, NEW w \in Writer, saving[w] = Quiet, NEW x \in Exchange,
         NEW key \in Int, NEW secret \in {key, CANCEL}, key # 0,
         StartAppend(w, x, key, secret), UNCHANGED <<dotenv, process>>
  PROVE  PairInv' /\ WholePairs'
<1>1. /\ spoilt \subseteq spoilt'
      /\ \A v \in Writer \ {w} : saving'[v] = saving[v]
      /\ x \notin Polled => saving' = saving
      /\ x \in Polled => /\ saving'[w] = [ex |-> x, key |-> key, secret |-> secret]
                         /\ CANCEL \in {key, secret} => x \in spoilt'
                         /\ (\E v \in Writer \ {w} : saving[v].ex = x) => x \in spoilt'
  BY Started, Constants DEF IInv
<1>2. WholePairs'
  BY <1>1 DEF IInv, WholePairs, Valid, Pair
<1>3. PairInv'
  <2> SUFFICES ASSUME NEW y \in Polled, y \notin spoilt'
               PROVE  /\ (\A v \in Writer : saving'[v].ex # y) => Settled(y)'
                      /\ \A v \in Writer : saving'[v].ex = y => Halfway(v, y)'
    BY DEF PairInv
  <2>1. y \notin spoilt /\ Settled(y)' = Settled(y)
    BY <1>1 DEF Settled
  <2>2. CASE x \notin Polled
    BY <1>1, <2>1, <2>2 DEF IInv, PairInv, Halfway
  <2>3. CASE x \in Polled /\ y # x
    <3>1. saving[w].ex # y /\ saving'[w].ex # y
      BY <1>1, <2>3, Constants
    <3>2. \A v \in Writer : saving'[v].ex = y <=> saving[v].ex = y
      BY <1>1, <3>1
    <3>3. \A v \in Writer : saving[v].ex = y => saving'[v] = saving[v]
      BY <1>1, <3>1
    <3> QED BY <2>1, <3>2, <3>3 DEF IInv, PairInv, Halfway
  <2>4. CASE x \in Polled /\ y = x
    <3>1. /\ saving'[w] = [ex |-> x, key |-> key, secret |-> secret]
          /\ key # CANCEL /\ secret = key
          /\ \A v \in Writer \ {w} : saving[v].ex # x /\ saving'[v].ex # x
      BY <1>1, <2>4
    <3>2. \A v \in Writer : saving[v].ex # x
      BY <3>1, <2>4, Constants
    <3>3. Settled(x)
      BY <2>1, <2>4, <3>2 DEF IInv, PairInv
    <3>4. Halfway(w, x)'
      BY <2>1, <2>4, <3>1, <3>3 DEF Halfway
    <3> QED BY <2>4, <3>1, <3>4
  <2> QED BY <2>2, <2>3, <2>4
<1> QED BY <1>2, <1>3

-----------------------------------------------------------------------------
(* Writing .env. *)

LEMMA WriteFacts ==
  ASSUME IInv, NEW w \in Writer, WriteLine(w)
  PROVE  LET s == saving[w]
             x == saving[w].ex
         IN /\ running /\ s \in Job /\ x \in Polled
            /\ \A v \in Writer \ {w} : saving'[v] = saving[v]
            /\ saving' \in [Writer -> {Quiet} \cup Job]
            /\ IF s.key # 0 THEN saving'[w] = [ex |-> x, key |-> 0, secret |-> s.secret]
                            ELSE saving'[w] = Quiet
            /\ dotenv' \in [Polled -> Pairs]
            /\ \A y \in Polled \ {x} : dotenv'[y] = dotenv[y]
            /\ spoilt \subseteq spoilt'
            /\ x \notin spoilt'
               => IF s.key # 0
                  THEN dotenv'[x] = IF dotenv[x].key = 0 THEN [key |-> s.key, secret |-> dotenv[x].secret]
                                    ELSE dotenv[x]
                  ELSE dotenv'[x] = IF dotenv[x].secret = 0 THEN [key |-> dotenv[x].key, secret |-> s.secret]
                                    ELSE dotenv[x]
            /\ UNCHANGED <<running, talk, process, api, filed, given, times, fresh, unsaved>>
<1> DEFINE s == saving[w]
<1> DEFINE x == s.ex
<1>1. running /\ s # Quiet /\ UNCHANGED <<running, talk, process, api, filed, given, times, fresh, unsaved>>
  BY DEF WriteLine, conversation
<1>2. s \in Job /\ x \in Polled
  BY <1>1, JobNotQuiet DEF IInv
<1>3. saving' = [saving EXCEPT ![w] = IF s.key # 0 THEN [s EXCEPT !.key = 0] ELSE Quiet]
  BY DEF WriteLine
<1>4. [s EXCEPT !.key = 0] = [ex |-> x, key |-> 0, secret |-> s.secret] /\ [s EXCEPT !.key = 0] \in Job
  BY <1>2 DEF Job
<1>5. saving \in [Writer -> {Quiet} \cup Job] /\ dotenv \in [Polled -> Pairs]
  BY DEF IInv, Types
<1>6. /\ \A v \in Writer \ {w} : saving'[v] = saving[v]
      /\ saving' \in [Writer -> {Quiet} \cup Job]
      /\ IF s.key # 0 THEN saving'[w] = [ex |-> x, key |-> 0, secret |-> s.secret]
                      ELSE saving'[w] = Quiet
  BY <1>3, <1>4, <1>5
<1>7. \/ dotenv' = Declare(x, IF s.key # 0 THEN "key" ELSE "secret",
                            s[IF s.key # 0 THEN "key" ELSE "secret"]) /\ UNCHANGED spoilt
      \/ spoilt' = spoilt \cup {x} /\ UNCHANGED dotenv
  BY DEF WriteLine
<1>8. /\ dotenv' \in [Polled -> Pairs]
      /\ \A y \in Polled \ {x} : dotenv'[y] = dotenv[y]
      /\ spoilt \subseteq spoilt'
      /\ x \notin spoilt'
         => IF s.key # 0
            THEN dotenv'[x] = IF dotenv[x].key = 0 THEN [key |-> s.key, secret |-> dotenv[x].secret]
                              ELSE dotenv[x]
            ELSE dotenv'[x] = IF dotenv[x].secret = 0 THEN [key |-> dotenv[x].key, secret |-> s.secret]
                              ELSE dotenv[x]
  <2>1. CASE spoilt' = spoilt \cup {x} /\ UNCHANGED dotenv
    BY <1>5, <2>1
  <2>2. CASE s.key # 0 /\ dotenv' = Declare(x, "key", s.key) /\ UNCHANGED spoilt
    BY <1>2, <1>5, <2>2 DEF Declare, Pairs, Job
  <2>3. CASE s.key = 0 /\ dotenv' = Declare(x, "secret", s.secret) /\ UNCHANGED spoilt
    BY <1>2, <1>5, <2>3 DEF Declare, Pairs, Job
  <2>4. s["key"] = s.key /\ s["secret"] = s.secret
    OBVIOUS
  <2> QED BY <1>7, <2>1, <2>2, <2>3, <2>4
<1> QED BY <1>1, <1>2, <1>6, <1>8

LEMMA WriteStep ==
  ASSUME IInv, NEW w \in Writer, WriteLine(w)
  PROVE  IInv'
<1> DEFINE s == saving[w]
<1> DEFINE x == s.ex
<1>1. /\ running /\ s \in Job /\ x \in Polled
      /\ \A v \in Writer \ {w} : saving'[v] = saving[v]
      /\ saving' \in [Writer -> {Quiet} \cup Job]
      /\ IF s.key # 0 THEN saving'[w] = [ex |-> x, key |-> 0, secret |-> s.secret]
                      ELSE saving'[w] = Quiet
      /\ dotenv' \in [Polled -> Pairs]
      /\ \A y \in Polled \ {x} : dotenv'[y] = dotenv[y]
      /\ spoilt \subseteq spoilt'
      /\ UNCHANGED <<running, talk, process, api, filed, given, times, fresh, unsaved>>
  BY WriteFacts
<1>2. x \notin spoilt'
      => IF s.key # 0
         THEN dotenv'[x] = IF dotenv[x].key = 0 THEN [key |-> s.key, secret |-> dotenv[x].secret]
                           ELSE dotenv[x]
         ELSE dotenv'[x] = IF dotenv[x].secret = 0 THEN [key |-> dotenv[x].key, secret |-> s.secret]
                           ELSE dotenv[x]
  BY WriteFacts
<1>3. dotenv[x] \in Pairs /\ s.ex = x
  BY <1>1 DEF IInv, Types
<1> HIDE DEF s, x
<1>4. Types' /\ TalkInv' /\ QuietInv' /\ FiledInv'
  BY <1>1 DEF IInv, Types, TalkInv, QuietInv, FiledInv
<1>5. WholePairs'
  BY <1>1 DEF IInv, WholePairs, Valid, Pair
<1>6. saving[w].ex = x /\ (saving'[w].ex = x \/ saving'[w].ex \notin Polled)
  BY <1>1, <1>3, Constants DEF s
<1>7. \A y \in Polled \ {x} : \A v \in Writer :
        /\ saving'[v].ex = y <=> saving[v].ex = y
        /\ saving[v].ex = y => saving'[v] = saving[v]
  BY <1>1, <1>6
<1>8. ASSUME x \notin spoilt'
      PROVE  /\ Halfway(w, x) /\ s.secret # 0 /\ s.secret # CANCEL
             /\ \A v \in Writer \ {w} : saving[v].ex # x /\ saving'[v].ex # x
             /\ s.key # 0 => s.key = s.secret /\ Settled(x)
             /\ s.key = 0 => Whole(dotenv[x]) \/ dotenv[x] = [key |-> s.secret, secret |-> 0]
  <2>1. Halfway(w, x)
    BY <1>1, <1>6, <1>8 DEF IInv, PairInv
  <2> QED BY <1>1, <2>1 DEF Halfway, s
<1>9. ASSUME x \notin spoilt'
      PROVE  IF s.key # 0 THEN Whole(dotenv'[x]) \/ dotenv'[x] = [key |-> s.secret, secret |-> 0]
                          ELSE Whole(dotenv'[x])
  <2>1. CASE s.key # 0 /\ dotenv[x] = None
    BY <1>2, <1>8, <1>9, <2>1 DEF None
  <2>2. CASE s.key # 0 /\ Whole(dotenv[x])
    BY <1>2, <1>9, <2>2 DEF Whole
  <2>3. CASE s.key = 0 /\ Whole(dotenv[x])
    BY <1>2, <1>9, <2>3 DEF Whole
  <2>4. CASE s.key = 0 /\ dotenv[x] = [key |-> s.secret, secret |-> 0]
    BY <1>2, <1>8, <1>9, <2>4 DEF Whole
  <2> QED BY <1>8, <1>9, <2>1, <2>2, <2>3, <2>4 DEF Settled
<1>10. PairInv'
  <2> SUFFICES ASSUME NEW y \in Polled, y \notin spoilt'
               PROVE  /\ (\A v \in Writer : saving'[v].ex # y) => Settled(y)'
                      /\ \A v \in Writer : saving'[v].ex = y => Halfway(v, y)'
    BY DEF PairInv
  <2>1. CASE y # x
    <3>1. Settled(y)' = Settled(y)
      BY <1>1, <2>1 DEF Settled
    <3>2. y \notin spoilt
      BY <1>1
    <3>3. dotenv'[y] = dotenv[y]
      BY <1>1, <2>1
    <3> QED BY <1>7, <2>1, <3>1, <3>2, <3>3 DEF IInv, PairInv, Halfway
  <2>2. CASE y = x
    <3>1. CASE s.key # 0
      <4>1. saving'[w].ex = x /\ saving'[w].key = 0 /\ saving'[w].secret = s.secret
        BY <1>1, <3>1
      <4>2. Whole(dotenv'[y]) \/ dotenv'[y] = [key |-> saving'[w].secret, secret |-> 0]
        BY <1>9, <2>2, <3>1, <4>1
      <4>3. /\ \A v \in Writer \ {w} : saving'[v].ex # x
            /\ s.secret # 0 /\ s.secret # CANCEL
        BY <1>8, <2>2
      <4>4. Halfway(w, y)'
        BY <2>2, <4>1, <4>2, <4>3 DEF Halfway, Whole
      <4>5. \A v \in Writer : saving'[v].ex = y => v = w
        BY <2>2, <4>3
      <4> QED BY <2>2, <4>1, <4>4, <4>5
    <3>2. CASE s.key = 0
      BY <1>1, <1>8, <1>9, <2>2, <3>2, Constants DEF Settled
    <3> QED BY <3>1, <3>2
  <2> QED BY <2>1, <2>2
<1>11. Ungiven'
  <2> SUFFICES ASSUME NEW y \in Polled, y \notin spoilt', times[y] = 0
               PROVE  /\ dotenv'[y] = None /\ process[y] = None /\ api[y] = 0
                      /\ (\A v \in Writer : saving'[v].ex # y) /\ ~Held(y)
    BY <1>1 DEF Ungiven, Held
  <2>1. /\ dotenv[y] = None /\ process[y] = None /\ api[y] = 0
        /\ (\A v \in Writer : saving[v].ex # y) /\ ~Held(y)
    BY <1>1 DEF IInv, Ungiven
  <2>2. y # x
    BY <1>6, <2>1
  <2> QED BY <1>1, <1>7, <2>1, <2>2
<1>12. GivenOnce'
  <2> SUFFICES ASSUME NEW y \in Polled, y \notin spoilt', y \notin unsaved, times[y] = 1, api[y] # 0
               PROVE  /\ ~Held(y) /\ saving'["wizard"].ex # y /\ OnTheWay(y)'
                      /\ running => y \in fresh \/ process[y].key = api[y]
    BY <1>1 DEF GivenOnce, Held
  <2>1. /\ ~Held(y) /\ saving["wizard"].ex # y /\ OnTheWay(y)
        /\ running => y \in fresh \/ process[y].key = api[y]
    BY <1>1 DEF IInv, GivenOnce
  <2>2. CASE y # x
    <3>1. dotenv'[y] = dotenv[y] /\ api' = api /\ saving'["wizard"].ex # y
      BY <1>1, <1>7, <2>1, <2>2, Constants
    <3>2. saving["dashboard"].ex = y => saving'["dashboard"] = saving["dashboard"]
      BY <1>7, <2>2, Constants
    <3> QED BY <2>1, <3>1, <3>2 DEF OnTheWay
  <2>3. CASE y = x
    <3>1. w = "dashboard" /\ saving'["wizard"].ex # y
      BY <1>1, <1>6, <2>1, <2>3, Constants
    <3>2. CASE dotenv[y].key = api[y]
      <4>1. dotenv'[y].key = api[y]
        BY <1>2, <2>3, <3>2
      <4> QED BY <1>1, <2>1, <3>1, <4>1 DEF OnTheWay
    <3>3. CASE dotenv[y] = None /\ saving["dashboard"] = [ex |-> y, key |-> api[y], secret |-> api[y]]
      <4>1. s.key = api[y] /\ dotenv[y].key = 0
        BY <3>1, <3>3 DEF s, None
      <4>2. dotenv'[y].key = api[y]
        BY <1>2, <2>3, <4>1
      <4> QED BY <1>1, <2>1, <3>1, <4>2 DEF OnTheWay
    <3> QED BY <2>1, <3>2, <3>3 DEF OnTheWay
  <2> QED BY <2>2, <2>3
<1> QED BY <1>4, <1>5, <1>10, <1>11, <1>12 DEF IInv

-----------------------------------------------------------------------------
(* The dashboard. *)

LEMMA Given ==
  ASSUME Types, NEW x \in Exchange, Give(x)
  PROVE  /\ given' \in Nat \ {0} /\ given' # 0 /\ given' # CANCEL /\ given' \in Int
         /\ times' \in [Exchange -> Nat] /\ times'[x] = times[x] + 1 /\ times[x] \in Nat
         /\ \A y \in Exchange \ {x} : times'[y] = times[y]
         /\ fresh' = fresh \cup {x}
BY Constants DEF Give, Types

\* Whatever becomes of the write, config.json has the keys that it had, or
\* those of the configuration, or none.
LEMMA FiledKeys ==
  ASSUME IInv, ConfigSaved \/ ConfigLost, NEW x \in Exchange, api' \in [Exchange -> Nat]
  PROVE  filed' \in [Exchange -> Nat] /\ filed'[x] \in {0, filed[x], api'[x]}
<1>1. NoKeys \in [Exchange -> Nat] /\ NoKeys[x] = 0 /\ filed \in [Exchange -> Nat]
  BY DEF NoKeys, IInv, Types
<1> QED BY <1>1 DEF ConfigSaved, ConfigLost

\* A pair is given for x, or none, and the configuration is saved.
LEMMA FiledStep ==
  ASSUME IInv, ConfigSaved \/ ConfigLost, api' \in [Exchange -> Nat],
         \A x \in Exchange : times'[x] = times[x] + 1 \/ (times'[x] = times[x] /\ api'[x] = api[x])
  PROVE  filed' \in [Exchange -> Nat] /\ FiledInv'
<1>1. filed' \in [Exchange -> Nat]
  BY FiledKeys, Constants DEF Exchange
<1>2. ASSUME NEW x \in Exchange
      PROVE  /\ times'[x] = 0 => api'[x] = 0 /\ filed'[x] = 0
             /\ times'[x] = 1 => filed'[x] \in {0, api'[x]}
  <2>1. filed'[x] \in {0, filed[x], api'[x]} /\ times[x] \in Nat
    BY FiledKeys DEF IInv, Types
  <2>2. /\ times[x] = 0 => api[x] = 0 /\ filed[x] = 0
        /\ times[x] = 1 => filed[x] \in {0, api[x]}
    BY DEF IInv, FiledInv
  <2>3. CASE times'[x] = times[x] + 1
    BY <2>1, <2>2, <2>3
  <2>4. CASE times'[x] = times[x] /\ api'[x] = api[x]
    BY <2>1, <2>2, <2>4
  <2> QED BY <2>3, <2>4
<1> QED BY <1>1, <1>2 DEF FiledInv

LEMMA UpdateApiKeysStep ==
  ASSUME IInv, NEW x \in Exchange, UpdateApiKeys(x)
  PROVE  IInv'
<1> DEFINE k == given + 1
<1>1. /\ running /\ saving["dashboard"] = Quiet /\ Give(x) /\ given' = k
      /\ api' = [api EXCEPT ![x] = k] /\ StartAppend("dashboard", x, k, k)
      /\ UNCHANGED <<running, talk, dotenv, process, unsaved>>
      /\ ConfigSaved \/ ConfigLost
  BY DEF UpdateApiKeys, conversation, Give, SaveConfig
<1>2. /\ k \in Nat \ {0} /\ k # 0 /\ k # CANCEL /\ k \in Int
      /\ times' \in [Exchange -> Nat] /\ times'[x] = times[x] + 1 /\ times[x] \in Nat
      /\ \A y \in Exchange \ {x} : times'[y] = times[y]
      /\ fresh' = fresh \cup {x}
  BY <1>1, Given DEF IInv
<1> HIDE DEF k
<1>3. /\ spoilt \subseteq spoilt'
      /\ saving' \in [Writer -> {Quiet} \cup Job]
      /\ saving'["wizard"] = saving["wizard"]
      /\ x \notin Polled => saving' = saving
      /\ x \in Polled => /\ saving'["dashboard"] = [ex |-> x, key |-> k, secret |-> k]
                         /\ saving["wizard"].ex = x => x \in spoilt'
  BY <1>1, <1>2, Started, Constants DEF IInv
<1>4. api' \in [Exchange -> Nat] /\ api'[x] = k /\ \A y \in Exchange \ {x} : api'[y] = api[y]
  BY <1>1, <1>2 DEF IInv, Types
<1>5. Types' /\ TalkInv' /\ QuietInv' /\ FiledInv'
  <2>1. filed' \in [Exchange -> Nat] /\ FiledInv'
    <3>1. \A y \in Exchange : times'[y] = times[y] + 1 \/ (times'[y] = times[y] /\ api'[y] = api[y])
      BY <1>2, <1>4
    <3> QED BY <1>1, <1>4, <3>1, FiledStep
  <2> QED BY <1>1, <1>2, <1>3, <1>4, <2>1 DEF IInv, Types, TalkInv, QuietInv
<1>6. PairInv' /\ WholePairs'
  BY <1>1, <1>2, StartedPairs, Constants
<1>7. \A y \in Polled \ {x} : /\ times'[y] = times[y] /\ api'[y] = api[y] /\ (y \in fresh => y \in fresh')
                              /\ saving'["dashboard"].ex # y /\ saving["dashboard"].ex # y
  BY <1>1, <1>2, <1>3, <1>4, Constants
<1>8. Ungiven'
  <2> SUFFICES ASSUME NEW y \in Polled, y \notin spoilt', times'[y] = 0
               PROVE  /\ dotenv[y] = None /\ process[y] = None /\ api'[y] = 0
                      /\ (\A v \in Writer : saving'[v].ex # y) /\ ~Held(y)
    BY <1>1 DEF Ungiven, Held
  <2>1. y # x
    BY <1>2
  <2>2. times[y] = 0 /\ y \notin spoilt /\ api'[y] = api[y]
    BY <1>3, <1>7, <2>1
  <2> QED BY <1>3, <1>7, <2>1, <2>2, Constants DEF IInv, Ungiven
<1>9. GivenOnce'
  <2> SUFFICES ASSUME NEW y \in Polled, y \notin spoilt', y \notin unsaved, times'[y] = 1, api'[y] # 0
               PROVE  /\ ~Held(y) /\ saving'["wizard"].ex # y /\ OnTheWay(y)'
                      /\ running => y \in fresh' \/ process[y].key = api'[y]
    BY <1>1 DEF GivenOnce, Held
  <2>1. CASE y # x
    <3>1. times[y] = 1 /\ y \notin spoilt /\ api'[y] = api[y]
      BY <1>3, <1>7, <2>1
    <3>2. /\ ~Held(y) /\ saving["wizard"].ex # y /\ OnTheWay(y)
          /\ running => y \in fresh \/ process[y].key = api[y]
      BY <2>1, <3>1, <1>7 DEF IInv, GivenOnce
    <3>3. dotenv[y].key = api[y]
      BY <1>7, <2>1, <3>2 DEF OnTheWay
    <3> QED BY <1>1, <1>3, <1>7, <2>1, <3>1, <3>2, <3>3 DEF OnTheWay
  <2>2. CASE y = x
    <3>1. times[y] = 0 /\ y \notin spoilt
      BY <1>2, <1>3, <2>2
    <3>2. dotenv[y] = None /\ saving["wizard"].ex # y /\ ~Held(y)
      BY <3>1, Constants DEF IInv, Ungiven
    <3>3. OnTheWay(y)'
      BY <1>1, <1>3, <1>4, <2>2, <3>2 DEF OnTheWay
    <3> QED BY <1>2, <1>3, <2>2, <3>2, <3>3
  <2> QED BY <2>1, <2>2
<1> QED BY <1>5, <1>6, <1>8, <1>9 DEF IInv

\* config.json is written, and nothing else changes about keys.
LEMMA Resaved ==
  ASSUME IInv, ConfigSaved \/ ConfigLost,
         UNCHANGED <<running, talk, dotenv, process, saving, spoilt, given, times, fresh, api, unsaved>>
  PROVE  IInv'
<1>1. filed' \in [Exchange -> Nat] /\ FiledInv'
  <2>1. api' \in [Exchange -> Nat] /\ \A x \in Exchange : times'[x] = times[x] /\ api'[x] = api[x]
    BY DEF IInv, Types
  <2> QED BY <2>1, FiledStep
<1>2. Types' /\ TalkInv' /\ QuietInv'
  BY <1>1 DEF IInv, Types, TalkInv, QuietInv
<1>3. PairInv' /\ WholePairs' /\ Ungiven' /\ GivenOnce'
  BY DEF IInv, PairInv, Ungiven, GivenOnce, WholePairs, Settled, Halfway, Held, OnTheWay, Valid, Pair
<1> QED BY <1>1, <1>2, <1>3 DEF IInv

LEMMA OtherCommandStep ==
  ASSUME IInv, OtherCommand
  PROVE  IInv'
<1>1. /\ UNCHANGED <<running, talk, dotenv, process, saving, spoilt, given, times, fresh, api, unsaved>>
      /\ ConfigSaved \/ ConfigLost
  BY DEF OtherCommand, SaveConfig, conversation
<1> QED BY <1>1, Resaved

LEMMA UpdateSecretsStep ==
  ASSUME IInv, NEW x \in Exchange, UpdateSecrets(x)
  PROVE  IInv'
<1>1. UNCHANGED <<running, talk, dotenv, process, saving, spoilt>> /\ (ConfigSaved \/ ConfigLost)
  BY DEF UpdateSecrets, SaveConfig
<1>2. CASE UNCHANGED <<given, times, fresh, api, unsaved>>
  BY <1>1, <1>2, Resaved
<1>3. CASE Give(x) /\ api' = [api EXCEPT ![x] = given'] /\ unsaved' = unsaved \cup {x}
  <2>1. /\ given' \in Nat \ {0}
        /\ times' \in [Exchange -> Nat] /\ times'[x] = times[x] + 1 /\ times[x] \in Nat
        /\ \A y \in Exchange \ {x} : times'[y] = times[y]
        /\ fresh' = fresh \cup {x}
    BY <1>3, Given DEF IInv
  <2>2. api' \in [Exchange -> Nat] /\ \A y \in Exchange \ {x} : api'[y] = api[y]
    BY <1>3, <2>1 DEF IInv, Types
  <2>3. Types' /\ TalkInv' /\ QuietInv' /\ FiledInv'
    <3>1. filed' \in [Exchange -> Nat] /\ FiledInv'
      <4>1. \A y \in Exchange : times'[y] = times[y] + 1 \/ (times'[y] = times[y] /\ api'[y] = api[y])
        BY <2>1, <2>2
      <4> QED BY <1>1, <2>2, <4>1, FiledStep
    <3> QED BY <1>1, <2>1, <2>2, <3>1 DEF IInv, Types, TalkInv, QuietInv
  <2>4. PairInv' /\ WholePairs'
    BY <1>1 DEF IInv, PairInv, WholePairs, Settled, Halfway, Valid, Pair
  <2>5. Ungiven'
    <3> SUFFICES ASSUME NEW y \in Polled, y \notin spoilt, times'[y] = 0
                 PROVE  /\ dotenv[y] = None /\ process[y] = None /\ api'[y] = 0
                        /\ (\A v \in Writer : saving[v].ex # y) /\ ~Held(y)
      BY <1>1 DEF Ungiven, Held
    <3>1. y # x
      BY <2>1
    <3> QED BY <2>1, <2>2, <3>1, Constants DEF IInv, Ungiven
  <2>6. GivenOnce'
    <3> SUFFICES ASSUME NEW y \in Polled, y \notin spoilt, y \notin unsaved', times'[y] = 1, api'[y] # 0
                 PROVE  /\ ~Held(y) /\ saving["wizard"].ex # y /\ OnTheWay(y)'
                        /\ running => y \in fresh' \/ process[y].key = api'[y]
      BY <1>1 DEF GivenOnce, Held
    <3>1. y # x /\ y \notin unsaved
      BY <1>3
    <3>2. times[y] = 1 /\ api'[y] = api[y] /\ (y \in fresh => y \in fresh')
      BY <2>1, <2>2, <3>1, Constants
    <3> QED BY <1>1, <3>1, <3>2 DEF IInv, GivenOnce, OnTheWay
  <2> QED BY <2>3, <2>4, <2>5, <2>6 DEF IInv
<1> QED BY <1>2, <1>3 DEF UpdateSecrets

-----------------------------------------------------------------------------
(* The conversation. *)

\* A chat goes to a state, and nothing else about credentials changes.
LEMMA SayStep ==
  ASSUME IInv, NEW c \in Chat, NEW state \in States, Says(c, state),
         state.at = "secret" => state.key = CANCEL,
         UNCHANGED <<running, keys>>
  PROVE  IInv'
<1>1. /\ talk' \in [Chat -> States] /\ talk'[c] = state
      /\ \A d \in Chat \ {c} : talk'[d] = talk[d]
  BY DEF Says, IInv, Types
<1>2. Types' /\ TalkInv' /\ QuietInv' /\ FiledInv'
  BY <1>1, Constants DEF IInv, Types, TalkInv, QuietInv, FiledInv, keys
<1>3. PairInv' /\ WholePairs'
  BY DEF IInv, PairInv, WholePairs, Settled, Halfway, Valid, Pair, keys
<1>4. \A y \in Polled : Held(y)' => Held(y)
  BY <1>1 DEF Held
<1>5. Ungiven' /\ GivenOnce'
  BY <1>4 DEF IInv, Ungiven, GivenOnce, OnTheWay, keys
<1> QED BY <1>2, <1>3, <1>5 DEF IInv

\* What is said or saved to secrets.json without a key.
LEMMA Unsaid ==
  ASSUME IInv, UNCHANGED <<running, talk, keys>>
  PROVE  IInv'
BY DEF IInv, FiledInv, Types, TalkInv, QuietInv, PairInv, Ungiven, GivenOnce, WholePairs, Settled,
       Halfway, Held, OnTheWay, Valid, Pair, keys

LEMMA TalkSteps ==
  ASSUME IInv, NEW c \in Chat, Command(c) \/ Password(c) \/ Selection(c)
  PROVE  IInv'
<1>1. UNCHANGED <<running, keys>>
  BY DEF Command, Password, Selection
<1>2. CASE Says(c, Idle) \/ Says(c, [at |-> "password"]) \/ Says(c, [at |-> "exchange"])
  BY <1>1, <1>2, SayStep DEF States, Idle
<1>3. ASSUME NEW x \in Exchange, Says(c, [at |-> "key", ex |-> x]) PROVE IInv'
  <2>1. [at |-> "key", ex |-> x] \in States
    BY DEF States
  <2> QED BY <1>1, <1>3, <2>1, SayStep
<1> QED BY <1>2, <1>3 DEF Command, Password, Selection

LEMMA KeyStep ==
  ASSUME IInv, NEW c \in Chat, Key(c)
  PROVE  IInv'
<1> DEFINE x == talk[c].ex
<1>1. talk[c].at = "key" /\ UNCHANGED <<running, dotenv, process, api, filed, saving, unsaved, spoilt>>
  BY DEF Key
<1>2. x \in Exchange
  <2>1. talk[c] \in States
    BY DEF IInv, Types
  <2> QED BY <1>1, <2>1 DEF States, Idle
<1>3. CASE Says(c, [at |-> "secret", ex |-> x, key |-> CANCEL]) /\ UNCHANGED <<given, times, fresh>>
  <2>1. [at |-> "secret", ex |-> x, key |-> CANCEL] \in States
    BY <1>2, Constants DEF States
  <2> QED BY <1>1, <1>3, <2>1, SayStep DEF keys
<1>4. CASE Give(x) /\ Says(c, [at |-> "secret", ex |-> x, key |-> given'])
  <2>1. /\ given' \in Nat \ {0} /\ given' # 0 /\ given' \in Int
        /\ times' \in [Exchange -> Nat] /\ times'[x] = times[x] + 1 /\ times[x] \in Nat
        /\ \A y \in Exchange \ {x} : times'[y] = times[y]
        /\ fresh' = fresh \cup {x}
    BY <1>2, <1>4, Given DEF IInv
  <2> DEFINE k == given'
  <2> HIDE DEF k
  <2>2. [at |-> "secret", ex |-> x, key |-> given'] \in States
    BY <1>2, <2>1 DEF States
  <2>3. /\ talk' \in [Chat -> States] /\ talk'[c] = [at |-> "secret", ex |-> x, key |-> given']
        /\ \A d \in Chat \ {c} : talk'[d] = talk[d]
    BY <1>4, <2>2 DEF Says, IInv, Types
  <2> HIDE DEF x
  <2>4. Types' /\ TalkInv' /\ QuietInv' /\ FiledInv'
    <3>1. Types' /\ TalkInv' /\ QuietInv'
      BY <1>1, <2>1, <2>3 DEF IInv, Types, TalkInv, QuietInv
    <3>2. FiledInv'
      <4> SUFFICES ASSUME NEW y \in Exchange
                   PROVE  /\ times'[y] = 0 => api[y] = 0 /\ filed[y] = 0
                          /\ times'[y] = 1 => filed[y] \in {0, api[y]}
        BY <1>1 DEF FiledInv
      <4>1. /\ times[y] = 0 => api[y] = 0 /\ filed[y] = 0
            /\ times[y] = 1 => filed[y] \in {0, api[y]}
        BY DEF IInv, FiledInv
      <4>2. CASE y = x
        BY <2>1, <4>1, <4>2
      <4>3. CASE y # x
        BY <2>1, <4>1, <4>3
      <4> QED BY <4>2, <4>3
    <3> QED BY <3>1, <3>2
  <2>5. PairInv' /\ WholePairs'
    BY <1>1 DEF IInv, PairInv, WholePairs, Settled, Halfway, Valid, Pair
  <2>6. \A y \in Polled \ {x} : (Held(y)' => Held(y)) /\ times'[y] = times[y]
    BY <2>1, <2>3, Constants DEF Held
  <2>7. Ungiven'
    <3> SUFFICES ASSUME NEW y \in Polled, y \notin spoilt, times'[y] = 0
                 PROVE  /\ dotenv[y] = None /\ process[y] = None /\ api[y] = 0
                        /\ (\A v \in Writer : saving[v].ex # y) /\ ~Held(y)'
      BY <1>1 DEF Ungiven
    <3>1. y # x
      BY <2>1
    <3> QED BY <2>6, <3>1 DEF IInv, Ungiven
  <2>8. GivenOnce'
    <3> SUFFICES ASSUME NEW y \in Polled, y \notin spoilt, y \notin unsaved, times'[y] = 1, api[y] # 0
                 PROVE  /\ ~Held(y)' /\ saving["wizard"].ex # y /\ OnTheWay(y)
                        /\ running => y \in fresh' \/ process[y].key = api[y]
      BY <1>1 DEF GivenOnce, OnTheWay
    <3>1. y # x
      BY <2>1 DEF IInv, Ungiven
    <3> QED BY <2>1, <2>6, <3>1 DEF IInv, GivenOnce
  <2> QED BY <2>4, <2>5, <2>7, <2>8 DEF IInv
<1> QED BY <1>3, <1>4 DEF Key

LEMMA SecretStep ==
  ASSUME IInv, NEW c \in Chat, Secret(c)
  PROVE  IInv'
<1> DEFINE x == talk[c].ex
<1> DEFINE key == talk[c].key
<1>1. /\ talk[c].at = "secret" /\ saving["wizard"] = Quiet /\ Says(c, Idle)
      /\ UNCHANGED <<running, dotenv, process, api, filed, given, times, fresh, unsaved>>
  BY DEF Secret, Listening
<1>2. PICK secret \in {key, CANCEL} : StartAppend("wizard", x, key, secret)
  BY DEF Secret
<1>3. x \in Exchange /\ key \in Int /\ key # 0 /\ secret \in Int
  <2>1. talk[c] \in States
    BY DEF IInv, Types
  <2> QED BY <1>1, <2>1, Constants DEF States, Idle, IInv, TalkInv
<1>4. /\ spoilt \subseteq spoilt'
      /\ saving' \in [Writer -> {Quiet} \cup Job]
      /\ saving'["dashboard"] = saving["dashboard"]
      /\ x \notin Polled => saving' = saving
      /\ x \in Polled => /\ saving'["wizard"].ex = x
                         /\ CANCEL \in {key, secret} => x \in spoilt'
  <2> HIDE DEF x, key
  <2>1. Types /\ "wizard" \in Writer /\ "dashboard" \in Writer \ {"wizard"}
    BY Constants DEF IInv
  <2>2. x \in Polled => saving'["wizard"] = [ex |-> x, key |-> key, secret |-> secret]
    BY <1>1, <1>2, <1>3, <2>1, Started
  <2> QED BY <1>1, <1>2, <1>3, <2>1, <2>2, Started
<1>5. /\ talk' \in [Chat -> States] /\ talk'[c] = Idle
      /\ \A d \in Chat \ {c} : talk'[d] = talk[d]
  BY <1>1 DEF Says, IInv, Types, States
<1>6. PairInv' /\ WholePairs'
  BY <1>1, <1>2, <1>3, StartedPairs, Constants
<1>7. /\ \A y \in Polled : Held(y)' => Held(y)
      /\ x \in Polled /\ x \notin spoilt' => Held(x)
  <2>1. \A y \in Polled : Held(y)' => Held(y)
    BY <1>5 DEF Held, Idle
  <2> QED BY <1>1, <1>4, <2>1 DEF Held
<1> HIDE DEF x, key
<1>8. Types' /\ TalkInv' /\ QuietInv' /\ FiledInv'
  <2>1. TalkInv' /\ FiledInv'
    BY <1>1, <1>5 DEF IInv, TalkInv, FiledInv, Idle
  <2> QED BY <1>1, <1>4, <1>5, <2>1 DEF IInv, Types, QuietInv, Secret, Listening
<1>9. Ungiven'
  <2> SUFFICES ASSUME NEW y \in Polled, y \notin spoilt', times[y] = 0
               PROVE  /\ dotenv[y] = None /\ process[y] = None /\ api[y] = 0
                      /\ (\A v \in Writer : saving'[v].ex # y) /\ ~Held(y)'
    BY <1>1 DEF Ungiven
  <2>1. /\ dotenv[y] = None /\ process[y] = None /\ api[y] = 0
        /\ (\A v \in Writer : saving[v].ex # y) /\ ~Held(y)
    BY <1>4 DEF IInv, Ungiven
  <2>2. x # y
    BY <1>7, <2>1
  <2> QED BY <1>4, <1>7, <2>1, <2>2, Constants
<1>10. GivenOnce'
  <2> SUFFICES ASSUME NEW y \in Polled, y \notin spoilt', y \notin unsaved, times[y] = 1, api[y] # 0
               PROVE  /\ ~Held(y)' /\ saving'["wizard"].ex # y /\ OnTheWay(y)'
                      /\ running => y \in fresh \/ process[y].key = api[y]
    BY <1>1 DEF GivenOnce
  <2>1. /\ ~Held(y) /\ saving["wizard"].ex # y /\ OnTheWay(y)
        /\ running => y \in fresh \/ process[y].key = api[y]
    BY <1>4 DEF IInv, GivenOnce
  <2>2. x # y
    BY <1>7, <2>1
  <2> QED BY <1>1, <1>4, <1>7, <2>1, <2>2 DEF OnTheWay
<1> QED BY <1>6, <1>8, <1>9, <1>10 DEF IInv

-----------------------------------------------------------------------------
(* The process. *)

LEMMA RestartStep ==
  ASSUME IInv, Restart
  PROVE  IInv'
<1>1. /\ running /\ running' = FALSE /\ talk' = [c \in Chat |-> Idle]
      /\ spoilt' = spoilt \cup ({saving[w].ex : w \in Writer} \cap Polled)
      /\ saving' = [w \in Writer |-> Quiet]
      /\ UNCHANGED <<dotenv, process, api, filed, given, times, fresh, unsaved>>
  BY DEF Restart
<1>2. \A y \in Polled \ spoilt' : y \notin spoilt /\ \A w \in Writer : saving[w].ex # y
  BY <1>1
<1>3. /\ \A w \in Writer : saving'[w] = Quiet /\ saving'[w].ex \notin Polled
      /\ \A c \in Chat : talk'[c] = Idle /\ Idle.at # "secret"
  BY <1>1, Constants DEF Idle
<1>4. Types' /\ FiledInv'
  BY <1>1 DEF IInv, Types, FiledInv, States
<1>5. TalkInv' /\ QuietInv'
  BY <1>3 DEF TalkInv, QuietInv
<1>6. PairInv' /\ WholePairs'
  BY <1>1, <1>2, <1>3 DEF IInv, PairInv, WholePairs, Settled, Valid, Pair
<1>7. Ungiven'
  BY <1>1, <1>2, <1>3 DEF IInv, Ungiven, Held
<1>8. GivenOnce'
  <2> SUFFICES ASSUME NEW y \in Polled, y \notin spoilt', y \notin unsaved, times[y] = 1, api[y] # 0
               PROVE  ~Held(y)' /\ saving'["wizard"].ex # y /\ OnTheWay(y)'
    BY <1>1 DEF GivenOnce
  <2>1. OnTheWay(y) /\ saving["dashboard"].ex # y
    BY <1>2, Constants DEF IInv, GivenOnce
  <2> QED BY <1>1, <1>3, <2>1, Constants DEF OnTheWay, Held
<1> QED BY <1>4, <1>5, <1>6, <1>7, <1>8 DEF IInv

LEMMA StartStep ==
  ASSUME IInv, Start
  PROVE  IInv'
<1>1. /\ ~running /\ running' = TRUE /\ process' = dotenv /\ api' = filed
      /\ UNCHANGED <<talk, dotenv, filed, saving, given, times, unsaved, spoilt>>
  BY DEF Start
<1>2. \A w \in Writer : saving[w] = Quiet /\ saving[w].ex \notin Polled
  BY <1>1, Constants DEF IInv, QuietInv
<1>3. \A y \in Polled \ spoilt : Settled(y)
  BY <1>2 DEF IInv, PairInv
<1>4. WholePairs'
  BY <1>1, <1>3 DEF WholePairs, Settled, Valid, Pair, Whole
<1>5. Types' /\ TalkInv' /\ QuietInv' /\ PairInv' /\ FiledInv'
  BY <1>1 DEF IInv, Types, TalkInv, QuietInv, PairInv, FiledInv, Settled, Halfway
<1>6. Ungiven'
  BY <1>1, Constants DEF IInv, Ungiven, FiledInv, Held
<1>7. GivenOnce'
  <2> SUFFICES ASSUME NEW y \in Polled, y \notin spoilt, y \notin unsaved, times[y] = 1, filed[y] # 0
               PROVE  /\ ~Held(y) /\ saving["wizard"].ex # y /\ dotenv[y].key = filed[y]
    BY <1>1 DEF GivenOnce, Held, OnTheWay
  <2> api[y] = filed[y]
    BY Constants DEF IInv, FiledInv
  <2>1. ~Held(y) /\ OnTheWay(y)
    BY DEF IInv, GivenOnce
  <2>2. saving["dashboard"].ex # y /\ saving["wizard"].ex # y
    BY <1>2, Constants
  <2> QED BY <2>1, <2>2 DEF OnTheWay
<1> QED BY <1>4, <1>5, <1>6, <1>7 DEF IInv

LEMMA InitStep ==
  ASSUME Init
  PROVE  IInv
<1> DEFINE One == [key |-> 1, secret |-> 1]
<1>1. /\ running /\ talk = [c \in Chat |-> Idle] /\ given = 1 /\ filed = [x \in Exchange |-> 0]
      /\ dotenv = [x \in Polled |-> IF x \in bound.inEnv THEN One ELSE None]
      /\ process = dotenv /\ api = [x \in Exchange |-> 0]
      /\ saving = [w \in Writer |-> Quiet]
      /\ times = [x \in Exchange |-> IF x \in bound.inEnv THEN 1 ELSE 0]
  BY DEF Init, NoKeys
<1>2. One \in Pairs /\ Whole(One) /\ 1 # CANCEL
  BY Constants DEF Pairs, Whole
<1>3. running = TRUE
  BY DEF Init
<1>4. /\ \A w \in Writer : saving[w] = Quiet /\ saving[w].ex \notin Polled
      /\ \A c \in Chat : talk[c] = Idle /\ Idle.at # "secret"
  BY <1>1, Constants DEF Idle
<1>5. \A x \in Polled : dotenv[x] = One \/ dotenv[x] = None
  BY <1>1
<1>6. Types
  BY <1>1, <1>2, <1>3, Constants DEF Types, States
<1>7. TalkInv /\ QuietInv /\ FiledInv
  BY <1>1, <1>4 DEF TalkInv, QuietInv, FiledInv
<1>8. PairInv
  BY <1>2, <1>4, <1>5 DEF PairInv, Settled
<1>9. WholePairs
  BY <1>1, <1>2, <1>5 DEF WholePairs, Valid, Pair
<1>10. Ungiven /\ GivenOnce
  BY <1>1, <1>4, Constants DEF Ungiven, GivenOnce, Held
<1> QED BY <1>6, <1>7, <1>8, <1>9, <1>10 DEF IInv

-----------------------------------------------------------------------------
(* The theorems. *)

\* The scenario stays what it was.
LEMMA ScenarioKept == Spec => [](bound \in Scenarios)
<1>1. Init => bound \in Scenarios
  BY DEF Init
<1>2. bound \in Scenarios /\ [Next]_vars => (bound \in Scenarios)'
  BY DEF Next, vars, WriteLine, UpdateApiKeys, UpdateSecrets, OtherCommand, Command, Password, Selection,
         Key, Secret, Poll, Fetched, Advise, Follow, Arrive, Restart, Start, LoggedIn, NoLogin, SaveConfig,
         Fault, NoFault
<1> QED BY <1>1, <1>2, PTL DEF Spec

LEMMA ChatsAre ==
  ASSUME bound \in Scenarios
  PROVE  bound.chats \subseteq Chat
BY ConsoleAssumption DEF ConsoleAssumption

\* What the theorems below rest on: where each given key may be.
THEOREM Inductive == Spec => []IInv
<1>1. IInv /\ bound \in Scenarios /\ [Next]_vars => IInv'
  <2> SUFFICES ASSUME IInv, bound \in Scenarios, [Next]_vars PROVE IInv'
    OBVIOUS
  <2>1. CASE Poll \/ Advise \/ Follow \/ Arrive \/ UNCHANGED vars
    <3>1. UNCHANGED <<running, talk, keys>>
      BY <2>1 DEF Poll, Fetched, Advise, Follow, Arrive, vars, conversation
    <3> QED BY <3>1, Unsaid
  <2>2. bound.chats \subseteq Chat
    BY ChatsAre
  <2> QED BY <2>1, <2>2, WriteStep, UpdateApiKeysStep, UpdateSecretsStep, OtherCommandStep, TalkSteps, KeyStep,
             SecretStep, RestartStep, StartStep DEF Next
<1> QED BY <1>1, InitStep, ScenarioKept, PTL DEF Spec

\* After a restart the account that is traded is the account that is polled,
\* if it was given one pair (UpdateApiKeys writes .env and the configuration;
\* orders use the one, the poller the other).
THEOREM SameAccount == Spec => []TradedIsPolled
<1>1. IInv => TradedIsPolled
  <2> SUFFICES ASSUME IInv, running, NEW x \in Polled, x \notin fresh \cup unsaved \cup spoilt,
                      times[x] <= 1, api[x] # 0
               PROVE  api[x] = process[x].key
    BY DEF TradedIsPolled, Traded
  <2>1. times[x] \in Nat
    BY Constants DEF IInv, Types
  <2>2. times[x] = 1
    BY <2>1 DEF IInv, Ungiven
  <2> QED BY <2>2 DEF IInv, GivenOnce
<1> QED BY <1>1, Inductive, PTL

\* Of the two writers of secrets.json, only the later one's values last, if
\* its write succeeds: after a restart a login is forgotten only when the
\* dashboard saved secrets after it or a write failed or was cut short, and a
\* token of the dashboard only when a login followed it or a write failed
\* (SecretsConfig::save and load, whose errors nobody sees).
THEOREM LastWriter == Spec => []OneWriterWins
<1> DEFINE Copies == OneWriterWins /\ (stored.owner # login => latest # "login")
<1>1. Init => Copies
  BY DEF Init, OneWriterWins
<1>2. Copies /\ [Next]_vars => Copies'
  <2> SUFFICES ASSUME Copies, [Next]_vars PROVE Copies'
    OBVIOUS
  <2>1. ASSUME NEW x \in Exchange, UpdateSecrets(x) PROVE Copies'
    <3>1. /\ UNCHANGED <<running, owner, login>>
          /\ \/ stored'.token = tokens' /\ latest' = "dashboard"
             \/ latest' = "error"
      BY <2>1 DEF UpdateSecrets, SecretsSaved, SecretsLost
    <3> QED BY <3>1 DEF OneWriterWins
  <2>2. ASSUME NEW c, LoggedIn(c), UNCHANGED <<running, tokens>> PROVE Copies'
    <3>1. /\ owner' = c /\ login' = c
          /\ \/ stored'.owner = c /\ latest' = "login"
             \/ latest' = "error"
      BY <2>2 DEF LoggedIn, SecretsSaved, SecretsLost
    <3> QED BY <2>2, <3>1 DEF OneWriterWins
  <2>3. ASSUME UNCHANGED <<running, owner, stored, login, latest, tokens>> PROVE Copies'
    BY <2>3 DEF OneWriterWins
  <2>4. ASSUME NEW c, Command(c) \/ Password(c) PROVE Copies'
    <3>1. UNCHANGED <<running, tokens>> /\ (LoggedIn(c) \/ UNCHANGED <<owner, stored, login, latest>>)
      BY <2>4 DEF Command, Password, NoLogin
    <3> QED BY <2>2, <2>3, <3>1
  <2>5. CASE Restart \/ Start
    BY <2>5 DEF Restart, Start, OneWriterWins
  <2>6. CASE \/ \E w \in Writer : WriteLine(w)
             \/ \E x \in Exchange : UpdateApiKeys(x)
             \/ \E c \in bound.chats : Selection(c) \/ Key(c) \/ Secret(c)
             \/ OtherCommand \/ Poll \/ Advise \/ Follow \/ Arrive \/ UNCHANGED vars
    <3>1. UNCHANGED <<running, owner, stored, login, latest, tokens>>
      BY <2>6 DEF WriteLine, UpdateApiKeys, OtherCommand, Selection, Key, Secret, Poll, Fetched, Advise,
                  Follow, Arrive, vars, conversation
    <3> QED BY <2>3, <3>1
  <2> QED BY <2>1, <2>4, <2>5, <2>6 DEF Next
<1> QED BY <1>1, <1>2, PTL DEF Spec

-----------------------------------------------------------------------------
(* The advice for a snapshot. *)

Account == [equity : Nat, available : Nat, counted : BOOLEAN, deposits : BOOLEAN, withdrawals : BOOLEAN]
Accounts(s) == IsFiniteSet(DOMAIN s) /\ \A x \in DOMAIN s : s[x] \in Account

\* What may be advised for the margin of r.
Margin(s, r) == [why : {"margin"}, from : DOMAIN s, to : {r}, amount : Nat]
Got(s, r) == [missing : Int, advice : SUBSET Margin(s, r)]

LEMMA MinOfTwo ==
  ASSUME NEW a \in Int, NEW b \in Int
  PROVE  Min({a, b}) \in {a, b} /\ Min({a, b}) <= a /\ Min({a, b}) <= b
<1>1. \E x \in {a, b} : \A y \in {a, b} : x <= y
  <2>1. CASE a <= b
    BY <2>1
  <2>2. CASE b <= a
    BY <2>2
  <2> QED BY <2>1, <2>2
<1>2. Min({a, b}) \in {a, b} /\ \A y \in {a, b} : Min({a, b}) <= y
  BY <1>1 DEF Min
<1> QED BY <1>2

LEMMA OneIsLast ==
  ASSUME NEW s, Accounts(s), NEW D, D \subseteq DOMAIN s, D # {}
  PROVE  LastAsked(s, D) \in D
<1> DEFINE T == {s[d].available : d \in D}
<1>1. T \subseteq Nat /\ T # {}
  BY DEF Accounts, Account
<1>2. Min(T) \in T /\ \A t \in T : Min(T) <= t
  BY <1>1, Minimum
<1>3. PICK d \in D : s[d].available = Min(T)
  BY <1>2
<1>4. \A e \in D : s[d].available <= s[e].available
  BY <1>2, <1>3
<1> QED BY <1>4 DEF LastAsked

LEMMA AskedAdds ==
  ASSUME NEW s, Accounts(s), NEW r, NEW d \in DOMAIN s, NEW got \in Got(s, r)
  PROVE  Asked(s, r, d, got) \in Got(s, r)
<1> DEFINE amount == Min({got.missing, s[d].available - BUFFER})
<1>1. got.missing \in Int /\ s[d].available - BUFFER \in Int
  BY DEF Got, Accounts, Account, BUFFER
<1>2. amount \in Int
  BY <1>1, MinOfTwo
<1>3. Asked(s, r, d, got)
      = IF got.missing > 0 /\ amount >= MIN_TRANSFER
        THEN [missing |-> got.missing - amount,
              advice |-> got.advice \cup {[why |-> "margin", from |-> d, to |-> r, amount |-> amount]}]
        ELSE got
  BY DEF Asked
<1> HIDE DEF amount
<1>4. CASE got.missing > 0 /\ amount >= MIN_TRANSFER
  <2>1. amount \in Nat /\ got.missing - amount \in Int
    BY <1>1, <1>2, <1>4 DEF MIN_TRANSFER
  <2>2. [why |-> "margin", from |-> d, to |-> r, amount |-> amount] \in Margin(s, r)
    BY <2>1 DEF Margin
  <2> QED BY <1>3, <1>4, <2>1, <2>2 DEF Got
<1>5. CASE ~(got.missing > 0 /\ amount >= MIN_TRANSFER)
  BY <1>3, <1>5
<1> QED BY <1>4, <1>5

\* What is promised to r is for its margin, from accounts of the snapshot.
LEMMA PromisesAre ==
  ASSUME NEW s, Accounts(s), NEW r \in DOMAIN s
  PROVE  Promised(s, r) \subseteq Margin(s, r)
<1> DEFINE D == Donors(s)
           base == [missing |-> Required(s[r]), advice |-> {}]
           E(h) == h = [q \in SUBSET D |-> IF q = {} THEN base
                                           ELSE Asked(s, r, LastAsked(s, q), h[q \ {LastAsked(s, q)}])]
           H == CHOOSE h : E(h)
           c == [q \in SUBSET D |-> LastAsked(s, q)]
           T == Got(s, r)
<1>1. D \subseteq DOMAIN s /\ IsFiniteSet(D)
  BY FS_Subset DEF Donors, Accounts
<1>2. base \in T
  <2>1. Required(s[r]) \in Int
    BY DEF Required, Accounts, Account, TARGET
  <2> QED BY <2>1 DEF Got
<1>3. Promised(s, r) = H[D].advice
  BY DEF Promised, MapThenFoldSet
<1> HIDE DEF D, base
<1>4. Chooses(c, D)
  BY <1>1, OneIsLast DEF Chooses
<1>5. \E h : E(h)
  <2> DEFINE F == [p \in T \X D |-> Asked(s, r, p[2], p[1])]
  <2>1. F \in [T \X D -> T]
    BY <1>1, AskedAdds
  <2>2. PICK h \in [SUBSET D -> T] : Folded(h, D, c, base, F)
    <3> HIDE DEF F, c, T, Folded
    <3> QED BY <1>1, <1>2, <1>4, <2>1, FoldExists
  <2>3. ASSUME NEW q \in SUBSET D, q # {}
        PROVE  F[<<h[q \ {c[q]}], c[q]>>] = Asked(s, r, LastAsked(s, q), h[q \ {LastAsked(s, q)}])
    <3>1. c[q] = LastAsked(s, q) /\ c[q] \in D /\ h[q \ {c[q]}] \in T
      BY <1>4, <2>3 DEF Chooses
    <3> HIDE DEF c, T
    <3> QED BY <3>1
  <2>4. h = [q \in SUBSET D |-> IF q = {} THEN base ELSE F[<<h[q \ {c[q]}], c[q]>>]]
    BY <2>2 DEF Folded
  <2> HIDE DEF F, c
  <2>5. E(h)
    BY <2>3, <2>4
  <2> QED BY <2>5
<1> HIDE DEF E
<1>6. E(H)
  BY <1>5
<1> HIDE DEF H
<1>7. H \in [SUBSET D -> T]
  <2> DEFINE V == T \cup {H[q] : q \in SUBSET D}
             F == [p \in V \X D |-> Asked(s, r, p[2], p[1])]
  <2>1. H = [q \in SUBSET D |-> IF q = {} THEN base
                                ELSE Asked(s, r, LastAsked(s, q), H[q \ {LastAsked(s, q)}])]
    BY <1>6 DEF E
  <2>2. ASSUME NEW q \in SUBSET D, q # {}
        PROVE  F[<<H[q \ {c[q]}], c[q]>>] = Asked(s, r, LastAsked(s, q), H[q \ {LastAsked(s, q)}])
    <3>1. c[q] = LastAsked(s, q) /\ c[q] \in D /\ H[q \ {c[q]}] \in V
      BY <1>4, <2>2 DEF Chooses
    <3> HIDE DEF c, V
    <3> QED BY <3>1
  <2>3. \A t \in T, d \in D : F[<<t, d>>] \in T
    BY <1>1, AskedAdds
  <2> HIDE DEF F, c
  <2>4. Folded(H, D, c, base, F)
    BY <2>1, <2>2 DEF Folded
  <2> HIDE DEF T
  <2> QED BY <1>1, <1>2, <1>4, <2>3, <2>4, FoldTyped
<1>8. H[D] \in T
  <2> HIDE DEF T
  <2> QED BY <1>7
<1> QED BY <1>3, <1>8 DEF Got

\* Whatever is advised is an amount of an account of the snapshot, for the
\* margin of another or for its own concentration.
LEMMA AdviceIs ==
  ASSUME NEW s, Accounts(s), NEW a \in Advice(s)
  PROVE  /\ a.from \in DOMAIN s /\ (a.to \in DOMAIN s \/ a.to = "Binance")
         /\ \/ a.why = "margin" /\ a.amount \in Nat
            \/ /\ a.why = "concentration" /\ a.amount = Surplus(s, a.from)
               /\ Surplus(s, a.from) >= MIN_CONCENTRATION
<1>1. CASE \E r \in Recipients(s) : a \in Promised(s, r)
  <2>1. PICK r \in DOMAIN s : a \in Promised(s, r)
    BY <1>1 DEF Recipients
  <2>2. a \in Margin(s, r)
    BY <2>1, PromisesAre
  <2> QED BY <2>2 DEF Margin
<1>2. CASE a \in Concentrated(s)
  BY <1>2 DEF Concentrated
<1>3. Total(s) # 0 /\ a \in (UNION {Promised(s, r) : r \in Recipients(s)}) \cup Concentrated(s)
  BY DEF Advice
<1>4. (\E r \in Recipients(s) : a \in Promised(s, r)) \/ a \in Concentrated(s)
  BY <1>3
<1> QED BY <1>1, <1>2, <1>4


-----------------------------------------------------------------------------
(* The money. *)

\* The money is there: in an account, more than is locked of it, or on its way
\* to one; and until the operator acts the snapshot shows no more than there is.
Sound(e) == e \in [Polled -> Nat] /\ \A x \in Polled : funds.locked[x] <= e[x]
Money ==
  /\ bound \in Scenarios
  /\ funds \in [equity : [Polled -> Nat], locked : [Polled -> Nat]] /\ Sound(funds.equity)
  /\ transit = Arrived \/ transit \in [to : Polled, amount : Nat]
  /\ All = bound.funds.equity["Binance"] + bound.funds.equity["Bybit"]
  /\ Accounts(snapshot) /\ DOMAIN snapshot \subseteq Polled
  /\ acted \in BOOLEAN
  /\ ~acted => \A x \in DOMAIN snapshot : snapshot[x].equity <= funds.equity[x]

LEMMA PolledFacts ==
  /\ IsFiniteSet(Polled) /\ "Binance" \in Polled /\ "Bybit" \in Polled /\ "Binance" # "Bybit"
  /\ \A x \in Polled : x = "Binance" \/ x = "Bybit"
<1>1. IsFiniteSet({"Binance"} \cup {"Bybit"})
  BY FS_Singleton, FS_Union
<1>2. Polled = {"Binance"} \cup {"Bybit"}
  BY DEF Polled
<1> QED BY <1>1, <1>2

LEMMA MoneyFacts ==
  ASSUME Money
  PROVE  /\ funds.equity \in [Polled -> Nat] /\ funds.locked \in [Polled -> Nat]
         /\ \A x \in Polled : funds.equity[x] \in Nat /\ funds.locked[x] \in Nat
                              /\ funds.locked[x] <= funds.equity[x] /\ Free(x) \in Nat
         /\ transit.amount \in Nat /\ (transit # Arrived => transit.to \in Polled)
         /\ Total(snapshot) \in Nat
<1>1. /\ funds.equity \in [Polled -> Nat] /\ funds.locked \in [Polled -> Nat]
      /\ \A x \in Polled : funds.locked[x] <= funds.equity[x]
  BY DEF Money, Sound
<1>2. \A x \in Polled : funds.equity[x] \in Nat /\ funds.locked[x] \in Nat
  BY <1>1
<1>3. \A x \in Polled : Free(x) \in Nat
  BY <1>1, <1>2 DEF Free
<1>4. transit.amount \in Nat /\ (transit # Arrived => transit.to \in Polled)
  BY DEF Money, Arrived
<1>5. Total(snapshot) \in Nat
  <2> DEFINE f == [x \in DOMAIN snapshot |-> snapshot[x].equity]
  <2>1. DOMAIN f = DOMAIN snapshot /\ IsFiniteSet(DOMAIN snapshot) /\ \A x \in DOMAIN snapshot : f[x] \in Nat
    BY DEF Money, Accounts, Account
  <2>2. Total(snapshot) = SumFunctionOnSet(f, DOMAIN snapshot)
    BY <2>1 DEF Total, SumFunction
  <2> HIDE DEF f
  <2> QED BY <2>1, <2>2, SumOver
<1> QED BY <1>1, <1>2, <1>3, <1>4, <1>5

\* What the operator moves leaves one account, for another.
LEMMA Moves ==
  ASSUME Money, Follow
  PROVE  \E a \in advice \cap Advice(snapshot) :
           /\ a.from \in DOMAIN snapshot /\ a.from \in Polled /\ a.to \in Polled
           /\ a.amount \in Nat /\ a.amount <= Free(a.from)
           /\ a.why = "margin" \/ Surplus(snapshot, a.from) >= MIN_CONCENTRATION
           /\ funds'.locked = funds.locked /\ DOMAIN funds' = {"equity", "locked"}
           /\ funds'.equity = [funds.equity EXCEPT ![a.from] = @ - a.amount]
           /\ transit' = [to |-> a.to, amount |-> a.amount] /\ transit = Arrived
<1>1. PICK a \in advice \cap Advice(snapshot) :
        /\ a.amount <= Free(a.from)
        /\ funds' = [funds EXCEPT !.equity[a.from] = @ - a.amount]
        /\ transit' = [to |-> a.to, amount |-> a.amount]
  BY DEF Follow
<1>2. /\ a.from \in DOMAIN snapshot /\ a.to \in Polled /\ a.from \in Polled
      /\ a.why = "margin" \/ Surplus(snapshot, a.from) >= MIN_CONCENTRATION
  BY <1>1, AdviceIs, PolledFacts DEF Money
<1>3. a.amount \in Nat
  <2>1. CASE a.why = "margin" /\ a.amount \in Nat
    BY <2>1
  <2>2. CASE a.amount = Surplus(snapshot, a.from) /\ Surplus(snapshot, a.from) >= MIN_CONCENTRATION
    <3>1. snapshot[a.from].equity \in Nat
      BY <1>2 DEF Money, Accounts, Account
    <3>2. Surplus(snapshot, a.from) \in Int
      BY <3>1, MoneyFacts DEF Surplus, CONCENTRATION
    <3> QED BY <2>2, <3>2 DEF MIN_CONCENTRATION
  <2> QED BY <1>1, <2>1, <2>2, AdviceIs DEF Money
<1>4. /\ funds'.locked = funds.locked /\ DOMAIN funds' = {"equity", "locked"}
      /\ funds'.equity = [funds.equity EXCEPT ![a.from] = @ - a.amount]
  <2>1. funds \in [equity : [Polled -> Nat], locked : [Polled -> Nat]]
    BY DEF Money
  <2> QED BY <1>1, <2>1
<1>5. transit = Arrived
  BY DEF Follow
<1> QED BY <1>1, <1>2, <1>3, <1>4, <1>5

\* Both accounts and what is on its way, before and after.
LEMMA FollowKeepsMoney ==
  ASSUME Money, Follow
  PROVE  Money'
<1>1. PICK a \in advice \cap Advice(snapshot) :
           /\ a.from \in Polled /\ a.to \in Polled
           /\ a.amount \in Nat /\ a.amount <= Free(a.from)
           /\ funds'.locked = funds.locked /\ DOMAIN funds' = {"equity", "locked"}
           /\ funds'.equity = [funds.equity EXCEPT ![a.from] = @ - a.amount]
           /\ transit' = [to |-> a.to, amount |-> a.amount] /\ transit = Arrived
  BY Moves
<1>2. acted' = TRUE /\ snapshot' = snapshot /\ bound' = bound
  BY DEF Follow
<1>3. /\ \A x \in Polled \ {a.from} : funds'.equity[x] = funds.equity[x]
      /\ funds'.equity[a.from] = funds.equity[a.from] - a.amount
  BY <1>1, MoneyFacts
<1>4. a.amount <= funds.equity[a.from] - funds.locked[a.from]
  BY <1>1 DEF Free
<1>5. ASSUME NEW x \in Polled
      PROVE  funds'.equity[x] \in Nat /\ funds.locked[x] <= funds'.equity[x]
  <2>1. /\ funds.equity[x] \in Nat /\ funds.locked[x] \in Nat /\ funds.locked[x] <= funds.equity[x]
    BY MoneyFacts
  <2>2. CASE x = a.from
    BY <1>1, <1>3, <1>4, <2>1, <2>2
  <2>3. CASE x # a.from
    BY <1>3, <2>1, <2>3
  <2> QED BY <2>2, <2>3
<1>6. funds'.equity \in [Polled -> Nat]
  <2>1. DOMAIN funds'.equity = Polled /\ funds'.equity = [x \in Polled |-> funds'.equity[x]]
    BY <1>1, MoneyFacts
  <2> QED BY <1>5, <2>1
<1>7. funds' \in [equity : [Polled -> Nat], locked : [Polled -> Nat]] /\ Sound(funds.equity)'
  <2>1. funds' = [equity |-> funds'.equity, locked |-> funds'.locked]
    BY <1>1, MoneyFacts DEF Follow, Money
  <2>2. funds'.locked \in [Polled -> Nat]
    BY <1>1, MoneyFacts
  <2> QED BY <1>1, <1>5, <1>6, <2>1, <2>2 DEF Sound
<1>8. All' = All
  <2>1. transit.amount = 0 /\ transit'.amount = a.amount
    BY <1>1 DEF Arrived
  <2>2. /\ funds.equity["Binance"] \in Nat /\ funds.equity["Bybit"] \in Nat
        /\ funds'.equity["Binance"] \in Nat /\ funds'.equity["Bybit"] \in Nat
    BY <1>5, MoneyFacts, PolledFacts
  <2>3. CASE a.from = "Binance"
    BY <1>1, <1>3, <2>1, <2>2, <2>3, PolledFacts DEF All
  <2>4. CASE a.from = "Bybit"
    BY <1>1, <1>3, <2>1, <2>2, <2>4, PolledFacts DEF All
  <2> QED BY <1>1, <2>3, <2>4, PolledFacts
<1>9. transit' \in [to : Polled, amount : Nat]
  BY <1>1
<1> QED BY <1>2, <1>7, <1>8, <1>9 DEF Money, Accounts

LEMMA ArriveKeepsMoney ==
  ASSUME Money, Arrive
  PROVE  Money'
<1> DEFINE to == transit.to
           amount == transit.amount
<1>1. /\ snapshot' = snapshot /\ bound' = bound /\ transit' = Arrived
      /\ acted' = (acted \/ bound.patient)
      /\ funds' = [funds EXCEPT !.equity[to] = @ + amount]
  BY DEF Arrive
<1>2. to \in Polled /\ amount \in Nat
  BY MoneyFacts DEF Arrive
<1>3. funds \in [equity : [Polled -> Nat], locked : [Polled -> Nat]]
  BY DEF Money
<1> HIDE DEF to, amount
<1>4. /\ funds'.locked = funds.locked /\ funds' = [equity |-> funds'.equity, locked |-> funds.locked]
      /\ funds'.equity = [funds.equity EXCEPT ![to] = @ + amount]
  BY <1>1, <1>3
<1>5. /\ \A x \in Polled \ {to} : funds'.equity[x] = funds.equity[x]
      /\ funds'.equity[to] = funds.equity[to] + amount
  BY <1>2, <1>4, MoneyFacts
<1>6. ASSUME NEW x \in Polled
      PROVE  /\ funds'.equity[x] \in Nat /\ funds.locked[x] <= funds'.equity[x]
             /\ funds.equity[x] <= funds'.equity[x]
  <2>1. /\ funds.equity[x] \in Nat /\ funds.locked[x] \in Nat /\ funds.locked[x] <= funds.equity[x]
    BY MoneyFacts
  <2>2. CASE x = to
    BY <1>2, <1>5, <2>1, <2>2
  <2>3. CASE x # to
    BY <1>5, <2>1, <2>3
  <2> QED BY <2>2, <2>3
<1>7. funds'.equity \in [Polled -> Nat]
  <2>1. DOMAIN funds'.equity = Polled /\ funds'.equity = [x \in Polled |-> funds'.equity[x]]
    BY <1>4, MoneyFacts
  <2> QED BY <1>6, <2>1
<1>8. funds' \in [equity : [Polled -> Nat], locked : [Polled -> Nat]] /\ Sound(funds.equity)'
  BY <1>4, <1>6, <1>7, MoneyFacts DEF Sound
<1>9. All' = All
  <2>1. amount = transit.amount /\ transit'.amount = 0
    BY <1>1 DEF Arrived, amount
  <2>2. /\ funds.equity["Binance"] \in Nat /\ funds.equity["Bybit"] \in Nat
        /\ funds'.equity["Binance"] \in Nat /\ funds'.equity["Bybit"] \in Nat
    BY <1>6, MoneyFacts, PolledFacts
  <2>3. CASE to = "Binance"
    BY <1>2, <1>5, <2>1, <2>2, <2>3, PolledFacts DEF All
  <2>4. CASE to = "Bybit"
    BY <1>2, <1>5, <2>1, <2>2, <2>4, PolledFacts DEF All
  <2> QED BY <1>2, <2>3, <2>4, PolledFacts
<1>10. acted' \in BOOLEAN /\ (~acted' => ~acted)
  BY <1>1 DEF Money
<1>11. ASSUME ~acted', NEW x \in DOMAIN snapshot PROVE snapshot[x].equity <= funds'.equity[x]
  <2>1. /\ x \in Polled /\ snapshot[x].equity \in Nat /\ snapshot[x].equity <= funds.equity[x]
    BY <1>10, <1>11 DEF Money, Accounts, Account
  <2>2. funds.equity[x] \in Nat
    BY <2>1, MoneyFacts
  <2> QED BY <1>6, <2>1, <2>2
<1> QED BY <1>1, <1>8, <1>9, <1>10, <1>11 DEF Money, Accounts

\* An answer shows no more than there is.
LEMMA Replies ==
  ASSUME Money, NEW x \in Polled, NEW r \in Reply(x)
  PROVE  r \in Account /\ r.equity <= funds.equity[x]
<1>1. funds.equity[x] \in Nat /\ Free(x) \in Nat
  BY MoneyFacts
<1>2. \A a \in Amounts(x) : a.equity \in Nat /\ a.available \in Nat /\ a.equity <= funds.equity[x]
  BY <1>1 DEF Amounts, Empty
<1>3. \A gap, fixed : fixed \in BOOLEAN => Flag(x, gap, fixed) \subseteq BOOLEAN
  BY DEF Flag
<1>4. r \in Reply(x)
  OBVIOUS
<1>5. PICK a \in Amounts(x) :
        r \in [equity : {a.equity}, available : {a.available}, counted : Flag(x, "positions", FALSE),
              deposits : Flag(x, "deposits", TRUE), withdrawals : Flag(x, "withdrawals", TRUE)]
  BY <1>4 DEF Reply
<1>6. r \in [equity : {a.equity}, available : {a.available}, counted : BOOLEAN, deposits : BOOLEAN,
            withdrawals : BOOLEAN]
  BY <1>3, <1>5
<1> QED BY <1>2, <1>6 DEF Account

LEMMA PollKeepsMoney ==
  ASSUME Money, Poll
  PROVE  Money'
<1>1. PICK answered \in SUBSET bound.answers, b \in Reply("Binance"), y \in Reply("Bybit") :
        Fetched(answered, b, y)
  BY DEF Poll
<1>2. /\ funds' = funds /\ transit' = transit /\ acted' = FALSE /\ bound' = bound
      /\ snapshot' = Answers(b, y, answered)
  BY <1>1 DEF Fetched
<1>3. answered \subseteq Polled
  BY ConsoleAssumption DEF Money, ConsoleAssumption
<1>4. /\ b \in Account /\ b.equity <= funds.equity["Binance"]
      /\ y \in Account /\ y.equity <= funds.equity["Bybit"]
  BY Replies, PolledFacts
<1>5. /\ DOMAIN snapshot' = answered
      /\ \A x \in answered : snapshot'[x] \in Account /\ snapshot'[x].equity <= funds.equity[x]
  BY <1>2, <1>3, <1>4, PolledFacts DEF Answers
<1>6. IsFiniteSet(answered)
  BY <1>3, PolledFacts, FS_Subset
<1> QED BY <1>2, <1>3, <1>5, <1>6 DEF Money, Accounts, All, Sound

LEMMA StepKeepsMoney ==
  ASSUME Money, [Next]_vars
  PROVE  Money'
<1>1. ASSUME UNCHANGED <<funds, transit, snapshot, acted, bound>> PROVE Money'
  BY <1>1 DEF Money, Accounts, All, Sound
<1>2. ASSUME NEW w \in Writer, WriteLine(w) PROVE Money'
  BY <1>1, <1>2 DEF WriteLine, money, Fault, NoFault
<1>3. ASSUME NEW x \in Exchange, UpdateApiKeys(x) \/ UpdateSecrets(x) \/ OtherCommand PROVE Money'
  BY <1>1, <1>3 DEF UpdateApiKeys, UpdateSecrets, OtherCommand, SaveConfig, money, Fault, NoFault
<1>4. ASSUME NEW c, Command(c) \/ Password(c) \/ Selection(c) \/ Key(c) \/ Secret(c)
      PROVE  Money'
  BY <1>1, <1>4 DEF Command, Password, Selection, Key, Secret, LoggedIn, NoLogin, money, Fault, NoFault
<1>5. CASE Advise \/ Start \/ UNCHANGED vars
  BY <1>1, <1>5 DEF Advise, Start, vars, money
<1>6. CASE Restart
  <2>1. funds' = funds /\ transit' = transit /\ bound' = bound /\ snapshot' = << >> /\ acted' = FALSE
    BY <1>6 DEF Restart, Fault
  <2>2. DOMAIN snapshot' = {} /\ IsFiniteSet({})
    BY <2>1, FS_EmptySet
  <2> QED BY <2>1, <2>2 DEF Money, Accounts, All, Sound
<1>7. "Binance" \in Exchange
  BY DEF Exchange
<1> QED BY <1>2, <1>3, <1>4, <1>5, <1>6, <1>7, PollKeepsMoney, FollowKeepsMoney, ArriveKeepsMoney DEF Next

LEMMA InitMoney == ASSUME Init PROVE Money
<1>1. /\ bound \in Scenarios /\ funds = bound.funds /\ transit = Arrived /\ snapshot = << >> /\ acted = FALSE
  BY DEF Init
<1>2. DOMAIN snapshot = {} /\ IsFiniteSet({})
  BY <1>1, FS_EmptySet
<1>3. /\ funds \in [equity : [Polled -> Nat], locked : [Polled -> Nat]]
      /\ \A x \in Polled : funds.locked[x] <= funds.equity[x]
  BY <1>1, ConsoleAssumption DEF ConsoleAssumption
<1>4. Sound(funds.equity)
  BY <1>3 DEF Sound
<1>5. All = bound.funds.equity["Binance"] + bound.funds.equity["Bybit"]
  <2>1. funds.equity["Binance"] \in Nat /\ funds.equity["Bybit"] \in Nat /\ transit.amount = 0
    BY <1>1, <1>3, PolledFacts DEF Arrived
  <2> QED BY <1>1, <2>1 DEF All
<1> QED BY <1>1, <1>2, <1>3, <1>4, <1>5 DEF Money, Accounts

LEMMA MoneyKept == Spec => []Money
<1>1. Init => Money
  BY InitMoney
<1>2. Money /\ [Next]_vars => Money'
  BY StepKeepsMoney
<1> QED BY <1>1, <1>2, PTL DEF Spec

\* Money is moved off an exchange because of its concentration only when most
\* of all the money was there, or the snapshot did not show all of it: an
\* account was missing or read as empty, or a transfer was on its way
\* (RebalanceAdvisor::check on what fetch_private_data last replaced).
THEOREM CauseOfMoves == Spec => MovedForCause
<1>1. ASSUME Money, [Next]_vars, NEW x \in Polled, funds'.equity[x] < funds.equity[x]
      PROVE  \/ \E a \in advice : a.from = x /\ a.why = "margin"
             \/ 10 * funds.equity[x] > CONCENTRATION * All
             \/ Total(snapshot) # All
  <2>1. funds.equity[x] \in Nat
    BY MoneyFacts, <1>1
  <2>2. funds' # funds
    BY <1>1, <2>1
  <2>3. Follow
    <3>1. ASSUME NEW w \in Writer, WriteLine(w) PROVE FALSE
      BY <2>2, <3>1 DEF WriteLine, money
    <3>2. ASSUME NEW e \in Exchange, UpdateApiKeys(e) \/ UpdateSecrets(e) PROVE FALSE
      BY <2>2, <3>2 DEF UpdateApiKeys, UpdateSecrets, money
    <3>3. ASSUME NEW c, Command(c) \/ Password(c) \/ Selection(c) \/ Key(c) \/ Secret(c)
          PROVE  FALSE
      BY <2>2, <3>3 DEF Command, Password, Selection, Key, Secret, money
    <3>4. CASE OtherCommand \/ Poll \/ Advise \/ Restart \/ Start \/ UNCHANGED vars
      BY <2>2, <3>4 DEF OtherCommand, Poll, Fetched, Advise, Restart, Start, vars, money
    <3>5. CASE Arrive
      <4>1. transit.to \in Polled /\ transit.amount \in Nat
        BY <1>1, <3>5, MoneyFacts DEF Arrive
      <4>2. funds \in [equity : [Polled -> Nat], locked : [Polled -> Nat]]
        BY <1>1 DEF Money
      <4>3. funds' = [funds EXCEPT !.equity[transit.to] = @ + transit.amount]
        BY <3>5 DEF Arrive
      <4>4. funds'.equity[x] = funds.equity[x] \/ funds'.equity[x] = funds.equity[x] + transit.amount
        BY <4>1, <4>2, <4>3
      <4> QED BY <1>1, <2>1, <4>1, <4>4
    <3> QED BY <1>1, <3>1, <3>2, <3>3, <3>4, <3>5 DEF Next
  <2>4. PICK a \in advice \cap Advice(snapshot) :
           /\ a.from \in DOMAIN snapshot /\ a.from \in Polled
           /\ a.why = "margin" \/ Surplus(snapshot, a.from) >= MIN_CONCENTRATION
           /\ funds'.equity = [funds.equity EXCEPT ![a.from] = @ - a.amount]
    BY <1>1, <2>3, Moves
  <2>5. a.from = x
    <3>1. CASE x # a.from
      <4>1. funds'.equity[x] = funds.equity[x]
        BY <1>1, <2>4, <3>1, MoneyFacts
      <4> QED BY <1>1, <2>1, <4>1
    <3> QED BY <3>1
  <2>6. CASE a.why = "margin"
    BY <2>4, <2>5, <2>6
  <2>7. CASE Surplus(snapshot, x) >= MIN_CONCENTRATION /\ Total(snapshot) = All
    <3>1. ~acted
      BY <2>3 DEF Follow
    <3>2. snapshot[x].equity \in Nat /\ snapshot[x].equity <= funds.equity[x]
      BY <1>1, <2>4, <2>5, <3>1 DEF Money, Accounts, Account
    <3>3. All \in Nat
      BY <1>1, <2>7, MoneyFacts
    <3>4. (10 * snapshot[x].equity - CONCENTRATION * All) \div 10 >= 100
      BY <2>7 DEF Surplus, MIN_CONCENTRATION
    <3> QED BY <2>1, <3>2, <3>3, <3>4 DEF CONCENTRATION
  <2> QED BY <2>4, <2>5, <2>6, <2>7
<1>2. Money /\ [Next]_vars
      => \A x \in Polled :
           funds'.equity[x] < funds.equity[x]
           => \/ \E a \in advice : a.from = x /\ a.why = "margin"
              \/ 10 * funds.equity[x] > CONCENTRATION * All
              \/ Total(snapshot) # All
  BY <1>1
<1> QED BY <1>2, MoneyKept, PTL DEF Spec, MovedForCause


-----------------------------------------------------------------------------
(* The bounds. *)

Number == -1..given   \* what stands for a key or a secret: none, /cancel, or a pair's
Cred == [key : Number, secret : Number]

Limits ==
  /\ bound \in Scenarios /\ given \in 1..bound.given
  /\ tokens \in 0..bound.tokens /\ token \in 0..tokens
  /\ owner \in Chat \cup {NOBODY} /\ stored \in [owner : Chat \cup {NOBODY}, token : 0..tokens]
  /\ dotenv \in [Polled -> Cred] /\ process \in [Polled -> Cred]
  /\ api \in [Exchange -> 0..given] /\ filed \in [Exchange -> 0..given]
  /\ \A w \in Writer : saving[w].key \in Number /\ saving[w].secret \in Number
  /\ \A c \in Chat : talk[c].at = "secret" => talk[c].key \in Number

\* A pair more leaves what was in its bounds there.
LEMMA MoreNumbers ==
  ASSUME given \in Nat, given' \in Nat, given <= given'
  PROVE  Number \subseteq Number' /\ Cred \subseteq Cred' /\ 0..given \subseteq 0..given'
         /\ given' \in Number' /\ 0 \in Number' /\ CANCEL \in Number'
<1>1. Number \subseteq Number' /\ 0..given \subseteq 0..given' /\ given' \in Number' /\ 0 \in Number'
      /\ CANCEL \in Number'
  BY DEF Number, CANCEL
<1>2. Cred \subseteq Cred'
  BY <1>1 DEF Cred
<1> QED BY <1>1, <1>2

LEMMA GivenLimits ==
  ASSUME Limits, NEW x \in Exchange, Give(x), bound' = bound
  PROVE  /\ given \in Nat /\ given' \in Nat /\ given <= given' /\ given' \in 1..bound'.given
<1>1. bound.given \in Nat
  BY ConsoleAssumption DEF Limits, ConsoleAssumption
<1> QED BY <1>1 DEF Limits, Give

\* Lines to append are within the bounds if what they hold is.
LEMMA StartedLimits ==
  ASSUME IInv, Limits, NEW w \in Writer, NEW x \in Exchange, NEW key, NEW secret,
         StartAppend(w, x, key, secret), key \in Number', secret \in Number',
         Number \subseteq Number'
  PROVE  \A v \in Writer : saving'[v].key \in Number' /\ saving'[v].secret \in Number'
<1>1. saving' = saving \/ saving' = [saving EXCEPT ![w] = [ex |-> x, key |-> key, secret |-> secret]]
  BY DEF StartAppend
<1>2. DOMAIN saving = Writer
  BY DEF IInv, Types
<1>3. ASSUME NEW v \in Writer
      PROVE  saving'[v] = saving[v] \/ saving'[v] = [ex |-> x, key |-> key, secret |-> secret]
  BY <1>1, <1>2
<1> QED BY <1>3 DEF Limits

\* So do the keys of config.json, whatever becomes of the write.
LEMMA FiledLimits ==
  ASSUME Limits, ConfigSaved \/ ConfigLost, given' \in Nat, 0..given \subseteq 0..given',
         api' \in [Exchange -> 0..given']
  PROVE  filed' \in [Exchange -> 0..given']
<1>1. NoKeys \in [Exchange -> 0..given']
  BY DEF NoKeys
<1> QED BY <1>1 DEF ConfigSaved, ConfigLost, Limits

\* And the secrets of a write that was lost.
LEMMA StoredLimits ==
  ASSUME Limits, SecretsLost
  PROVE  stored' \in [owner : Chat \cup {NOBODY}, token : 0..tokens]
<1>1. 0 \in 0..tokens
  BY DEF Limits
<1> QED BY <1>1 DEF SecretsLost, NoSecrets, Limits

LEMMA WriteKeepsLimits ==
  ASSUME IInv, Limits, NEW w \in Writer, WriteLine(w)
  PROVE  Limits'
<1> DEFINE s == saving[w]
<1>1. /\ bound' = bound /\ given' = given
      /\ UNCHANGED <<tokens, token, owner, stored, process, api, filed, talk>>
  BY DEF WriteLine, conversation, Fault, NoFault
<1>2. s \in Job /\ s.ex \in Polled /\ s.key \in Number /\ s.secret \in Number /\ given \in Nat
  BY JobNotQuiet DEF WriteLine, IInv, Limits, Job, Types
<1>3. s["key"] = s.key /\ s["secret"] = s.secret
  OBVIOUS
<1>4. \/ dotenv' = dotenv
      \/ \E var \in {"key", "secret"} : \E n \in Number : dotenv' = [dotenv EXCEPT ![s.ex][var] = n]
  BY <1>2, <1>3 DEF WriteLine, Declare
<1>5. Number' = Number /\ Cred' = Cred /\ 0 \in Number
  BY <1>1, <1>2 DEF Number, Cred
<1>6. dotenv' \in [Polled -> Cred]
  <2>1. CASE dotenv' = dotenv
    BY <2>1 DEF Limits
  <2>2. ASSUME NEW n \in Number, dotenv' = [dotenv EXCEPT ![s.ex]["key"] = n]
        PROVE  dotenv' \in [Polled -> Cred]
    BY <1>2, <2>2 DEF Limits, Cred
  <2>3. ASSUME NEW n \in Number, dotenv' = [dotenv EXCEPT ![s.ex]["secret"] = n]
        PROVE  dotenv' \in [Polled -> Cred]
    BY <1>2, <2>3 DEF Limits, Cred
  <2> QED BY <1>4, <2>1, <2>2, <2>3
<1>7. \A v \in Writer : saving'[v].key \in Number /\ saving'[v].secret \in Number
  <2>1. \/ saving' = [saving EXCEPT ![w] = [s EXCEPT !.key = 0]]
        \/ saving' = [saving EXCEPT ![w] = Quiet]
    BY DEF WriteLine
  <2>2. saving \in [Writer -> {Quiet} \cup Job]
    BY DEF IInv, Types
  <2>3. [s EXCEPT !.key = 0].key = 0 /\ [s EXCEPT !.key = 0].secret = s.secret
    BY <1>2 DEF Job
  <2>4. Quiet.key = 0 /\ Quiet.secret = 0
    BY DEF Quiet
  <2>5. ASSUME NEW v \in Writer
        PROVE  saving'[v] = saving[v] \/ saving'[v] = [s EXCEPT !.key = 0] \/ saving'[v] = Quiet
    BY <2>1, <2>2
  <2> HIDE DEF s
  <2> QED BY <1>2, <1>5, <2>3, <2>4, <2>5 DEF Limits
<1> HIDE DEF s
<1> QED BY <1>1, <1>5, <1>6, <1>7 DEF Limits

LEMMA ApiKeysKeepLimits ==
  ASSUME IInv, Limits, NEW x \in Exchange, UpdateApiKeys(x)
  PROVE  Limits'
<1>1. /\ Give(x) /\ api' = [api EXCEPT ![x] = given'] /\ StartAppend("dashboard", x, given', given')
      /\ ConfigSaved \/ ConfigLost
      /\ UNCHANGED <<bound, tokens, token, owner, stored, dotenv, process, talk>>
  BY DEF UpdateApiKeys, conversation, SaveConfig, Fault, NoFault
<1>2. /\ given \in Nat /\ given' \in Nat /\ given <= given' /\ given' \in 1..bound'.given
  BY <1>1, GivenLimits
<1>3. /\ Number \subseteq Number' /\ Cred \subseteq Cred' /\ 0..given \subseteq 0..given'
      /\ given' \in Number'
  BY <1>2, MoreNumbers
<1>4. \A v \in Writer : saving'[v].key \in Number' /\ saving'[v].secret \in Number'
  BY <1>1, <1>3, StartedLimits, Constants
<1>5. api' \in [Exchange -> 0..given']
  <2>1. given' \in 0..given'
    BY <1>2
  <2> QED BY <1>1, <1>3, <2>1 DEF Limits
<1>6. dotenv' \in [Polled -> Cred'] /\ process' \in [Polled -> Cred']
  BY <1>1, <1>3 DEF Limits
<1>7. filed' \in [Exchange -> 0..given']
  BY <1>1, <1>2, <1>3, <1>5, FiledLimits
<1> QED BY <1>1, <1>2, <1>3, <1>4, <1>5, <1>6, <1>7 DEF Limits

LEMMA OtherKeepsLimits ==
  ASSUME Limits, OtherCommand
  PROVE  Limits'
<1>1. /\ UNCHANGED <<bound, given, tokens, token, owner, stored, dotenv, process, api, saving, talk>>
      /\ ConfigSaved \/ ConfigLost
  BY DEF OtherCommand, conversation, SaveConfig, Fault, NoFault
<1>2. given \in Nat
  BY ConsoleAssumption DEF Limits, ConsoleAssumption
<1>3. api' \in [Exchange -> 0..given'] /\ 0..given \subseteq 0..given' /\ given' \in Nat
  BY <1>1, <1>2 DEF Limits
<1>4. filed' \in [Exchange -> 0..given']
  BY <1>1, <1>3, FiledLimits
<1> QED BY <1>1, <1>4 DEF Limits, Number, Cred

LEMMA RecordIs ==
  ASSUME NEW A, NEW B, NEW o \in A, NEW t \in B
  PROVE  [owner |-> o, token |-> t] \in [owner : A, token : B]
OBVIOUS

LEMMA SecretsKeepLimits ==
  ASSUME IInv, Limits, NEW x \in Exchange, UpdateSecrets(x)
  PROVE  Limits'
<1>1. /\ tokens < bound.tokens /\ tokens' = tokens + 1
      /\ stored' = [owner |-> NOBODY, token |-> tokens'] \/ SecretsLost
      /\ ConfigSaved \/ ConfigLost
      /\ \/ Give(x) /\ api' = [api EXCEPT ![x] = given']
         \/ UNCHANGED <<given, api>>
      /\ UNCHANGED <<bound, token, owner, dotenv, process, talk, saving>>
  BY DEF UpdateSecrets, SecretsSaved, SaveConfig, Fault, NoFault
<1>2. bound.tokens \in Nat /\ bound.given \in Nat
  BY ConsoleAssumption DEF Limits, ConsoleAssumption
<1>3. given \in Nat /\ given' \in Nat /\ given <= given' /\ given' \in 1..bound'.given
  BY <1>1, <1>2, GivenLimits DEF Limits
<1>4. /\ Number \subseteq Number' /\ Cred \subseteq Cred' /\ 0..given \subseteq 0..given'
      /\ given' \in Number'
  BY <1>3, MoreNumbers
<1>5. tokens' \in 0..bound.tokens /\ 0..tokens \subseteq 0..tokens' /\ tokens' \in 0..tokens'
  BY <1>1, <1>2 DEF Limits
<1>6. api' \in [Exchange -> 0..given']
  <2>1. given' \in 0..given'
    BY <1>3
  <2> QED BY <1>1, <1>4, <2>1 DEF Limits
<1>7. dotenv' \in [Polled -> Cred'] /\ process' \in [Polled -> Cred']
  BY <1>1, <1>4 DEF Limits
<1>8. stored' \in [owner : Chat \cup {NOBODY}, token : 0..tokens'] /\ token' \in 0..tokens'
  <2>1. token' \in 0..tokens'
    BY <1>1, <1>5 DEF Limits
  <2>2. CASE stored' = [owner |-> NOBODY, token |-> tokens']
    <3>1. NOBODY \in Chat \cup {NOBODY} /\ tokens' \in 0..tokens'
      BY <1>5
    <3>2. stored' \in [owner : Chat \cup {NOBODY}, token : 0..tokens']
      BY <2>2, <3>1, RecordIs, Zenon
    <3> QED BY <2>1, <3>2
  <2>3. CASE SecretsLost
    <3>1. stored' \in [owner : Chat \cup {NOBODY}, token : 0..tokens]
      BY <2>3, StoredLimits
    <3>2. stored' = [owner |-> stored'.owner, token |-> stored'.token]
          /\ stored'.owner \in Chat \cup {NOBODY} /\ stored'.token \in 0..tokens
      BY <3>1, Zenon
    <3>3. stored'.token \in 0..tokens'
      BY <1>5, <3>2, Zenon
    <3>4. stored' \in [owner : Chat \cup {NOBODY}, token : 0..tokens']
      BY <3>2, <3>3, RecordIs, Zenon
    <3> QED BY <2>1, <3>4
  <2> QED BY <1>1, <2>1, <2>2, <2>3
<1>9. filed' \in [Exchange -> 0..given']
  BY <1>1, <1>3, <1>4, <1>6, FiledLimits
<1> QED BY <1>1, <1>3, <1>4, <1>5, <1>6, <1>7, <1>8, <1>9 DEF Limits

LEMMA TalkKeepsLimits ==
  ASSUME IInv, Limits, NEW c \in Chat, Command(c) \/ Password(c) \/ Selection(c) \/ Key(c) \/ Secret(c)
  PROVE  Limits'
<1>1. UNCHANGED <<bound, tokens, token, dotenv, process, api, filed>>
  BY DEF Command, Password, Selection, Key, Secret, keys, LoggedIn, NoLogin, Fault, NoFault
<1>2. owner' \in Chat \cup {NOBODY} /\ stored' \in [owner : Chat \cup {NOBODY}, token : 0..tokens]
  <2>1. UNCHANGED <<owner, stored>> \/ LoggedIn(c)
    BY DEF Command, Password, Selection, Key, Secret, NoLogin
  <2>2. CASE LoggedIn(c)
    <3>1. owner' = c /\ (stored' = [owner |-> c, token |-> token] \/ SecretsLost)
      BY <2>2 DEF LoggedIn, SecretsSaved
    <3> QED BY <3>1, StoredLimits DEF Limits
  <2> QED BY <2>1, <2>2 DEF Limits
<1>3. /\ given \in Nat /\ given' \in Nat /\ given <= given' /\ given' \in 1..bound'.given
  <2>1. given' = given \/ (Give(talk[c].ex) /\ talk[c].ex \in Exchange)
    <3>1. CASE Key(c)
      BY <3>1 DEF Key, IInv, Types, States, Idle
    <3>2. CASE Command(c) \/ Password(c) \/ Selection(c)
      BY <3>2 DEF Command, Password, Selection, keys
    <3>3. CASE Secret(c)
      BY <3>3 DEF Secret
    <3> QED BY <3>1, <3>2, <3>3
  <2>2. CASE given' = given
    <3>1. given \in 1..bound.given /\ bound.given \in Nat
      BY ConsoleAssumption DEF Limits, ConsoleAssumption
    <3> QED BY <1>1, <2>2, <3>1
  <2> QED BY <1>1, <2>1, <2>2, GivenLimits
<1>4. /\ Number \subseteq Number' /\ Cred \subseteq Cred' /\ 0..given \subseteq 0..given'
      /\ given' \in Number' /\ CANCEL \in Number'
  BY <1>3, MoreNumbers
<1>5. \A d \in Chat : talk'[d].at = "secret" => talk'[d].key \in Number'
  <2>1. ASSUME NEW state, Says(c, state),
               state.at = "secret" => state.key \in Number'
        PROVE  \A d \in Chat : talk'[d].at = "secret" => talk'[d].key \in Number'
    <3>1. \A d \in Chat : talk'[d] = talk[d] \/ talk'[d] = state
      BY <2>1 DEF IInv, Types, Says
    <3> QED BY <1>4, <2>1, <3>1 DEF Limits
  <2>2. CASE Key(c)
    <3>1. \E n \in Number' : LET state == [at |-> "secret", ex |-> talk[c].ex, key |-> n]
                              IN Says(c, state)
      BY <1>4, <2>2 DEF Key
    <3> QED BY <2>1, <3>1
  <2>3. CASE Command(c) \/ Password(c) \/ Selection(c) \/ Secret(c)
    <3>1. \/ Says(c, Idle)
          \/ Says(c, [at |-> "password"]) \/ Says(c, [at |-> "exchange"])
          \/ \E x \in Exchange : Says(c, [at |-> "key", ex |-> x])
      BY <2>3 DEF Command, Password, Selection, Secret
    <3>2. ASSUME NEW x \in Exchange, Says(c, [at |-> "key", ex |-> x])
          PROVE  \A d \in Chat : talk'[d].at = "secret" => talk'[d].key \in Number'
      BY <2>1, <3>2
    <3>3. CASE Says(c, Idle)
      BY <2>1, <3>3 DEF Idle
    <3>4. CASE Says(c, [at |-> "password"]) \/ Says(c, [at |-> "exchange"])
      BY <2>1, <3>4
    <3> QED BY <3>1, <3>2, <3>3, <3>4
  <2> QED BY <2>2, <2>3
<1>6. \A v \in Writer : saving'[v].key \in Number' /\ saving'[v].secret \in Number'
  <2>1. CASE saving' = saving
    BY <1>4, <2>1 DEF Limits
  <2>2. CASE Secret(c)
    <3>1. /\ talk[c].at = "secret" /\ talk[c].ex \in Exchange
          /\ \E secret \in {talk[c].key, CANCEL} :
               StartAppend("wizard", talk[c].ex, talk[c].key, secret)
      BY <2>2 DEF Secret, IInv, Types, States, Idle
    <3>2. talk[c].key \in Number'
      BY <1>4, <3>1 DEF Limits
    <3> QED BY <1>4, <3>1, <3>2, StartedLimits, Constants
  <2> QED BY <2>1, <2>2 DEF Command, Password, Selection, Key, keys
<1>7. /\ dotenv' \in [Polled -> Cred'] /\ process' \in [Polled -> Cred']
      /\ api' \in [Exchange -> 0..given'] /\ filed' \in [Exchange -> 0..given']
  BY <1>1, <1>4 DEF Limits
<1> QED BY <1>1, <1>2, <1>3, <1>5, <1>6, <1>7 DEF Limits

LEMMA StepKeepsLimits ==
  ASSUME IInv, Limits, [Next]_vars
  PROVE  Limits'
<1>1. CASE Poll \/ Advise \/ Follow \/ Arrive \/ UNCHANGED vars
  <2>1. UNCHANGED <<bound, given, tokens, token, owner, stored, dotenv, process, api, filed, saving, talk>>
    BY <1>1 DEF Poll, Fetched, Advise, Follow, Arrive, vars, conversation, keys
  <2> QED BY <2>1 DEF Limits, Number, Cred
<1>2. CASE Restart
  <2>1. /\ UNCHANGED <<bound, given, tokens, token, owner, stored, dotenv, process, api, filed>>
        /\ talk' = [c \in Chat |-> Idle] /\ saving' = [w \in Writer |-> Quiet]
    BY <1>2 DEF Restart, Fault
  <2>2. Number' = Number /\ Cred' = Cred /\ 0 \in Number
    BY <2>1 DEF Number, Cred, IInv, Types
  <2> QED BY <2>1, <2>2 DEF Limits, Idle, Quiet
<1>3. CASE Start
  <2>1. /\ UNCHANGED <<bound, given, tokens, stored, dotenv, filed, saving, talk>>
        /\ process' = dotenv /\ api' = filed /\ owner' = stored.owner /\ token' = stored.token
    BY <1>3 DEF Start
  <2> QED BY <2>1 DEF Limits, Number, Cred
<1>4. bound.chats \subseteq Chat
  BY ChatsAre DEF Limits
<1> QED BY <1>1, <1>2, <1>3, <1>4, WriteKeepsLimits, ApiKeysKeepLimits, SecretsKeepLimits, OtherKeepsLimits,
           TalkKeepsLimits DEF Next

LEMMA InitLimits == ASSUME Init PROVE Limits
<1>1. /\ bound \in Scenarios /\ given = 1 /\ tokens = bound.token /\ token = bound.token
      /\ owner = bound.owner /\ stored = [owner |-> owner, token |-> token]
      /\ dotenv = [x \in Polled |-> IF x \in bound.inEnv THEN [key |-> 1, secret |-> 1] ELSE None]
      /\ process = dotenv /\ api = NoKeys /\ filed = NoKeys
      /\ saving = [w \in Writer |-> Quiet] /\ talk = [c \in Chat |-> Idle]
  BY DEF Init
<1>2. /\ bound.given \in Nat \ {0} /\ bound.tokens \in Nat /\ bound.token \in 0..bound.tokens
      /\ bound.owner \in Chat \cup {NOBODY}
  BY <1>1, ConsoleAssumption DEF ConsoleAssumption
<1>3. 0 \in Number /\ 1 \in Number
  BY <1>1 DEF Number
<1>4. dotenv \in [Polled -> Cred]
  BY <1>1, <1>3 DEF Cred, None
<1>5. NoKeys \in [Exchange -> 0..given]
  BY <1>1 DEF NoKeys
<1> QED BY <1>1, <1>2, <1>3, <1>4, <1>5 DEF Limits, Quiet, Idle

LEMMA LimitsKept == Spec => []Limits
<1>1. Init => Limits
  BY InitLimits
<1>2. IInv /\ Limits /\ [Next]_vars => Limits'
  BY StepKeepsLimits
<1> QED BY <1>1, <1>2, Inductive, PTL DEF Spec

\* The variables are of their types, no exchange without names in .env is
\* appended to it, and the transfers the bot suggests neither create nor lose
\* money, nor take what is locked (TypeOK).
THEOREM TypeCorrect == Spec => []TypeOK
<1>1. IInv /\ Limits /\ Money => TypeOK
  <2> SUFFICES ASSUME IInv, Limits, Money PROVE TypeOK
    OBVIOUS
  <2>1. bound.given \in Nat /\ bound.tokens \in Nat
    BY ConsoleAssumption DEF Limits, ConsoleAssumption
  <2>2. /\ Number \subseteq -1..bound.given /\ 0..given \subseteq 0..bound.given
        /\ 0..tokens \subseteq 0..bound.tokens
    BY <2>1 DEF Limits, Number
  <2>3. Cred \subseteq Lines
    BY <2>2 DEF Cred, Lines
  <2>4. /\ dotenv \in [Polled -> Lines] /\ process \in [Polled -> Lines]
        /\ api \in [Exchange -> 0..bound.given] /\ filed \in [Exchange -> 0..bound.given]
    BY <2>2, <2>3 DEF Limits
  <2>5. /\ token \in 0..bound.tokens
        /\ stored \in [owner : Chat \cup {NOBODY}, token : 0..bound.tokens]
    BY <2>2 DEF Limits
  <2>6. \A c \in Chat : talk[c].at \in {"idle", "password", "exchange", "key", "secret"}
    BY DEF IInv, Types, States, Idle
  <2>7. \A w \in Writer : saving[w] = Quiet \/ saving[w].ex \in Polled
    BY DEF IInv, Types, Job
  <2>8. \A x \in Polled : funds.equity[x] >= funds.locked[x]
    BY MoneyFacts
  <2>9. /\ All = bound.funds.equity["Binance"] + bound.funds.equity["Bybit"]
        /\ DOMAIN snapshot \subseteq Polled /\ owner \in Chat \cup {NOBODY}
    BY DEF Money, Limits
  <2> QED BY <2>4, <2>5, <2>6, <2>7, <2>8, <2>9 DEF TypeOK
<1> QED BY <1>1, MoneyKept, LimitsKept, Inductive, PTL

=============================================================================

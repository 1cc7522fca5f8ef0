--------------------------- MODULE OperatorConsole ---------------------------
(***************************************************************************)
(* The operator's side of the bot: the Telegram conversation (notifier.rs),  *)
(* the credentials it and the dashboard save (.env, config.json and          *)
(* secrets.json), the accounts the poller fetches with them (poller.rs), and *)
(* the transfers the advisor suggests in return (Rebalance).                 *)
(*                                                                         *)
(* Pairs of credentials are numbered as they are given; 0 is none.  A number *)
(* of tokens does the same for the Telegram token.                           *)
(***************************************************************************)
EXTENDS Rebalance

CONSTANTS
  Chat,
  Scenarios
    \* What a behaviour starts from and how far it goes:
    \*   chats   who writes to the bot
    \*   inEnv   exchanges whose keys the deployment put into .env
    \*   funds   how the money lies: [equity, locked], per account
    \*   loose   whether at most 28 % of it is locked on Bybit
    \*   patient whether the operator waits for a transfer to arrive, and for
    \*           what the bot then says
    \*   answers account requests that may succeed
    \*   gaps    what the answers may lack
    \*   owner   who logged in in an earlier run, NOBODY if none did
    \*   token   1 if secrets.json holds a Telegram token
    \*   given, tokens, faults   bounds: pairs of credentials (no setup begins
    \*                           when they are used up), secrets saved by the
    \*                           dashboard, restarts and failed writes

Exchange == {"Binance", "Bybit", "Gate"}   \* those the wizard knows
Polled == {"Binance", "Bybit"}             \* those with an account request and a .env name
Writer == {"wizard", "dashboard"}
Gap == {"account", "balance", "positions", "deposits", "withdrawals"}
NOBODY == "nobody"
CANCEL == -1   \* the text /cancel, taken for a key or a secret

ASSUME ConsoleAssumption ==
  /\ NOBODY \notin Chat
  /\ \A b \in Scenarios :
       /\ b.chats \subseteq Chat /\ b.owner \in Chat \cup {NOBODY}
       /\ b.inEnv \cup b.answers \subseteq Polled /\ b.gaps \subseteq Gap
       /\ b.given \in Nat \ {0} /\ b.tokens \in Nat /\ b.token \in 0..b.tokens
       /\ LET f == b.funds
          IN /\ f \in [equity : [Polled -> Nat], locked : [Polled -> Nat]]
             /\ \A x \in Polled : f.locked[x] <= f.equity[x]
             /\ b.loose <=> 100 * f.locked["Bybit"] <= 28 * (f.equity["Binance"] + f.equity["Bybit"])

VARIABLES
  running,
  talk,     \* UserState of each chat
  owner,    \* telegram_chat_id in memory
  token,    \* telegram_token in memory
  stored,   \* secrets.json: [owner, token]
  dotenv,   \* .env: what each variable is declared as first
  process,  \* the environment of the process, read at start
  api,      \* api_keys of the configuration
  filed,    \* those of config.json
  saving,   \* an append to .env that is under way: which lines are missing
  funds,    \* the money: [equity, locked]
  transit,  \* a transfer that has not arrived
  snapshot, \* GlobalAccountState.exchange_states
  advice,   \* last_rebalance_advice
  acted,    \* the operator has acted on this snapshot, or waits for another
  truthful, \* history: the last poll showed every account as it was
  given,    \* history: pairs so far
  times,    \* history: pairs given for each exchange
  fresh,    \* history: exchanges given a pair in this run
  unsaved,  \* history: exchanges given a pair that was to go to no file of the poller's
  spoilt,   \* history: exchanges whose lines overlapped, were cut short or hold /cancel
  tokens,   \* history: secrets saved by the dashboard
  login,    \* history: who logged in last
  latest,   \* history: who wrote secrets.json last, or that a write failed since
  faults,   \* bound: restarts and failed writes
  bound     \* the scenario

conversation == <<talk, owner, token, stored, login, latest, tokens>>
keys == <<dotenv, process, api, filed, saving, given, times, fresh, unsaved, spoilt>>
money == <<funds, transit, snapshot, advice, acted, truthful>>
vars == <<running, conversation, keys, money, faults, bound>>

None == [key |-> 0, secret |-> 0]
Idle == [at |-> "idle"]
Quiet == [ex |-> "none", key |-> 0, secret |-> 0]   \* nothing to append
NoSecrets == [owner |-> NOBODY, token |-> 0]         \* SecretsConfig::default
NoKeys == [x \in Exchange |-> 0]
Arrived == [to |-> "none", amount |-> 0]             \* no transfer on its way

Init ==
  /\ bound \in Scenarios
  /\ running = TRUE
  /\ talk = [c \in Chat |-> Idle]
  /\ owner = bound.owner /\ token = bound.token /\ stored = [owner |-> owner, token |-> token]
  /\ dotenv = [x \in Polled |-> IF x \in bound.inEnv THEN [key |-> 1, secret |-> 1] ELSE None]
  /\ process = dotenv
  /\ api = NoKeys /\ filed = NoKeys
  /\ saving = [w \in Writer |-> Quiet]
  /\ funds = bound.funds /\ transit = Arrived
  /\ snapshot = << >> /\ advice = {} /\ acted = FALSE /\ truthful = FALSE
  /\ given = 1 /\ times = [x \in Exchange |-> IF x \in bound.inEnv THEN 1 ELSE 0]
  /\ fresh = {} /\ unsaved = {} /\ spoilt = {}
  /\ tokens = token /\ login = owner /\ latest = "login" /\ faults = 0

Fault == faults < bound.faults /\ faults' = faults + 1 /\ UNCHANGED bound
NoFault == UNCHANGED <<faults, bound>>

-----------------------------------------------------------------------------
(* Credentials. *)

\* A second saver opens the file while the first has lines to write.
Overlap(w, x) == {x} \cap {saving[v].ex : v \in Writer \ {w}}

\* Mutation of StartAppend: every exchange has names in .env.
StartAppendAny(w, x, key, secret) ==
  /\ saving' = [saving EXCEPT ![w] = [ex |-> x, key |-> key, secret |-> secret]]
  /\ spoilt' = spoilt \cup Overlap(w, x)

\* append_credentials_to_env; Gate and what cannot be opened are left out.
StartAppend(w, x, key, secret) ==
  IF x \in Polled
  THEN /\ saving' = [saving EXCEPT ![w] = [ex |-> x, key |-> key, secret |-> secret]]
       /\ spoilt' = spoilt \cup Overlap(w, x) \cup (IF CANCEL \in {key, secret} THEN {x} ELSE {})
  ELSE UNCHANGED <<saving, spoilt>>

\* dotenv: the first declaration of a variable counts.
Declare(x, var, value) ==
  IF dotenv[x][var] = 0 THEN [dotenv EXCEPT ![x][var] = value] ELSE dotenv

\* One write_all; its error is ignored.
WriteLine(w) ==
  /\ running /\ saving[w] # Quiet
  /\ LET s == saving[w]
         var == IF s.key # 0 THEN "key" ELSE "secret"
     IN /\ saving' = [saving EXCEPT ![w] = IF var = "key" THEN [s EXCEPT !.key = 0] ELSE Quiet]
        /\ \/ /\ dotenv' = Declare(s.ex, var, s[var])
              /\ NoFault /\ UNCHANGED spoilt
           \/ /\ Fault
              /\ spoilt' = spoilt \cup {s.ex}
              /\ UNCHANGED dotenv
  /\ UNCHANGED <<running, conversation, process, api, filed, given, times, fresh, unsaved, money>>

Give(x) ==
  /\ given < bound.given
  /\ given' = given + 1
  /\ times' = [times EXCEPT ![x] = @ + 1]
  /\ fresh' = fresh \cup {x}

\* Both files are overwritten in place, and nobody hears of an error: a write
\* may leave the old file, or one that cannot be read and counts as none.
ConfigSaved == filed' = api'
ConfigLost == filed' \in {filed, NoKeys}
SecretsSaved(secrets, writer) == stored' = secrets /\ latest' = writer
SecretsLost == stored' \in {stored, NoSecrets} /\ latest' = "error"

\* AppConfig::save, after every command.
SaveConfig == (ConfigSaved /\ NoFault) \/ (ConfigLost /\ Fault)

\* Mutation of UpdateApiKeys: nothing is appended to .env.
UpdateApiKeysMemory(x) ==
  /\ running /\ saving["dashboard"] = Quiet
  /\ Give(x)
  /\ api' = [api EXCEPT ![x] = given'] /\ SaveConfig
  /\ UNCHANGED <<running, conversation, dotenv, process, saving, spoilt, unsaved, money>>

\* UpdateApiKeys: .env, and the configuration at once.
UpdateApiKeys(x) ==
  /\ running /\ saving["dashboard"] = Quiet
  /\ Give(x)
  /\ api' = [api EXCEPT ![x] = given'] /\ SaveConfig
  /\ StartAppend("dashboard", x, given', given')
  /\ UNCHANGED <<running, conversation, dotenv, process, unsaved, money>>

\* UpdateSecrets: keys into the configuration; the file gets what the
\* dashboard's form holds, which shows no chat; the secrets in memory stay.
UpdateSecrets(x) ==
  /\ running /\ saving["dashboard"] = Quiet
  /\ tokens < bound.tokens /\ tokens' = tokens + 1
  /\ \/ Give(x) /\ api' = [api EXCEPT ![x] = given'] /\ unsaved' = unsaved \cup {x}
     \/ UNCHANGED <<given, times, fresh, api, unsaved>>
  /\ LET form == [owner |-> NOBODY, token |-> tokens']
     IN \/ SecretsSaved(form, "dashboard") /\ SaveConfig
        \/ SecretsLost /\ (ConfigSaved \/ ConfigLost) /\ Fault
  /\ UNCHANGED <<running, talk, owner, token, login, dotenv, process, saving, spoilt, money>>

\* Any other command but UpdateConfig, which CommandPath has: the file again.
OtherCommand ==
  /\ running /\ saving["dashboard"] = Quiet
  /\ UNCHANGED api /\ SaveConfig
  /\ UNCHANGED <<running, conversation, dotenv, process, saving, given, times, fresh, unsaved,
                 spoilt, money>>

-----------------------------------------------------------------------------
(* The conversation. *)

\* handle_message runs when the listener has a token, one message at a time.
Listening == running /\ token # 0 /\ saving["wizard"] = Quiet
Says(c, state) == talk' = [talk EXCEPT ![c] = state]

\* Mutation of LoggedIn: the chat is kept in memory only.
LoggedInUnsaved(c) ==
  /\ owner' = c /\ login' = c
  /\ stored' = stored /\ latest' = "login" /\ NoFault

\* The right password: this chat gets the alerts from now on, and the copy in
\* memory goes to secrets.json.
LoggedIn(c) ==
  /\ owner' = c /\ login' = c
  /\ \/ SecretsSaved([owner |-> c, token |-> token], "login") /\ NoFault
     \/ SecretsLost /\ Fault

NoLogin == UNCHANGED <<owner, stored, login, latest>> /\ NoFault

\* /login with a password, /login, /setup in the idle state; commands of other
\* chats than the owner's are ignored, but for /login.
Command(c) ==
  /\ Listening /\ talk[c] = Idle
  /\ \/ LoggedIn(c) /\ Says(c, Idle)
     \/ NoLogin /\ Says(c, [at |-> "password"])
     \/ /\ owner \in {NOBODY, c} /\ given < bound.given
        /\ Says(c, [at |-> "exchange"]) /\ NoLogin
  /\ UNCHANGED <<running, token, tokens, keys, money>>

Password(c) ==
  /\ Listening /\ talk[c].at = "password"
  /\ Says(c, Idle)
  /\ LoggedIn(c) \/ NoLogin
  /\ UNCHANGED <<running, token, tokens, keys, money>>

\* After anything but the name of an exchange, /cancel too, it is asked again.
Selection(c) ==
  /\ Listening /\ talk[c].at = "exchange"
  /\ \E x \in Exchange : Says(c, [at |-> "key", ex |-> x])
  /\ UNCHANGED <<running, owner, token, stored, login, latest, tokens, keys, money, faults, bound>>

\* Whatever is typed, /cancel too, is the key, then the secret.
Key(c) ==
  /\ Listening /\ talk[c].at = "key"
  /\ \/ /\ Give(talk[c].ex)
        /\ Says(c, [at |-> "secret", ex |-> talk[c].ex, key |-> given'])
     \/ /\ Says(c, [at |-> "secret", ex |-> talk[c].ex, key |-> CANCEL])
        /\ UNCHANGED <<given, times, fresh>>
  /\ UNCHANGED <<running, owner, token, stored, login, latest, tokens, dotenv, process, api, filed,
                 saving, unsaved, spoilt, money, faults, bound>>

Secret(c) ==
  /\ Listening /\ talk[c].at = "secret"
  /\ Says(c, Idle)
  /\ \E secret \in {talk[c].key, CANCEL} : StartAppend("wizard", talk[c].ex, talk[c].key, secret)
  /\ UNCHANGED <<running, owner, token, stored, login, latest, tokens, dotenv, process, api, filed,
                 given, times, fresh, unsaved, money, faults, bound>>

-----------------------------------------------------------------------------
(* Accounts and advice. *)

Pair(x) == process[x].key # 0 /\ process[x].secret # 0
Valid(x) == Pair(x) /\ process[x].key = process[x].secret /\ process[x].key # CANCEL

\* What can be withdrawn of an account.
Free(x) == funds.equity[x] - funds.locked[x]

\* fetch_binance_account: the margin ratio is always zero.  fetch_bybit_account:
\* it is computed only when the positions were fetched as well.  Neither looks
\* at the status of the response: what an error does not hold counts as zero,
\* so a pair that the exchange refuses shows an empty account.
Empty == [equity |-> 0, available |-> 0]
Amounts(x) ==
  IF ~Valid(x) THEN {Empty}
  ELSE {[equity |-> funds.equity[x], available |-> Free(x)]}
       \cup {[equity |-> funds.equity[x], available |-> 0] : gap \in bound.gaps \cap {"balance"}}
       \cup {Empty : gap \in bound.gaps \cap {"account"}}
Flag(x, gap, fixed) ==
  IF x # "Bybit" THEN {fixed} ELSE IF gap \in bound.gaps THEN BOOLEAN ELSE {TRUE}
Reply(x) ==
  UNION {[equity : {a.equity}, available : {a.available}, counted : Flag(x, "positions", FALSE),
          deposits : Flag(x, "deposits", TRUE), withdrawals : Flag(x, "withdrawals", TRUE)] :
            a \in Amounts(x)}

Answers(b, y, answered) == [x \in answered |-> IF x = "Binance" THEN b ELSE y]

\* An account is seen as it is.
Shown(s, x) == s[x].equity = funds.equity[x] /\ s[x].available = Free(x)

\* Mutation of Fetched: an account that did not answer keeps its last state.
FetchedMerges(answered, b, y) ==
  /\ running /\ answered \subseteq {x \in bound.answers : Pair(x)}
  /\ UNCHANGED <<running, conversation, keys, funds, transit, advice, faults, bound>>
  /\ snapshot' = Answers(b, y, answered) @@ snapshot
  /\ acted' = FALSE /\ truthful' = \A x \in answered : Shown(snapshot', x)

\* fetch_private_data: the state is replaced by what answered.
Fetched(answered, b, y) ==
  /\ running /\ answered \subseteq {x \in bound.answers : Pair(x)}
  /\ UNCHANGED <<running, conversation, keys, funds, transit, advice, faults, bound>>
  /\ snapshot' = Answers(b, y, answered)
  /\ acted' = FALSE /\ truthful' = \A x \in answered : Shown(snapshot', x)

Poll ==
  \E answered \in SUBSET bound.answers, b \in Reply("Binance"), y \in Reply("Bybit") :
    Fetched(answered, b, y)

\* Every account answers, with what the advisor needs.
Full(x) == [equity |-> funds.equity[x], available |-> Free(x), counted |-> x = "Bybit",
            deposits |-> TRUE, withdrawals |-> TRUE]
PollInFull == (\A x \in Polled : Valid(x)) /\ Fetched(Polled, Full("Binance"), Full("Bybit"))

\* check_rebalancing, every two seconds; each suggestion is sent to the owner.
Advise ==
  /\ running
  /\ UNCHANGED <<running, conversation, keys, funds, transit, snapshot, acted, truthful, faults, bound>>
  /\ advice' = Advice(snapshot)

\* The operator moves the money of one suggestion that is still made, at most
\* once per snapshot, when no other is on its way, and no more than can be
\* withdrawn.  The advice to spread money does not ask whether its exchange
\* pays out.
Follow ==
  /\ running /\ owner # NOBODY /\ token # 0 /\ ~acted /\ transit = Arrived
  /\ UNCHANGED <<running, conversation, keys, snapshot, advice, truthful, faults, bound>>
  /\ acted' = TRUE
  /\ \E a \in advice \cap Advice(snapshot) :
       /\ a.from # a.to /\ a.amount <= Free(a.from) /\ snapshot[a.from].withdrawals
       /\ funds' = [funds EXCEPT !.equity[a.from] = @ - a.amount]
       /\ transit' = [to |-> a.to, amount |-> a.amount]

\* The transfer arrives; a patient operator waits for what the bot says next.
Arrive ==
  /\ transit # Arrived
  /\ funds' = [funds EXCEPT !.equity[transit.to] = @ + transit.amount]
  /\ transit' = Arrived
  /\ acted' = (acted \/ bound.patient)
  /\ UNCHANGED <<running, conversation, keys, snapshot, advice, truthful, faults, bound>>

-----------------------------------------------------------------------------
\* A restart, at any point: lines not written are lost, what was read in the
\* last run is forgotten.
Restart ==
  /\ running /\ Fault
  /\ running' = FALSE
  /\ talk' = [c \in Chat |-> Idle]
  /\ spoilt' = spoilt \cup ({saving[w].ex : w \in Writer} \cap Polled)
  /\ saving' = [w \in Writer |-> Quiet]
  /\ snapshot' = << >> /\ advice' = {} /\ acted' = FALSE /\ truthful' = FALSE
  /\ UNCHANGED <<owner, token, stored, login, latest, tokens, dotenv, process, api, filed, given,
                 times, fresh, unsaved, funds, transit>>

\* main: .env does not override what the environment already holds.
Start ==
  /\ ~running
  /\ running' = TRUE
  /\ process' = dotenv /\ api' = filed
  /\ owner' = stored.owner /\ token' = stored.token
  /\ fresh' = {}
  /\ UNCHANGED <<talk, stored, login, latest, tokens, dotenv, filed, saving, given, times,
                 unsaved, spoilt, money, faults, bound>>

Next ==
  \/ \E w \in Writer : WriteLine(w)
  \/ \E x \in Exchange : UpdateApiKeys(x) \/ UpdateSecrets(x)
  \/ OtherCommand
  \/ \E c \in bound.chats : Command(c) \/ Password(c) \/ Selection(c) \/ Key(c) \/ Secret(c)
  \/ Poll \/ Advise \/ Follow \/ Arrive \/ Restart \/ Start

\* The poller and the aggregator go on; the operator acts on what is advised,
\* and transfers arrive.  Fairness speaks of polls that are answered in full: an
\* exchange need not ever answer, and then nothing is claimed.
Fairness == WF_vars(PollInFull) /\ WF_vars(Advise) /\ WF_vars(Follow) /\ WF_vars(Arrive)

Spec == Init /\ [][Next]_vars /\ Fairness

-----------------------------------------------------------------------------
(* Properties. *)

Lines == [key : -1..bound.given, secret : -1..bound.given]

\* All the money: in the accounts, and on its way.
All == funds.equity["Binance"] + funds.equity["Bybit"] + transit.amount

\* The variables are of their types; no transfer creates or loses money, or
\* takes what is locked.
TypeOK ==
  /\ \A c \in Chat : talk[c].at \in {"idle", "password", "exchange", "key", "secret"}
  /\ owner \in Chat \cup {NOBODY} /\ token \in 0..bound.tokens
  /\ stored \in [owner : Chat \cup {NOBODY}, token : 0..bound.tokens]
  /\ dotenv \in [Polled -> Lines] /\ process \in [Polled -> Lines]
  /\ api \in [Exchange -> 0..bound.given] /\ filed \in [Exchange -> 0..bound.given]
  /\ \A w \in Writer : saving[w] = Quiet \/ saving[w].ex \in Polled
  /\ \A x \in Polled : funds.equity[x] >= funds.locked[x]
  /\ All = bound.funds.equity["Binance"] + bound.funds.equity["Bybit"]
  /\ DOMAIN snapshot \subseteq Polled

\* The account whose equity bounds an order is the one the order is sent to,
\* once the bot was restarted after its keys were given; unless they replaced
\* others, came with UpdateSecrets, or the pair was spoilt.
Traded(x) == IF api[x] # 0 THEN api[x] ELSE process[x].key
TradedIsPolled ==
  running => \A x \in Polled \ (fresh \cup unsaved \cup spoilt) :
               times[x] <= 1 => Traded(x) = process[x].key

\* secrets.json has two writers with a copy each, and neither hears of a write
\* that failed: after a restart a login is forgotten only when the dashboard
\* saved secrets after it, or a write failed or was cut short; and so a token
\* only when a login followed it or a write failed.
OneWriterWins ==
  /\ running /\ owner # login => latest # "login"
  /\ stored.token # tokens => latest # "dashboard"

\* Money is moved off an exchange because of its concentration only when most
\* of it was there, or the snapshot did not show all of it: an account was
\* missing or read as empty, or a transfer was on its way.
MovedForCause ==
  [][ \A x \in Polled :
        funds'.equity[x] < funds.equity[x]
        => \/ \E a \in advice : a.from = x /\ a.why = "margin"
           \/ 10 * funds.equity[x] > CONCENTRATION * All
           \/ Total(snapshot) # All ]_vars

\* When all accounts answer and the operator does as told, and waits for every
\* transfer, the advice comes to an end, unless more than 28 % of the money is
\* locked on Bybit: its margin then asks for more than its concentration
\* allows.  What is left may be the advice to move a surplus from Binance to
\* Binance.
Complete ==
  /\ DOMAIN snapshot = Polled /\ truthful
  /\ \A x \in Polled : snapshot[x].deposits /\ snapshot[x].withdrawals
  /\ snapshot["Bybit"].counted
Seen == running /\ owner # NOBODY /\ token # 0 /\ Complete
Settles ==
  <>[](Seen /\ bound.loose /\ bound.patient)
  => <>[](advice \subseteq Concentrated(snapshot) /\ \A a \in advice : a.from = a.to)

=============================================================================

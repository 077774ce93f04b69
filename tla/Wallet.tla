------------------------------- MODULE Wallet -------------------------------
(***************************************************************************)
(* The command-line wallet (wallet/wallet.ts, recovery.ts, onboarding.ts,   *)
(* scripts/wallet-cli.ts): one encrypted keystore file, commands that load  *)
(* it, change it and write it back, a crash at any moment, and the spends   *)
(* it builds from the coins of one key.                                     *)
(*                                                                          *)
(* A wallet is the sequence of its accounts in Map order.  The key of a     *)
(* recovery account is its index; the key of a legacy account is a number   *)
(* drawn fresh.  The disk keeps either a whole keystore or a broken one.    *)
(***************************************************************************)
EXTENDS Integers, FiniteSets, Sequences, SequencesExt

CONSTANTS Label,        \* what the user may call an account
          Numeric,      \* the labels that look like array indices, numbers
          Identifier,   \* the labels a recovery wallet admits
          AccountName,  \* "account-0", "account-1", ... as labels
          MaxAccounts,  \* MAX_RECOVERY_ACCOUNTS
          Coin,         \* records [id, value, height, coinbase, mine]
          Payment, Fees,  \* what a spend may ask for
          CoinMaturity,     \* COINBASE_MATURITY
          MaxMoney,     \* MAX_MONEY
          MaxTip, MaxKeys   \* bounds of the model

\* The names that setup gives are identifiers, which start with a letter; an amount
\* is positive and a fee is none or more; all coins together are within the cap.
WalletHypothesis ==
  /\ Numeric \subseteq Int /\ Numeric \cap Identifier = {}
  /\ AccountName \in Seq(Identifier) /\ IsInjective(AccountName)
  /\ MaxAccounts \in Nat /\ Len(AccountName) <= MaxAccounts
  /\ IsFiniteSet(Coin)
  /\ \A c \in Coin : /\ c.value \in Nat /\ c.height \in Nat
                     /\ c.coinbase \in BOOLEAN /\ c.mine \in BOOLEAN
  /\ SumFunctionOnSet([c \in Coin |-> c.value], Coin) <= MaxMoney
  /\ CoinMaturity \in Nat /\ MaxMoney \in Nat
  /\ Payment \subseteq Nat \ {0} /\ Fees \subseteq Nat

VARIABLES disk,     \* the keystore file: None, Broken or a wallet
          tmp,      \* <keystore>.tmp, the same
          command,  \* the command that runs
          printed,  \* the keys whose addresses a command has shown
          drawn,    \* legacy keys drawn so far
          tip,      \* height of the block store the chain commands replay
          spend     \* the last spend built

walletVars == <<disk, tmp, command, printed, drawn, tip, spend>>

None == [absent |-> TRUE]
Broken == [broken |-> TRUE]
Idle == [name |-> "none"]

Keys(w) == {w.accounts[i].key : i \in DOMAIN w.accounts}
Labels(w) == {w.accounts[i].label : i \in DOMAIN w.accounts}

-----------------------------------------------------------------------------
(* Keystore *)

(* toKeystore writes the accounts as a JSON object, and such an object lists *)
(* its index-like keys first, in numeric order.                              *)
JsonOrder(accounts) ==
  LET Before(i, j) ==
        LET a == accounts[i].label
            b == accounts[j].label
        IN  IF a \in Numeric THEN b \in Numeric => a < b ELSE b \notin Numeric /\ i < j
      order == CHOOSE s \in SetToSeqs(DOMAIN accounts) :
                 \A i, j \in DOMAIN s : i < j => Before(s[i], s[j])
  IN  [i \in DOMAIN accounts |-> accounts[order[i]]]

ToKeystore(w) == [w EXCEPT !.accounts = JsonOrder(w.accounts)]

(* fromKeystore: a recovery file must list its keys in derivation order. *)
Loads(file) ==
  /\ file \notin {None, Broken}
  /\ Len(file.accounts) <= MaxAccounts
  /\ file.recovery => /\ file.accounts # << >>
                      /\ \A i \in DOMAIN file.accounts : file.accounts[i].key = i - 1

\* Mutant: a recovery wallet takes any label.
LabelAny(w, l) == Len(w.accounts) < MaxAccounts

LabelAdmitted(w, l) ==
  /\ w.recovery => l \in Identifier
  /\ Len(w.accounts) < MaxAccounts

Admits(w, l) == LabelAdmitted(w, l) /\ l \notin Labels(w)

(* generate: the next recovery key, or a random pair. *)
NextKey(w) == IF w.recovery THEN Len(w.accounts) ELSE drawn
WithKey(w, l, k) == [w EXCEPT !.accounts = Append(@, [label |-> l, key |-> k])]

Recovered(names) ==
  [recovery |-> TRUE,
   accounts |-> [i \in DOMAIN names |-> [label |-> names[i], key |-> i - 1]]]

Empty == [recovery |-> FALSE, accounts |-> << >>]

-----------------------------------------------------------------------------
(* Spends: the chain commands replay a block store and spend for the block   *)
(* after its tip.                                                            *)

Unspent(at) == {c \in Coin : /\ c.mine /\ c.height <= at
                            /\ ~(c.coinbase /\ (at + 1) - c.height < CoinMaturity)}

Total(coins) == SumFunctionOnSet([c \in Coin |-> c.value], coins)

\* Mutant: the smallest coins first.
SmallestFirst(at) ==
  CHOOSE s \in SetToSeqs(Unspent(at)) :
    \A i, j \in DOMAIN s : i < j => s[i].value <= s[j].value

(* Coins of equal value come in some order: the sort keeps that of the set. *)
LargestFirst(at) ==
  CHOOSE s \in SetToSeqs(Unspent(at)) :
    \A i, j \in DOMAIN s : i < j => s[i].value >= s[j].value

(* The shortest prefix that covers what is needed. *)
Selected(need, at) ==
  LET coins == LargestFirst(at)
      Prefix(n) == {coins[i] : i \in 1 .. n}
      Covering == {n \in DOMAIN coins : Total(Prefix(n)) >= need}
  IN  IF Covering = {} THEN << >>
      ELSE [i \in 1 .. CHOOSE n \in Covering : \A k \in Covering : n <= k |-> coins[i]]

(* The change goes back to the sender, in an output of its own unless zero. *)
BuildSpend(amount, fee, at) ==
  LET inputs == Selected(amount + fee, at)
      change == Total(ToSet(inputs)) - amount - fee
  IN  [amount |-> amount, fee |-> fee, at |-> at, inputs |-> inputs,
       outputs |-> IF change > 0 THEN << amount, change >> ELSE << amount >>]

(* validateTransaction, of a transaction that is not a coinbase: what needs  *)
(* no ledger to be checked.                                                  *)
ValidTransaction(t) ==
  /\ t.inputs # << >>
  /\ t.outputs # << >>
  /\ \A i \in DOMAIN t.outputs : t.outputs[i] \in 0..MaxMoney
  /\ SumFunction(t.outputs) <= MaxMoney
  /\ IsInjective(t.inputs)

-----------------------------------------------------------------------------
WalletInit ==
  /\ disk = None /\ tmp = None /\ command = Idle
  /\ printed = {} /\ drawn = MaxAccounts
  /\ tip = 0 /\ spend = None

(* setup and restore: the destination must not exist, neither before the    *)
(* prompts nor when it is opened ("wx"); the file is written in place.      *)
Setup(n) ==
  /\ command = Idle /\ disk = None
  /\ command' = [name |-> "setup", at |-> "prompts",
                 wallet |-> Recovered(SubSeq(AccountName, 1, n))]
  /\ UNCHANGED <<disk, tmp, printed, drawn, tip, spend>>

SetupOpen ==
  /\ command.name = "setup" /\ command.at = "prompts" /\ disk = None
  /\ disk' = Broken
  /\ command' = [command EXCEPT !.at = "opened"]
  /\ UNCHANGED <<tmp, printed, drawn, tip, spend>>

SetupWrite ==
  /\ command.name = "setup" /\ command.at = "opened"
  /\ disk' = ToKeystore(command.wallet)
  /\ printed' = printed \cup Keys(command.wallet)
  /\ command' = Idle
  /\ UNCHANGED <<tmp, drawn, tip, spend>>

(* new and import: load, add a key, save, show its address. *)
Add(name, wallet, l, key) ==
  /\ command = Idle /\ Admits(wallet, l)
  /\ command' = [name |-> name, at |-> "load", wallet |-> WithKey(wallet, l, key), key |-> key]

New(l) ==
  /\ Loads(disk)
  /\ Add("new", disk, l, NextKey(disk))
  /\ drawn' = IF disk.recovery THEN drawn ELSE drawn + 1
  /\ drawn' <= MaxAccounts + MaxKeys
  /\ UNCHANGED <<disk, tmp, printed, tip, spend>>

Import(l) ==
  /\ disk = None \/ (Loads(disk) /\ ~disk.recovery)
  /\ Add("import", IF disk = None THEN Empty ELSE disk, l, drawn)
  /\ drawn' = drawn + 1 /\ drawn' <= MaxAccounts + MaxKeys
  /\ UNCHANGED <<disk, tmp, printed, tip, spend>>

(* atomicWriteFile: write the new file beside the old one, flush, rename.   *)
Adding == command.name \in {"new", "import"}

Write ==
  /\ Adding /\ command.at = "load"
  /\ tmp' = Broken
  /\ command' = [command EXCEPT !.at = "write"]
  /\ UNCHANGED <<disk, printed, drawn, tip, spend>>

Flush ==
  /\ Adding /\ command.at = "write"
  /\ tmp' = ToKeystore(command.wallet)
  /\ command' = [command EXCEPT !.at = "flush"]
  /\ UNCHANGED <<disk, printed, drawn, tip, spend>>

Rename ==
  /\ Adding /\ command.at = "flush"
  /\ disk' = tmp /\ tmp' = None
  /\ command' = [command EXCEPT !.at = "rename"]
  /\ UNCHANGED <<printed, drawn, tip, spend>>

Show ==
  /\ Adding /\ command.at = "rename"
  /\ printed' = printed \cup {command.key}
  /\ command' = Idle
  /\ UNCHANGED <<disk, tmp, drawn, tip, spend>>

Crash ==
  /\ command # Idle
  /\ command' = Idle
  /\ UNCHANGED <<disk, tmp, printed, drawn, tip, spend>>

(* send, and the blocks the store gains. *)
Send(amount, fee) ==
  /\ command = Idle /\ Loads(disk) /\ disk.accounts # << >>
  /\ spend' = BuildSpend(amount, fee, tip)
  /\ UNCHANGED <<disk, tmp, command, printed, drawn, tip>>

Grow ==
  /\ tip < MaxTip /\ tip' = tip + 1 /\ spend' = None
  /\ UNCHANGED <<disk, tmp, command, printed, drawn>>

WalletNext ==
  \/ \E n \in 1..Len(AccountName) : Setup(n)
  \/ SetupOpen \/ SetupWrite
  \/ \E l \in Label : New(l) \/ Import(l)
  \/ Write \/ Flush \/ Rename \/ Show \/ Crash
  \/ \E a \in Payment, f \in Fees : Send(a, f)
  \/ Grow

WalletSpec == WalletInit /\ [][WalletNext]_walletVars

-----------------------------------------------------------------------------
(* No key is ever lost: whatever crashes, a keystore from which an address  *)
(* was shown can be loaded and holds the key of every address shown; and    *)
(* the keys of a recovery wallet are the first ones its words derive, so a  *)
(* restore of as many accounts finds them all.                              *)
KeysSurvive ==
  /\ printed # {} => Loads(disk) /\ printed \subseteq Keys(disk)
  /\ (Loads(disk) /\ disk.recovery) => Keys(disk) = 0..(Len(disk.accounts) - 1)
  /\ disk \notin {None, Broken} => Loads(disk)

(* What the rules of the block after height at let this key spend. *)
Mine(at) == {c \in Coin : /\ c.mine /\ c.height <= at
                          /\ (c.coinbase => (at + 1) - c.height >= CoinMaturity)}

(* A spend is what validation and the ledger accept in the next block        *)
(* (mature coins of this key, each spent once, nothing created or burnt      *)
(* beyond the fee), with as few inputs as any choice of coins could have; it *)
(* is refused only when no choice of coins pays for it.                      *)
SpendIsSound ==
  spend # None =>
    LET need == spend.amount + spend.fee
        Pays == {cs \in SUBSET Mine(spend.at) : Total(cs) >= need}
    IN  IF spend.inputs = << >> THEN Pays = {}
        ELSE /\ ValidTransaction(spend)
             /\ ToSet(spend.inputs) \in Pays
             /\ Total(ToSet(spend.inputs)) = spend.fee + SumFunction(spend.outputs)
             /\ \A cs \in Pays : Len(spend.inputs) <= Cardinality(cs)

WalletInv == KeysSurvive /\ SpendIsSound
=============================================================================

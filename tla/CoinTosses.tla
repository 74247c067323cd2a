----------------------------- MODULE CoinTosses -----------------------------
(***************************************************************************)
(* The random numbers of the randomized OpenMP program.  configure_RNG:    *)
(* every thread of the team seeds a generator of its own with the prime    *)
(* number at its index, after a test that there are enough of them.  Then  *)
(* the first loop of coin_toss_and_child_hook: the team tosses coins into  *)
(* a vector<bool>, which packs them into words, so that setting one is a   *)
(* load and a store of a word that holds its neighbours, too.              *)
(*                                                                         *)
(* OmpRandomized hooks by whatever coins this loop leaves.  It shares no   *)
(* name with this module, so that one module can hold the proofs of both.  *)
(***************************************************************************)
EXTENDS Integers, FiniteSets

CONSTANTS
  Primes,    \* prime_numbers.size(): 199 in the code
  nNodes,    \* the number of coins: one for every vertex
  WordSize,  \* coins in a word
  Teams      \* the teams, as functions from threads to their iterations

Coin == 0 .. nNodes-1

ASSUME TossAssumption ==
  /\ Primes \in Nat \ {0}
  /\ nNodes \in Nat
  /\ WordSize \in Nat \ {0}
  /\ \A f \in Teams :
        /\ IsFiniteSet(DOMAIN f)
        /\ f \in [0 .. Cardinality(DOMAIN f) - 1 -> SUBSET Coin]
        /\ \A i \in Coin : \E t \in DOMAIN f : i \in f[t]
        /\ \A s, t \in DOMAIN f : s # t => f[s] \cap f[t] = {}

(* The seeds are told apart by their index.  What is read past the end of  *)
(* the vector can be any integer, one of the seeds included.               *)
Prime == 0 .. Primes-1
NotPrime == -2
Unseeded == -1

NoWord == [v \in {} |-> FALSE]

VARIABLES
  team,       \* the iterations of each thread (never changes)
  tested,     \* the threads that have passed the test
  seed,       \* the seed of every thread's random_genator
  exited,     \* a thread has called exit(1)
  coins,      \* shared: coin_toss in memory; TRUE is tail
  todo,       \* the iterations that each thread has yet to do
  word,       \* the word that a thread is about to store
  tossed      \* what random_genator() % 2 was, once it has been called

seedVars == <<tested, seed, exited>>
coinVars == <<coins, todo, word, tossed>>
tossVars == <<team, seedVars, coinVars>>

Thread == DOMAIN team

(* The coins in the word of coin i.                                        *)
WordOf(i) == {k \in Coin : k \div WordSize = i \div WordSize}

TossInit ==
  /\ team \in Teams
  /\ tested = {}
  /\ seed = [t \in Thread |-> Unseeded]
  /\ exited = FALSE
  /\ coins = [i \in Coin |-> FALSE]
  /\ todo = team
  /\ word = [t \in Thread |-> NoWord]
  /\ tossed = [i \in {} |-> FALSE]

-----------------------------------------------------------------------------
(* omp_get_thread_num() > prime_numbers.size()                             *)
TooMany(t) == t > Primes

Test(t) ==
  /\ ~ exited
  /\ t \notin tested
  /\ ~ TooMany(t)
  /\ tested' = tested \cup {t}
  /\ UNCHANGED <<team, seed, exited, coinVars>>

(* exit(1) ends the process, whatever the other threads are doing.         *)
Exit(t) ==
  /\ ~ exited
  /\ t \notin tested
  /\ TooMany(t)
  /\ exited' = TRUE
  /\ UNCHANGED <<team, tested, seed, coinVars>>

(* Definitions named Bug... are plausible slips in the definition that     *)
(* follows them; no specification uses them.  Here the index is reduced to *)
(* one that exists, the wrong way.                                         *)
BugSeed(t) ==
  /\ ~ exited
  /\ t \in tested
  /\ seed[t] = Unseeded
  /\ seed' = [seed EXCEPT ![t] = t % (Primes - 1)]
  /\ UNCHANGED <<team, tested, exited, coinVars>>

(* random_genator = mt19937(prime_numbers[omp_get_thread_num()])           *)
Seed(t) ==
  /\ ~ exited
  /\ t \in tested
  /\ seed[t] = Unseeded
  /\ \E s \in IF t < Primes THEN {t} ELSE Prime \cup {NotPrime} :
        seed' = [seed EXCEPT ![t] = s]
  /\ UNCHANGED <<team, tested, exited, coinVars>>

(* The end of the parallel region in configure_RNG.                        *)
Configured == \A t \in Thread : seed[t] # Unseeded

-----------------------------------------------------------------------------
Current(t, i) == i \in todo[t] /\ \A k \in todo[t] : i <= k

(* The index is that of the word.                                          *)
BugLoadWord(t) ==
  /\ Configured
  /\ word[t] = NoWord
  /\ \E i \in Coin, toss \in BOOLEAN :
        /\ Current(t, i)
        /\ word' = [word EXCEPT ![t] =
                      [k \in WordOf(i) |-> IF k = (i \div WordSize) * WordSize
                                           THEN toss ELSE coins[k]]]
        /\ tossed' = [k \in DOMAIN tossed \cup {i} |-> IF k = i THEN toss ELSE tossed[k]]
  /\ UNCHANGED <<team, seedVars, coins, todo>>

(* random_genator() % 2, and the load of the word.                         *)
LoadWord(t) ==
  /\ Configured
  /\ word[t] = NoWord
  /\ \E i \in Coin, toss \in BOOLEAN :
        /\ Current(t, i)
        /\ word' = [word EXCEPT ![t] =
                      [k \in WordOf(i) |-> IF k = i THEN toss ELSE coins[k]]]
        /\ tossed' = [k \in DOMAIN tossed \cup {i} |-> IF k = i THEN toss ELSE tossed[k]]
  /\ UNCHANGED <<team, seedVars, coins, todo>>

(* The store of the word, and the end of the iteration.                    *)
StoreWord(t) ==
  /\ word[t] # NoWord
  /\ coins' = [k \in Coin |-> IF k \in DOMAIN word[t] THEN word[t][k] ELSE coins[k]]
  /\ word' = [word EXCEPT ![t] = NoWord]
  /\ todo' = [todo EXCEPT ![t] = {i \in @ : ~ Current(t, i)}]
  /\ UNCHANGED <<team, seedVars, tossed>>

Barrier == Configured /\ \A t \in Thread : todo[t] = {}

TossesDone == (exited \/ Barrier) /\ UNCHANGED tossVars

TossNext ==
  \/ \E t \in Thread : Test(t) \/ Exit(t) \/ Seed(t)
  \/ \E t \in Thread : LoadWord(t) \/ StoreWord(t)
  \/ TossesDone

TossSpec == TossInit /\ [][TossNext]_tossVars

-----------------------------------------------------------------------------
(* The threads that have a generator have different ones.                  *)
Distinct == \A s, t \in Thread : s # t /\ seed[s] # Unseeded => seed[s] # seed[t]

(***************************************************************************)
(* Whatever the order of the threads: coins are only tossed by a team with *)
(* at most one thread more than there are seeds, and by different          *)
(* generators if there are no more threads than seeds.                     *)
(***************************************************************************)
SeedsSuffice ==
  Configured => /\ Cardinality(Thread) <= Primes + 1
                /\ Cardinality(Thread) <= Primes => Distinct

(***************************************************************************)
(* What main says: "Every thread will have a different seed".              *)
(***************************************************************************)
EveryThreadDiffers == Distinct

(* Another thread writes coins of the same word.                           *)
Shared(t, i) == \E s \in Thread \ {t} : team[s] \cap WordOf(i) # {}

(***************************************************************************)
(* At the barrier, every coin whose word is one thread's alone shows what  *)
(* was tossed.                                                             *)
(***************************************************************************)
OwnWordsKept ==
  Barrier => \A t \in Thread : \A i \in team[t] :
                ~ Shared(t, i) => coins[i] = tossed[i]

(***************************************************************************)
(* A coin in a shared word can lose its toss, but then shows what it was   *)
(* initialized to: no coin ever shows tail that was not tossed.            *)
(***************************************************************************)
LostTossIsHead == \A i \in Coin : coins[i] => i \in DOMAIN tossed /\ tossed[i]

(***************************************************************************)
(* What the comment in the loop says: "Not a race condition because each   *)
(* thread writes to a different index" - so every toss is kept.            *)
(***************************************************************************)
NotARace == Barrier => coins = tossed
=============================================================================

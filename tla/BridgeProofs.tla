---------------------------- MODULE BridgeProofs ----------------------------
(***************************************************************************)
(* The conservation law of the bridge, for any chains, tokens, custom      *)
(* representations, accounts, amounts and owners: the escrow of a token is *)
(* what represents it elsewhere and what is under way.  And what the user  *)
(* of the SDK is told of a message, over any blocks, pages and nodes.      *)
(***************************************************************************)
EXTENDS BridgeRouter, NomadSDK, FiniteSetTheorems, TLAPS

(***************************************************************************)
(* Sums over finite sets.  The induction is on the subsets of the set: a   *)
(* counterexample that is minimal under inclusion cannot be one.           *)
(***************************************************************************)

(* The element the library takes first. *)
Some(S) == CHOOSE x \in S : TRUE

(* g has the sums of f over the subsets of S. *)
IsSum(f, S, g) ==
  g = [s \in SUBSET S |-> IF s = {} THEN 0 ELSE f[Some(s)] + g[s \ {Some(s)}]]

TheSum(f, S) == CHOOSE g : IsSum(f, S, g)

(* The sum of the library is the value of a recursive function. *)
LEMMA SumIsRecursive ==
  ASSUME NEW f, NEW S
  PROVE  SumFunctionOnSet(f, S) = TheSum(f, S)[S]
BY DEF SumFunctionOnSet, FoldFunctionOnSet, MapThenFoldSet, TheSum, IsSum, Some

(* Complete induction over the subsets of a finite set: D has all of them. *)
LEMMA SubsetInduction ==
  ASSUME NEW S, IsFiniteSet(S), NEW D,
         \A U \in SUBSET S : (\A V \in SUBSET U : V # U => V \in D) => U \in D
  PROVE  SUBSET S \subseteq D
<1> DEFINE Bad == (SUBSET S) \ D
           R == StrictSubsetOrdering(S)
<1> SUFFICES ASSUME Bad # {} PROVE FALSE
  OBVIOUS
<1>1. IsWellFoundedOn(R, FiniteSubsetsOf(S))
  BY FS_StrictSubsetOrderingWellFounded
<1>2. Bad \subseteq FiniteSubsetsOf(S)
  BY FS_FiniteSubsetsOfFinite
<1> HIDE DEF Bad, R
<1>3. PICK U \in Bad : \A V \in Bad : ~(<<V, U>> \in R)
  BY <1>1, <1>2, WFMin
<1>4. \A V \in SUBSET U : V # U => V \in D
  BY <1>3 DEF R, StrictSubsetOrdering, Bad
<1> QED
  BY <1>3, <1>4 DEF Bad

(* Recursive sums over S and over a larger set have the same value at S. *)
LEMMA SumsAgree ==
  ASSUME NEW f, NEW S, NEW T, IsFiniteSet(S), S \subseteq T, NEW g, NEW h,
         IsSum(f, S, g), IsSum(f, T, h)
  PROVE  g[S] = h[S]
<1> DEFINE D == {U \in SUBSET S : g[U] = h[U]}
<1>1. ASSUME NEW U \in SUBSET S, \A V \in SUBSET U : V # U => V \in D
      PROVE  U \in D
  <2>1. g[U] = IF U = {} THEN 0 ELSE f[Some(U)] + g[U \ {Some(U)}]
    BY DEF IsSum
  <2>2. h[U] = IF U = {} THEN 0 ELSE f[Some(U)] + h[U \ {Some(U)}]
    BY DEF IsSum
  <2>3. CASE U = {}
    BY <2>1, <2>2, <2>3
  <2>4. CASE U # {}
    <3>1. Some(U) \in U
      BY <2>4 DEF Some
    <3>2. g[U \ {Some(U)}] = h[U \ {Some(U)}]
      BY <1>1, <3>1
    <3> QED
      BY <2>1, <2>2, <2>4, <3>2
  <2> QED
    BY <2>3, <2>4
<1> HIDE DEF D
<1>2. SUBSET S \subseteq D
  BY <1>1, SubsetInduction
<1> QED
  BY <1>2 DEF D

(* The function that the recursion describes exists. *)
LEMMA SumExists ==
  ASSUME NEW f, NEW S, IsFiniteSet(S)
  PROVE  IsSum(f, S, TheSum(f, S))
<1> DEFINE D == {U \in SUBSET S : \E g : IsSum(f, U, g)}
<1>1. ASSUME NEW U \in SUBSET S, \A V \in SUBSET U : V # U => V \in D
      PROVE  U \in D
  <2> DEFINE h == [s \in SUBSET U |-> IF s = {} THEN 0
                     ELSE f[Some(s)] + TheSum(f, s \ {Some(s)})[s \ {Some(s)}]]
  <2>1. ASSUME NEW V \in SUBSET U, V # U
        PROVE  IsSum(f, V, TheSum(f, V))
    BY <1>1, <2>1 DEF TheSum
  <2>2. ASSUME NEW s \in SUBSET U, s # {}
        PROVE  h[s \ {Some(s)}] = TheSum(f, s \ {Some(s)})[s \ {Some(s)}]
    <3> DEFINE V == s \ {Some(s)}
               W == V \ {Some(V)}
    <3>1. V \in SUBSET U /\ V # U
      BY <2>2 DEF Some
    <3>2. IsSum(f, V, TheSum(f, V))
      BY <2>1, <3>1
    <3>3. TheSum(f, V)[V] = IF V = {} THEN 0 ELSE f[Some(V)] + TheSum(f, V)[W]
      BY <3>2 DEF IsSum
    <3>4. CASE V = {}
      BY <3>3, <3>4
    <3>5. CASE V # {}
      <4>1. W \subseteq V /\ W \in SUBSET U /\ W # U
        BY <3>1, <3>5 DEF Some
      <4>2. IsSum(f, W, TheSum(f, W))
        BY <2>1, <4>1
      <4>3. IsFiniteSet(W)
        BY <4>1, FS_Subset
      <4> HIDE DEF W
      <4>4. TheSum(f, W)[W] = TheSum(f, V)[W]
        BY <3>2, <4>1, <4>2, <4>3, SumsAgree
      <4>5. h[V] = f[Some(V)] + TheSum(f, W)[W]
        BY <3>1, <3>5 DEF W
      <4> QED
        BY <3>3, <3>5, <4>4, <4>5
    <3> QED
      BY <3>4, <3>5
  <2>3. IsSum(f, U, h)
    BY <2>2 DEF IsSum
  <2> QED
    BY <2>3
<1> HIDE DEF D
<1>2. SUBSET S \subseteq D
  BY <1>1, SubsetInduction
<1> QED
  BY <1>2 DEF D, TheSum

(* So the sum takes one element at a time, in an order of its own. *)
LEMMA SumStep ==
  ASSUME NEW f, NEW S, IsFiniteSet(S)
  PROVE  SumFunctionOnSet(f, S) =
           IF S = {} THEN 0 ELSE f[Some(S)] + SumFunctionOnSet(f, S \ {Some(S)})
<1> DEFINE T == S \ {Some(S)}
<1>1. IsSum(f, S, TheSum(f, S))
  BY SumExists
<1>2. IsFiniteSet(T)
  BY FS_Subset
<1>3. IsSum(f, T, TheSum(f, T))
  BY <1>2, SumExists
<1>4. TheSum(f, T)[T] = TheSum(f, S)[T]
  BY <1>1, <1>2, <1>3, SumsAgree
<1>5. TheSum(f, S)[S] = IF S = {} THEN 0 ELSE f[Some(S)] + TheSum(f, S)[T]
  BY <1>1 DEF IsSum
<1> QED
  BY <1>4, <1>5, SumIsRecursive

(* The empty sum. *)
LEMMA SumOfNothing ==
  ASSUME NEW f
  PROVE  SumFunctionOnSet(f, {}) = 0
BY SumStep, FS_EmptySet

(* Integers add up to an integer. *)
LEMMA SumIsInt ==
  ASSUME NEW f, NEW S, IsFiniteSet(S), \A x \in S : f[x] \in Int
  PROVE  SumFunctionOnSet(f, S) \in Int
<1> DEFINE D == {U \in SUBSET S : SumFunctionOnSet(f, U) \in Int}
<1>1. ASSUME NEW U \in SUBSET S, \A V \in SUBSET U : V # U => V \in D
      PROVE  U \in D
  <2>1. IsFiniteSet(U)
    BY FS_Subset
  <2>2. SumFunctionOnSet(f, U) =
          IF U = {} THEN 0 ELSE f[Some(U)] + SumFunctionOnSet(f, U \ {Some(U)})
    BY <2>1, SumStep
  <2>3. CASE U # {}
    <3>1. Some(U) \in U
      BY <2>3 DEF Some
    <3>2. SumFunctionOnSet(f, U \ {Some(U)}) \in Int
      BY <1>1, <3>1
    <3> QED
      BY <2>2, <2>3, <3>1, <3>2
  <2> QED
    BY <2>2, <2>3
<1> HIDE DEF D
<1>2. SUBSET S \subseteq D
  BY <1>1, SubsetInduction
<1> QED
  BY <1>2 DEF D

(* Naturals add up to a natural. *)
LEMMA SumIsNat ==
  ASSUME NEW f, NEW S, IsFiniteSet(S), \A x \in S : f[x] \in Nat
  PROVE  SumFunctionOnSet(f, S) \in Nat
<1> DEFINE D == {U \in SUBSET S : SumFunctionOnSet(f, U) \in Nat}
<1>1. ASSUME NEW U \in SUBSET S, \A V \in SUBSET U : V # U => V \in D
      PROVE  U \in D
  <2>1. IsFiniteSet(U)
    BY FS_Subset
  <2>2. SumFunctionOnSet(f, U) =
          IF U = {} THEN 0 ELSE f[Some(U)] + SumFunctionOnSet(f, U \ {Some(U)})
    BY <2>1, SumStep
  <2>3. CASE U # {}
    <3>1. Some(U) \in U
      BY <2>3 DEF Some
    <3>2. SumFunctionOnSet(f, U \ {Some(U)}) \in Nat
      BY <1>1, <3>1
    <3> QED
      BY <2>2, <2>3, <3>1, <3>2
  <2> QED
    BY <2>2, <2>3
<1> HIDE DEF D
<1>2. SUBSET S \subseteq D
  BY <1>1, SubsetInduction
<1> QED
  BY <1>2 DEF D

(* The order does not matter: any element can be taken first. *)
LEMMA SumWithout ==
  ASSUME NEW f, NEW S, IsFiniteSet(S), \A x \in S : f[x] \in Int, NEW z \in S
  PROVE  SumFunctionOnSet(f, S) = f[z] + SumFunctionOnSet(f, S \ {z})
<1> DEFINE Total(U) == SumFunctionOnSet(f, U)
           D == {U \in SUBSET S : \A x \in U : Total(U) = f[x] + Total(U \ {x})}
<1>1. ASSUME NEW U \in SUBSET S, \A V \in SUBSET U : V # U => V \in D
      PROVE  U \in D
  <2> SUFFICES ASSUME NEW x \in U
               PROVE  Total(U) = f[x] + Total(U \ {x})
    OBVIOUS
  <2> DEFINE y == Some(U)
  <2>1. y \in U
    BY DEF Some
  <2>2. IsFiniteSet(U)
    BY FS_Subset
  <2>3. Total(U) = f[y] + Total(U \ {y})
    BY <2>2, SumStep
  <2> HIDE DEF y
  <2>4. CASE x = y
    BY <2>3, <2>4
  <2>5. CASE x # y
    <3>1. Total(U \ {y}) = f[x] + Total((U \ {y}) \ {x})
      BY <1>1, <2>1, <2>5
    <3>2. Total(U \ {x}) = f[y] + Total((U \ {y}) \ {x})
      <4>1. (U \ {y}) \ {x} = (U \ {x}) \ {y}
        OBVIOUS
      <4>2. Total(U \ {x}) = f[y] + Total((U \ {x}) \ {y})
        BY <1>1, <2>1, <2>5
      <4> QED
        BY <4>1, <4>2, Zenon
    <3>3. Total((U \ {y}) \ {x}) \in Int
      <4>1. IsFiniteSet((U \ {y}) \ {x})
        BY <2>2, FS_Subset
      <4> QED
        BY <4>1, SumIsInt
    <3>4. f[x] \in Int /\ f[y] \in Int
      BY <2>1
    <3> HIDE DEF Total
    <3> QED
      BY <2>3, <3>1, <3>2, <3>3, <3>4
  <2> QED
    BY <2>4, <2>5
<1> HIDE DEF D
<1>2. SUBSET S \subseteq D
  BY <1>1, SubsetInduction
<1> QED
  BY <1>2 DEF D

(* The sum depends on the values at its elements only. *)
LEMMA SumsOfEquals ==
  ASSUME NEW f, NEW g, NEW S, IsFiniteSet(S), \A x \in S : f[x] = g[x]
  PROVE  SumFunctionOnSet(f, S) = SumFunctionOnSet(g, S)
<1> DEFINE D == {U \in SUBSET S : SumFunctionOnSet(f, U) = SumFunctionOnSet(g, U)}
<1>1. ASSUME NEW U \in SUBSET S, \A V \in SUBSET U : V # U => V \in D
      PROVE  U \in D
  <2>1. IsFiniteSet(U)
    BY FS_Subset
  <2>2. /\ SumFunctionOnSet(f, U) =
             IF U = {} THEN 0 ELSE f[Some(U)] + SumFunctionOnSet(f, U \ {Some(U)})
        /\ SumFunctionOnSet(g, U) =
             IF U = {} THEN 0 ELSE g[Some(U)] + SumFunctionOnSet(g, U \ {Some(U)})
    BY <2>1, SumStep
  <2>3. CASE U # {}
    <3>1. Some(U) \in U
      BY <2>3 DEF Some
    <3>2. SumFunctionOnSet(f, U \ {Some(U)}) = SumFunctionOnSet(g, U \ {Some(U)})
      BY <1>1, <3>1
    <3> QED
      BY <2>2, <2>3, <3>1, <3>2
  <2> QED
    BY <2>2, <2>3
<1> HIDE DEF D
<1>2. SUBSET S \subseteq D
  BY <1>1, SubsetInduction
<1> QED
  BY <1>2 DEF D

(* One more element. *)
LEMMA SumWith ==
  ASSUME NEW f, NEW S, IsFiniteSet(S), NEW z, z \notin S,
         \A x \in S \cup {z} : f[x] \in Int
  PROVE  SumFunctionOnSet(f, S \cup {z}) = SumFunctionOnSet(f, S) + f[z]
<1>1. IsFiniteSet(S \cup {z}) /\ (S \cup {z}) \ {z} = S
  BY FS_AddElement
<1>2. SumFunctionOnSet(f, S \cup {z}) = f[z] + SumFunctionOnSet(f, S)
  <2>1. SumFunctionOnSet(f, S \cup {z}) = f[z] + SumFunctionOnSet(f, (S \cup {z}) \ {z})
    BY <1>1, SumWithout
  <2> QED
    BY <1>1, <2>1, Zenon
<1>3. SumFunctionOnSet(f, S) \in Int
  BY SumIsInt
<1>4. f[z] \in Int
  OBVIOUS
<1> QED
  BY <1>2, <1>3, <1>4

(* One value changes. *)
LEMMA SumAfterChange ==
  ASSUME NEW f, NEW g, NEW S, IsFiniteSet(S), NEW z \in S,
         \A x \in S : f[x] \in Int /\ g[x] \in Int,
         \A x \in S \ {z} : g[x] = f[x]
  PROVE  SumFunctionOnSet(g, S) = SumFunctionOnSet(f, S) - f[z] + g[z]
<1>1. IsFiniteSet(S \ {z})
  BY FS_Subset
<1>2. /\ SumFunctionOnSet(f, S) = f[z] + SumFunctionOnSet(f, S \ {z})
      /\ SumFunctionOnSet(g, S) = g[z] + SumFunctionOnSet(g, S \ {z})
  BY SumWithout
<1>3. SumFunctionOnSet(f, S \ {z}) = SumFunctionOnSet(g, S \ {z})
  BY <1>1, SumsOfEquals
<1>4. SumFunctionOnSet(f, S \ {z}) \in Int
  BY <1>1, SumIsInt
<1> QED
  BY <1>2, <1>3, <1>4

(* Zeros add up to zero. *)
LEMMA SumOfZeros ==
  ASSUME NEW f, NEW S, IsFiniteSet(S), \A x \in S : f[x] = 0
  PROVE  SumFunctionOnSet(f, S) = 0
<1> DEFINE D == {U \in SUBSET S : SumFunctionOnSet(f, U) = 0}
<1>1. ASSUME NEW U \in SUBSET S, \A V \in SUBSET U : V # U => V \in D
      PROVE  U \in D
  <2>1. IsFiniteSet(U)
    BY FS_Subset
  <2>2. SumFunctionOnSet(f, U) =
          IF U = {} THEN 0 ELSE f[Some(U)] + SumFunctionOnSet(f, U \ {Some(U)})
    BY <2>1, SumStep
  <2>3. CASE U # {}
    <3>1. Some(U) \in U
      BY <2>3 DEF Some
    <3>2. SumFunctionOnSet(f, U \ {Some(U)}) = 0
      BY <1>1, <3>1
    <3> QED
      BY <2>2, <2>3, <3>1, <3>2
  <2> QED
    BY <2>2, <2>3
<1> HIDE DEF D
<1>2. SUBSET S \subseteq D
  BY <1>1, SubsetInduction
<1> QED
  BY <1>2 DEF D

(***************************************************************************)
(* The invariant                                                           *)
(***************************************************************************)

(* The nonce of a transfer is below the next one of its route, so the next *)
(* transfer is not one of those sent.                                      *)
NoncesAreUsed == \A m \in sent : m.nonce < NextNonce(m.origin, m.destination)

DefaultsKeepTheirToken ==
  \A x \in Defaults : representationToCanonical[x] \in {NoToken, x[2]}

(* What represents nothing yet has not been minted: it can come to         *)
(* represent a token without bringing any supply along.                    *)
UnusedAreEmpty ==
  \A x \in Contracts \ Tokens : representationToCanonical[x] = NoToken =>
    \A h \in Holders : balance[x][h] = 0

Sound ==
  /\ TypeOK
  /\ IsFiniteSet(sent)
  /\ NoncesAreUsed
  /\ DefaultsKeepTheirToken
  /\ RepresentationsPointBack
  /\ UnusedAreEmpty

IInv == Sound /\ FullyBacked

(***************************************************************************)
(* Contracts                                                               *)
(***************************************************************************)

(* Contracts are of three disjoint kinds, and each is on one chain. *)
LEMMA ContractFacts ==
  /\ Tokens \subseteq Contracts /\ Customs \subseteq Contracts /\ Defaults \subseteq Contracts
  /\ \A x \in Contracts : Chain(x) \in Domains
  /\ \A x \in Tokens : x \notin Customs /\ x \notin Defaults /\ Chain(x) = chainOf[x]
  /\ \A x \in Customs : x \notin Defaults
  /\ \A d \in Domains, t \in Tokens : chainOf[t] # d =>
       <<d, t>> \in Defaults /\ <<d, t>>[2] = t /\ Chain(<<d, t>>) = d
BY BridgeAssumption DEF Contracts, Defaults, Chain

(* The contract ensureLocalToken returns for t on chain d: t itself, the   *)
(* representation in the tables, or a default that is deployed for it.     *)
LEMMA LocalTokens ==
  ASSUME Sound, NEW d \in Domains, NEW t \in Tokens, NEW x, x = LocalToken(d, t)
  PROVE  /\ x \in Contracts
         /\ \/ /\ x = t /\ chainOf[t] = d /\ isLocalOrigin(x)
               /\ ensureLocalToken(d, t) <=> UNCHANGED registryVars
            \/ /\ x \notin Tokens /\ ~isLocalOrigin(x)
               /\ representationToCanonical[x] = t
               /\ ensureLocalToken(d, t) <=> UNCHANGED registryVars
            \/ /\ x \in Defaults /\ ~isLocalOrigin(x)
               /\ x[2] = t /\ Chain(x) = d /\ chainOf[t] # d
               /\ representationToCanonical[x] = NoToken
               /\ ensureLocalToken(d, t) <=> register(d, t, x)
<1> USE DEF Sound, LocalToken, getLocalAddress, isLocalOrigin
<1>1. CASE chainOf[t] = d
  <2>1. t \in Contracts /\ t \notin Defaults /\ t # NoContract
    BY ContractFacts, BridgeAssumption
  <2>2. representationToCanonical[t] = NoToken
    BY <2>1 DEF RepresentationsPointBack, TypeOK
  <2> QED
    BY <1>1, <2>1, <2>2 DEF ensureLocalToken
<1>2. CASE chainOf[t] # d /\ canonicalToRepresentation[d][t] # NoContract
  <2>1. /\ x = canonicalToRepresentation[d][t]
        /\ ensureLocalToken(d, t) <=> UNCHANGED registryVars
    BY <1>2 DEF ensureLocalToken
  <2>2. x \in Contracts
    BY <1>2, <2>1 DEF TypeOK
  <2>3. representationToCanonical[x] = t /\ t # NoToken
    BY <1>2, <2>1, BridgeAssumption DEF RepresentationsPointBack
  <2>4. x \notin Tokens
    BY <2>2, <2>3 DEF RepresentationsPointBack
  <2> QED
    BY <2>1, <2>2, <2>3, <2>4
<1>3. CASE chainOf[t] # d /\ canonicalToRepresentation[d][t] = NoContract
  <2>1. /\ x = <<d, t>>
        /\ ensureLocalToken(d, t) <=> register(d, t, x)
    BY <1>3 DEF ensureLocalToken
  <2>2. x \in Defaults /\ x \in Contracts /\ x[2] = t /\ Chain(x) = d
    BY <1>3, <2>1, ContractFacts
  <2>3. representationToCanonical[x] # t
    BY <1>3, <2>2, BridgeAssumption DEF RepresentationsPointBack
  <2>4. representationToCanonical[x] = NoToken
    BY <2>2, <2>3 DEF DefaultsKeepTheirToken
  <2> QED
    BY <1>3, <2>1, <2>2, <2>4
<1> QED
  BY <1>1, <1>2, <1>3

RegistryOK == RepresentationsPointBack /\ DefaultsKeepTheirToken

RegistryType ==
  /\ representationToCanonical \in [Contracts -> Tokens \cup {NoToken}]
  /\ canonicalToRepresentation \in [Domains -> [Tokens -> Contracts \cup {NoContract}]]

(* The tables stay right if t is not at home on d, and x is a              *)
(* representation there, of t or of nothing yet.                           *)
LEMMA RegisterIsSound ==
  ASSUME Sound, NEW d \in Domains, NEW t \in Tokens, NEW x \in Contracts \ Tokens,
         Chain(x) = d, chainOf[t] # d, representationToCanonical[x] \in {NoToken, t},
         x \in Defaults => x[2] = t,
         register(d, t, x)
  PROVE  RegistryType' /\ RegistryOK'
<1>1. /\ RegistryType'
      /\ \A y \in Contracts : representationToCanonical'[y] =
           IF y = x THEN t ELSE representationToCanonical[y]
      /\ \A e \in Domains, u \in Tokens : canonicalToRepresentation'[e][u] =
           IF e = d /\ u = t THEN x ELSE canonicalToRepresentation[e][u]
  BY DEF Sound, TypeOK, RegistryType, register
<1>2. DefaultsKeepTheirToken'
  BY <1>1, ContractFacts DEF Sound, DefaultsKeepTheirToken
<1>3. ASSUME NEW e \in Domains, NEW u \in Tokens, canonicalToRepresentation'[e][u] # NoContract
      PROVE  LET y == canonicalToRepresentation'[e][u] IN
             representationToCanonical'[y] = u /\ Chain(y) = e /\ chainOf[u] # e
  <2> DEFINE y == canonicalToRepresentation'[e][u]
  <2>1. CASE e = d /\ u = t
    BY <1>1, <2>1
  <2>2. CASE ~(e = d /\ u = t)
    <3>1. y = canonicalToRepresentation[e][u] /\ y \in Contracts
      BY <1>1, <1>3, <2>2 DEF Sound, TypeOK
    <3>2. representationToCanonical[y] = u /\ Chain(y) = e /\ chainOf[u] # e
      BY <1>3, <3>1 DEF Sound, RepresentationsPointBack
    <3>3. y = x => t = u
      BY <3>2, BridgeAssumption
    <3> QED
      BY <1>1, <3>1, <3>2, <3>3
  <2> QED
    BY <2>1, <2>2
<1>4. ASSUME NEW y \in Contracts, representationToCanonical'[y] # NoToken
      PROVE  y \notin Tokens
             /\ canonicalToRepresentation'[Chain(y)][representationToCanonical'[y]] # NoContract
  <2>1. CASE y = x
    BY <1>1, <2>1, BridgeAssumption
  <2>2. CASE y # x
    <3>1. representationToCanonical'[y] = representationToCanonical[y]
      BY <1>1, <2>2
    <3>2. representationToCanonical[y] \in Tokens /\ Chain(y) \in Domains
      BY <1>4, <3>1, ContractFacts DEF Sound, TypeOK
    <3>3. /\ y \notin Tokens
          /\ canonicalToRepresentation[Chain(y)][representationToCanonical[y]] # NoContract
      BY <1>4, <3>1 DEF Sound, RepresentationsPointBack
    <3> QED
      BY <1>1, <3>1, <3>2, <3>3, BridgeAssumption
  <2> QED
    BY <2>1, <2>2
<1> QED
  BY <1>1, <1>2, <1>3, <1>4 DEF RegistryOK, RepresentationsPointBack

(***************************************************************************)
(* Transfers                                                               *)
(***************************************************************************)

Route(o, d) == {m \in sent : m.origin = o /\ m.destination = d}

(* A new transfer takes the next nonce of its route: it is not one of      *)
(* those sent, and the nonces of all are again below the next ones.        *)
LEMMA NewTransfer ==
  ASSUME Sound, Cardinality(sent) < MaxTransfers, NEW m,
         m.nonce = NextNonce(m.origin, m.destination), sent' = sent \cup {m}
  PROVE  /\ m \notin sent /\ m.nonce \in 0 .. MaxTransfers - 1
         /\ IsFiniteSet(sent') /\ NoncesAreUsed'
<1>1. ASSUME NEW S, IsFiniteSet(S)
      PROVE  \A T \in SUBSET S : IsFiniteSet(T) /\ Cardinality(T) \in Nat
                                 /\ Cardinality(T) <= Cardinality(S)
  BY <1>1, FS_Subset, FS_CardinalityType
<1>2. IsFiniteSet(sent') /\ IsFiniteSet(sent)
  BY FS_AddElement DEF Sound
<1>3. m.nonce = Cardinality(Route(m.origin, m.destination))
  BY DEF NextNonce, Route
<1>4. m \notin sent
  <2>1. m.nonce \in Nat
    BY <1>1, <1>2, <1>3 DEF Route
  <2> QED
    BY <2>1 DEF Sound, NoncesAreUsed
<1>5. m.nonce \in 0 .. MaxTransfers - 1
  <2>1. Cardinality(Route(m.origin, m.destination)) <= Cardinality(sent)
    BY <1>1, <1>2 DEF Route
  <2>2. Cardinality(Route(m.origin, m.destination)) \in Nat /\ Cardinality(sent) \in Nat
    BY <1>1, <1>2 DEF Route
  <2> QED
    BY <1>3, <2>1, <2>2, BridgeAssumption
<1>6. ASSUME NEW k \in sent'
      PROVE  k.nonce < Cardinality(Route(k.origin, k.destination)')
  <2> DEFINE old == Route(k.origin, k.destination)
             new == Route(k.origin, k.destination)'
  <2>1. IsFiniteSet(old) /\ Cardinality(old) \in Nat /\ Cardinality(new) \in Nat
    BY <1>1, <1>2 DEF Route
  <2>2. old \subseteq new /\ IsFiniteSet(new)
    BY <1>1, <1>2 DEF Route
  <2>3. Cardinality(old) <= Cardinality(new)
    BY <2>2, FS_Subset
  <2>4. CASE k = m
    <3>1. new = old \cup {m} /\ m \notin old
      BY <1>4, <2>4 DEF Route
    <3>2. Cardinality(new) = Cardinality(old) + 1
      BY <2>1, <3>1, FS_AddElement
    <3> QED
      BY <1>3, <2>1, <2>4, <3>2
  <2>5. CASE k # m
    <3>1. k.nonce < Cardinality(old) /\ k.nonce \in Int
      BY <1>6, <2>5 DEF Sound, NoncesAreUsed, NextNonce, Route, TypeOK, Transfer
    <3> QED
      BY <2>1, <2>3, <3>1
  <2> QED
    BY <2>4, <2>5
<1>7. NoncesAreUsed'
  BY <1>6 DEF NoncesAreUsed, NextNonce, Route
<1> QED
  BY <1>2, <1>4, <1>5, <1>7

(* Without a new transfer the nonces stay used. *)
LEMMA NoncesStayUsed ==
  ASSUME NoncesAreUsed, UNCHANGED sent
  PROVE  NoncesAreUsed'
BY DEF NoncesAreUsed, NextNonce

(* Whoever is paid has an account. *)
LEMMA PayeesHaveAccounts ==
  ASSUME Sound, NEW m \in sent, payee(m) # NoAccount
  PROVE  payee(m) \in Accounts
BY DEF Sound, TypeOK, Transfer, payee, isPreFilled, providerOf

(***************************************************************************)
(* Balances                                                                *)
(***************************************************************************)

(* When one balance changes, so does the supply, by as much. *)
LEMMA SupplyOfChanged ==
  ASSUME NEW b \in [Holders -> Int], NEW c \in [Holders -> Int], NEW h \in Holders,
         \A i \in Holders \ {h} : c[i] = b[i]
  PROVE  /\ SumFunctionOnSet(b, Holders) \in Int
         /\ SumFunctionOnSet(c, Holders) = SumFunctionOnSet(b, Holders) - b[h] + c[h]
<1>1. IsFiniteSet(Holders) /\ \A i \in Holders : b[i] \in Int /\ c[i] \in Int
  BY BridgeAssumption
<1> QED
  BY <1>1, SumAfterChange, SumIsInt

BalanceType == balance \in [Contracts -> [Holders -> Nat]]

(* Tokens that move within x change no supply, and the escrow only if the  *)
(* router is one of the two.                                               *)
LEMMA Moving ==
  ASSUME BalanceType, NEW x \in Contracts, NEW from \in Holders, NEW to \in Holders,
         NEW n \in Nat, balance[x][from] >= n, balance' = moved(x, from, to, n)
  PROVE  /\ BalanceType'
         /\ \A y \in Contracts : Supply(y)' = Supply(y)
         /\ \A y \in Contracts \ {x} : balance'[y] = balance[y]
         /\ from # Router /\ to # Router => balance'[x][Router] = balance[x][Router]
         /\ from = Router /\ to # Router => balance'[x][Router] = balance[x][Router] - n
         /\ from # Router /\ to = Router => balance'[x][Router] = balance[x][Router] + n
<1> DEFINE c == [balance[x] EXCEPT ![from] = @ - n]
           e == [c EXCEPT ![to] = @ + n]
<1>1. balance[x] \in [Holders -> Nat] /\ balance[x] \in [Holders -> Int]
  BY DEF BalanceType
<1>2. c \in [Holders -> Nat] /\ e \in [Holders -> Nat]
  BY <1>1
<1>3. balance' = [balance EXCEPT ![x] = e]
  BY DEF moved
<1>4. SumFunctionOnSet(e, Holders) = SumFunctionOnSet(balance[x], Holders)
  <2> DEFINE Total(f) == SumFunctionOnSet(f, Holders)
  <2>1. /\ c \in [Holders -> Int] /\ c[from] = balance[x][from] - n
        /\ \A i \in Holders \ {from} : c[i] = balance[x][i]
    BY <1>1, <1>2
  <2>2. /\ e \in [Holders -> Int] /\ e[to] = c[to] + n
        /\ \A i \in Holders \ {to} : e[i] = c[i]
    BY <1>2
  <2>3. balance[x][from] \in Int /\ c[to] \in Int /\ n \in Int
    BY <1>1, <1>2
  <2> HIDE DEF c, e
  <2>4. Total(balance[x]) \in Int /\ Total(c) = Total(balance[x]) - balance[x][from] + c[from]
    BY <1>1, <2>1, SupplyOfChanged
  <2>5. Total(c) \in Int /\ Total(e) = Total(c) - c[to] + e[to]
    BY <2>1, <2>2, SupplyOfChanged
  <2> HIDE DEF Total
  <2>6. Total(e) = Total(balance[x])
    BY <2>1, <2>2, <2>3, <2>4, <2>5
  <2> QED
    BY <2>6 DEF Total
<1>5. Router \in Holders
  BY DEF Holders
<1>6. /\ from # Router /\ to # Router => e[Router] = balance[x][Router]
      /\ from = Router /\ to # Router => e[Router] = balance[x][Router] - n
      /\ from # Router /\ to = Router => e[Router] = balance[x][Router] + n
  BY <1>1, <1>5
<1> HIDE DEF c, e
<1>7. BalanceType' /\ balance'[x] = e /\ \A y \in Contracts \ {x} : balance'[y] = balance[y]
  BY <1>2, <1>3 DEF BalanceType
<1>8. \A y \in Contracts : Supply(y)' = Supply(y)
  BY <1>4, <1>7 DEF Supply
<1> QED
  BY <1>6, <1>7, <1>8

(* An account's balance of x is set, in one contract only. *)
LEMMA Setting ==
  ASSUME BalanceType, NEW x \in Contracts, NEW h \in Accounts, NEW k \in Nat,
         balance' = [balance EXCEPT ![x][h] = k]
  PROVE  /\ BalanceType'
         /\ \A y \in Contracts \ {x} : balance'[y] = balance[y]
         /\ Supply(x)' = Supply(x) - balance[x][h] + k
         /\ balance'[x][Router] = balance[x][Router]
<1>1. h \in Holders /\ Router \in Holders /\ h # Router
  BY BridgeAssumption DEF Holders
<1>2. /\ BalanceType' /\ \A y \in Contracts \ {x} : balance'[y] = balance[y]
      /\ balance'[x] = [balance[x] EXCEPT ![h] = k]
  BY <1>1 DEF BalanceType
<1>3. /\ balance[x] \in [Holders -> Int] /\ balance'[x] \in [Holders -> Int]
      /\ balance'[x][h] = k /\ \A i \in Holders \ {h} : balance'[x][i] = balance[x][i]
  BY <1>1, <1>2 DEF BalanceType
<1>4. Supply(x)' = Supply(x) - balance[x][h] + k
  BY <1>1, <1>3, SupplyOfChanged DEF Supply
<1> QED
  BY <1>1, <1>2, <1>3, <1>4

(***************************************************************************)
(* The two sides of the conservation law                                   *)
(***************************************************************************)

(* Supplies are integers, there are finitely many contracts and transfers. *)
LEMMA SidesAreInt ==
  ASSUME BalanceType
  PROVE  /\ \A x \in Contracts : Supply(x) \in Int
         /\ \A t \in Tokens : IsFiniteSet(Representations(t)) /\ Circulating(t) \in Int
<1>1. \A x \in Contracts : Supply(x) \in Int
  <2> SUFFICES ASSUME NEW x \in Contracts
               PROVE  SumFunctionOnSet(balance[x], Holders) \in Int
    BY DEF Supply
  <2>1. IsFiniteSet(Holders) /\ \A h \in Holders : balance[x][h] \in Int
    BY BridgeAssumption DEF BalanceType
  <2> QED
    BY <2>1, SumIsInt
<1>2. ASSUME NEW t \in Tokens
      PROVE  IsFiniteSet(Representations(t)) /\ Circulating(t) \in Int
  <2> DEFINE f == [x \in Contracts |-> Supply(x)]
  <2>1. IsFiniteSet(Representations(t))
    BY FS_Subset, BridgeAssumption DEF Representations
  <2>2. \A x \in Representations(t) : f[x] \in Int
    BY <1>1 DEF Representations
  <2> HIDE DEF f
  <2>3. SumFunctionOnSet(f, Representations(t)) \in Int
    BY <2>1, <2>2, SumIsInt
  <2> QED
    BY <2>1, <2>3 DEF Circulating, f
<1> QED
  BY <1>1, <1>2

(* What circulates of t changes with its representations only. *)
LEMMA CirculatingStays ==
  ASSUME BalanceType, NEW t \in Tokens, Representations(t)' = Representations(t),
         \A x \in Representations(t) : Supply(x)' = Supply(x)
  PROVE  Circulating(t)' = Circulating(t)
<1> DEFINE f == [x \in Contracts |-> Supply(x)]
           g == [x \in Contracts |-> Supply(x)']
<1>1. \A x \in Representations(t) : f[x] = g[x]
  BY DEF Representations
<1>2. IsFiniteSet(Representations(t))
  BY SidesAreInt
<1> HIDE DEF f, g
<1>3. SumFunctionOnSet(f, Representations(t)) = SumFunctionOnSet(g, Representations(t))
  BY <1>1, <1>2, SumsOfEquals
<1> QED
  BY <1>3 DEF Circulating, f, g

(* It changes with the supply of one of them. *)
LEMMA CirculatingChanges ==
  ASSUME BalanceType, BalanceType', NEW t \in Tokens, NEW z \in Representations(t),
         Representations(t)' = Representations(t),
         \A x \in Representations(t) \ {z} : Supply(x)' = Supply(x)
  PROVE  Circulating(t)' = Circulating(t) - Supply(z) + Supply(z)'
<1> DEFINE f == [x \in Contracts |-> Supply(x)]
           g == [x \in Contracts |-> Supply(x)']
<1>1. \A x \in Contracts : f[x] = Supply(x) /\ g[x] = Supply(x)'
  OBVIOUS
<1>2. \A x \in Contracts : f[x] \in Int
  BY SidesAreInt
<1>3. \A x \in Contracts : g[x] \in Int
  <2>1. IsFiniteSet(Holders) /\ \A x \in Contracts, h \in Holders : balance'[x][h] \in Int
    BY BridgeAssumption DEF BalanceType
  <2>2. \A x \in Contracts : SumFunctionOnSet(balance'[x], Holders) \in Int
    BY <2>1, SumIsInt
  <2> QED
    BY <2>2 DEF Supply
<1>4. IsFiniteSet(Representations(t)) /\ Representations(t) \subseteq Contracts
  BY SidesAreInt DEF Representations
<1> HIDE DEF f, g
<1>5. SumFunctionOnSet(g, Representations(t))
        = SumFunctionOnSet(f, Representations(t)) - f[z] + g[z]
  BY <1>1, <1>2, <1>3, <1>4, SumAfterChange
<1>6. z \in Contracts
  BY <1>4
<1>7. SumFunctionOnSet(g, Representations(t)) = Circulating(t)'
  BY DEF Circulating, g
<1>8. SumFunctionOnSet(f, Representations(t)) = Circulating(t)
  BY DEF Circulating, f
<1> QED
  BY <1>1, <1>5, <1>6, <1>7, <1>8

(* It grows by the supply of a contract that comes to represent t. *)
LEMMA CirculatingGrows ==
  ASSUME BalanceType, BalanceType', NEW t \in Tokens, NEW z \in Contracts,
         z \notin Representations(t), Representations(t)' = Representations(t) \cup {z},
         \A x \in Representations(t) : Supply(x)' = Supply(x)
  PROVE  Circulating(t)' = Circulating(t) + Supply(z)'
<1> DEFINE f == [x \in Contracts |-> Supply(x)]
           g == [x \in Contracts |-> Supply(x)']
           R == Representations(t)
<1>1. \A x \in Contracts : f[x] = Supply(x) /\ g[x] = Supply(x)'
  OBVIOUS
<1>2. \A x \in Contracts : g[x] \in Int
  <2>1. IsFiniteSet(Holders) /\ \A x \in Contracts, h \in Holders : balance'[x][h] \in Int
    BY BridgeAssumption DEF BalanceType
  <2>2. \A x \in Contracts : SumFunctionOnSet(balance'[x], Holders) \in Int
    BY <2>1, SumIsInt
  <2> QED
    BY <2>2 DEF Supply
<1>3. IsFiniteSet(R) /\ R \subseteq Contracts
  BY SidesAreInt DEF Representations
<1> HIDE DEF f, g
<1>4. SumFunctionOnSet(g, R) = SumFunctionOnSet(f, R)
  BY <1>1, <1>3, SumsOfEquals
<1>5. SumFunctionOnSet(g, R \cup {z}) = SumFunctionOnSet(g, R) + g[z]
  BY <1>2, <1>3, SumWith
<1>6. SumFunctionOnSet(g, R \cup {z}) = Circulating(t)'
  BY DEF Circulating, g
<1>7. SumFunctionOnSet(f, R) = Circulating(t)
  BY DEF Circulating, f
<1> QED
  BY <1>1, <1>4, <1>5, <1>6, <1>7

(* Amounts are positive, and few. *)
LEMMA OwedIsInt ==
  ASSUME Sound, NEW t \in Tokens
  PROVE  /\ IsFiniteSet(Unpaid(t)) /\ Unpaid(t) \subseteq sent
         /\ \A m \in sent : m.amount \in Nat \ {0}
         /\ Owed(t) \in Int
<1> DEFINE f == [m \in sent |-> m.amount]
<1>1. IsFiniteSet(Unpaid(t)) /\ Unpaid(t) \subseteq sent
  BY FS_Subset DEF Sound, Unpaid
<1>2. \A m \in sent : m.amount \in Nat \ {0}
  BY BridgeAssumption DEF Sound, TypeOK, Transfer
<1>3. \A m \in Unpaid(t) : f[m] \in Int
  BY <1>1, <1>2
<1> HIDE DEF f
<1>4. SumFunctionOnSet(f, Unpaid(t)) \in Int
  BY <1>1, <1>3, SumIsInt
<1> QED
  BY <1>1, <1>2, <1>4 DEF Owed, f

(* A new transfer is owed in its token, and in no other. *)
LEMMA OwedAfterSend ==
  ASSUME Sound, NEW m, m \notin sent, m.amount \in Nat, sent' = sent \cup {m},
         UNCHANGED handled, NEW t \in Tokens
  PROVE  Owed(t)' = IF m.token = t THEN Owed(t) + m.amount ELSE Owed(t)
<1> DEFINE f == [k \in sent |-> k.amount]
           g == [k \in sent' |-> k.amount]
           U == Unpaid(t)
<1>1. IsFiniteSet(U) /\ U \subseteq sent /\ \A k \in sent : k.amount \in Int
  BY OwedIsInt
<1>2. \A k \in U : f[k] = g[k]
  BY <1>1
<1>3. g[m] = m.amount /\ \A k \in U \cup {m} : g[k] \in Int
  BY <1>1
<1>4. Unpaid(t)' = IF m.token = t THEN U \cup {m} ELSE U
  BY DEF Unpaid, Sound, TypeOK
<1>5. m \notin U
  BY <1>1
<1> HIDE DEF f, g, U
<1>6. SumFunctionOnSet(f, U) = SumFunctionOnSet(g, U)
  BY <1>1, <1>2, SumsOfEquals
<1>7. SumFunctionOnSet(g, U \cup {m}) = SumFunctionOnSet(g, U) + g[m]
  BY <1>1, <1>3, <1>5, SumWith
<1>8. Owed(t) = SumFunctionOnSet(f, U) /\ Owed(t)' = SumFunctionOnSet(g, Unpaid(t)')
  BY DEF Owed, f, g, U
<1> QED
  BY <1>3, <1>4, <1>6, <1>7, <1>8

(* What is paid out is no longer owed. *)
LEMMA OwedAfterPayment ==
  ASSUME Sound, NEW m \in sent \ handled, handled' = handled \cup {m},
         UNCHANGED sent, NEW t \in Tokens
  PROVE  Owed(t)' = IF m.token = t THEN Owed(t) - m.amount ELSE Owed(t)
<1> DEFINE f == [k \in sent |-> k.amount]
           U == Unpaid(t)
<1>1. IsFiniteSet(U) /\ U \subseteq sent /\ \A k \in sent : k.amount \in Int
  BY OwedIsInt
<1>2. f[m] = m.amount /\ \A k \in U : f[k] \in Int
  BY <1>1
<1>3. Unpaid(t)' = U \ {m} /\ (m \in U <=> m.token = t)
  BY DEF Unpaid
<1>4. m.token # t => U \ {m} = U
  BY <1>3
<1>5. m.amount \in Int /\ IsFiniteSet(U \ {m})
  BY <1>1, FS_Subset
<1>6. Owed(t) = SumFunctionOnSet(f, U) /\ Owed(t)' = SumFunctionOnSet(f, Unpaid(t)')
  BY DEF Owed
<1> HIDE DEF f, U
<1>7. CASE m.token = t
  <2>1. SumFunctionOnSet(f, U) = f[m] + SumFunctionOnSet(f, U \ {m})
    BY <1>1, <1>2, <1>3, <1>7, SumWithout
  <2>2. SumFunctionOnSet(f, U \ {m}) \in Int
    BY <1>2, <1>5, SumIsInt
  <2>3. Owed(t)' = SumFunctionOnSet(f, U \ {m})
    BY <1>3, <1>6
  <2>4. Owed(t) = m.amount + Owed(t)' /\ Owed(t)' \in Int
    BY <1>2, <1>6, <2>1, <2>2, <2>3
  <2> QED
    BY <1>5, <1>7, <2>4
<1>8. CASE m.token # t
  BY <1>3, <1>4, <1>6, <1>8
<1> QED
  BY <1>7, <1>8

(* Owed depends on the transfers alone. *)
LEMMA OwedStays ==
  ASSUME NEW t, UNCHANGED <<sent, handled>>
  PROVE  Owed(t)' = Owed(t)
BY DEF Owed, Unpaid

(***************************************************************************)
(* The steps                                                               *)
(***************************************************************************)

(* A canonical token represents nothing; other contracts that have a       *)
(* supply represent a token.                                               *)
LEMMA TokensRepresentNothing ==
  ASSUME Sound
  PROVE  /\ \A x \in Tokens : representationToCanonical[x] = NoToken /\ isLocalOrigin(x)
         /\ \A x \in Tokens, t \in Tokens : x \notin Representations(t)
         /\ \A x \in Contracts \ Tokens, h \in Holders : balance[x][h] # 0 =>
              representationToCanonical[x] \in Tokens
<1>1. \A x \in Tokens : x \in Contracts /\ x \notin Defaults
  BY ContractFacts
<1>2. \A x \in Tokens : representationToCanonical[x] = NoToken
  BY <1>1 DEF Sound, RepresentationsPointBack
<1>3. \A x \in Contracts \ Tokens, h \in Holders : balance[x][h] # 0 =>
        representationToCanonical[x] \in Tokens
  BY DEF Sound, UnusedAreEmpty, TypeOK
<1> QED
  BY <1>1, <1>2, <1>3, BridgeAssumption DEF isLocalOrigin, Representations

(* With no change of the tables, the parts of Sound about them stay.       *)
LEMMA TablesStay ==
  ASSUME Sound, UNCHANGED registryVars
  PROVE  /\ DefaultsKeepTheirToken' /\ RepresentationsPointBack' /\ RegistryType'
         /\ \A t : Representations(t)' = Representations(t)
BY DEF Sound, TypeOK, RegistryType, registryVars, DefaultsKeepTheirToken,
       RepresentationsPointBack, Representations

(* A transfer puts tokens in escrow or takes them out of circulation, and  *)
(* owes as many of the token they represent.                               *)
LEMMA SendStep ==
  ASSUME IInv, Send
  PROVE  IInv'
<1> USE DEF IInv
<1>1. PICK a \in Accounts, x \in Contracts, n \in Amounts, d \in Domains,
           to \in Accounts \cup {NoAccount}, fast \in BOOLEAN : send(a, x, n, d, to, fast)
  BY DEF Send
<1> DEFINE m == [origin |-> Chain(x), nonce |-> NextNonce(Chain(x), d), destination |-> d,
                 token |-> getTokenId(x), recipient |-> to, amount |-> n, fast |-> fast]
<1>2. /\ balance[x][a] >= n
      /\ balance' = IF isLocalOrigin(x) THEN moved(x, a, Router, n) ELSE burned(x, a, n)
      /\ sent' = sent \cup {m}
      /\ UNCHANGED <<registryVars, remotes, liquidityProvider, handled, reverted, gasVars,
                     ownerActs>>
  BY <1>1 DEF send
<1>3. /\ n \in Nat \ {0} /\ a \in Holders /\ Router \in Holders /\ a # Router
      /\ balance[x][a] \in Nat
  BY BridgeAssumption DEF Holders, Sound, TypeOK
<1>4. m \notin sent /\ m.nonce \in 0 .. MaxTransfers - 1 /\ IsFiniteSet(sent') /\ NoncesAreUsed'
  <2>1. m.nonce = NextNonce(m.origin, m.destination)
    OBVIOUS
  <2> HIDE DEF m
  <2> QED
    BY <1>2, <2>1, NewTransfer DEF Send
<1>5. DefaultsKeepTheirToken' /\ RepresentationsPointBack' /\ RegistryType'
      /\ \A t : Representations(t)' = Representations(t)
  BY <1>2, TablesStay
<1>6. BalanceType
  BY DEF Sound, TypeOK, BalanceType
<1>7. /\ m.amount = n /\ m.token = getTokenId(x)
  OBVIOUS
<1>8. x \in Tokens \/ (x \notin Tokens /\ representationToCanonical[x] \in Tokens)
  BY <1>2, <1>3, TokensRepresentNothing
<1>9. getTokenId(x) \in Tokens
  BY <1>8, BridgeAssumption, TokensRepresentNothing DEF getTokenId
<1>10. m \in Transfer
  BY <1>4, <1>9, ContractFacts DEF Transfer
<1>11. \A t \in Tokens : Owed(t)' = IF m.token = t THEN Owed(t) + n ELSE Owed(t)
  <2> HIDE DEF m
  <2> QED
    BY <1>2, <1>3, <1>4, <1>7, OwedAfterSend
<1>12. \A t \in Tokens : /\ Circulating(t) \in Int /\ Owed(t) \in Int
                         /\ balance[t][Router] = Circulating(t) + Owed(t)
  BY <1>6, SidesAreInt, OwedIsInt DEF FullyBacked
<1> HIDE DEF m
<1>13. BalanceType' => TypeOK'
  BY <1>2, <1>5, <1>10 DEF Sound, TypeOK, BalanceType, RegistryType, gasVars
<1>14. CASE x \in Tokens
  <2>1. isLocalOrigin(x) /\ getTokenId(x) = x
    BY <1>14, TokensRepresentNothing DEF getTokenId
  <2>2. /\ BalanceType' /\ \A y \in Contracts : Supply(y)' = Supply(y)
        /\ \A y \in Contracts \ {x} : balance'[y] = balance[y]
        /\ balance'[x][Router] = balance[x][Router] + n
    BY <1>2, <1>3, <1>6, <2>1, Moving
  <2>3. \A t \in Tokens : Circulating(t)' = Circulating(t)
    BY <1>5, <1>6, <2>2, CirculatingStays DEF Representations
  <2>4. FullyBacked'
    <3> SUFFICES ASSUME NEW t \in Tokens
                 PROVE  balance'[t][Router] = Circulating(t)' + Owed(t)'
      BY DEF FullyBacked
    <3>1. t \in Contracts
      BY ContractFacts
    <3>2. CASE t = x
      <4>1. Owed(x)' = Owed(x) + n /\ Circulating(x)' = Circulating(x)
        BY <1>7, <1>11, <1>14, <2>1, <2>3
      <4>2. /\ Circulating(x) \in Int /\ Owed(x) \in Int
            /\ balance[x][Router] = Circulating(x) + Owed(x)
        BY <1>12, <1>14
      <4>3. balance'[x][Router] = balance[x][Router] + n /\ n \in Int
        BY <1>3, <2>2
      <4>4. balance'[x][Router] = Circulating(x)' + Owed(x)'
        BY <4>1, <4>2, <4>3
      <4> QED
        BY <3>2, <4>4
    <3>3. CASE t # x
      BY <1>7, <1>11, <1>12, <2>1, <2>2, <2>3, <3>1, <3>3
    <3> QED
      BY <3>2, <3>3
  <2>5. UnusedAreEmpty'
    BY <1>2, <1>14, <2>2 DEF Sound, UnusedAreEmpty, registryVars
  <2> QED
    BY <1>4, <1>5, <1>13, <2>2, <2>4, <2>5 DEF Sound
<1>15. CASE x \notin Tokens
  <2>a. PICK u : u = representationToCanonical[x]
    OBVIOUS
  <2>1. u \in Tokens /\ x \in Representations(u) /\ ~isLocalOrigin(x) /\ getTokenId(x) = u
    BY <1>8, <2>a, <1>15, BridgeAssumption DEF Representations, isLocalOrigin, getTokenId
  <2>2. balance' = [balance EXCEPT ![x][a] = balance[x][a] - n] /\ balance[x][a] - n \in Nat
    BY <1>2, <1>3, <2>1 DEF burned
  <2>3. /\ BalanceType' /\ \A y \in Contracts \ {x} : balance'[y] = balance[y]
        /\ Supply(x)' = Supply(x) - balance[x][a] + (balance[x][a] - n)
    BY <1>6, <2>2, Setting
  <2>4. \A y \in Contracts \ {x} : Supply(y)' = Supply(y)
    BY <2>3 DEF Supply
  <2>5. Supply(x) \in Int
    BY <1>6, SidesAreInt
  <2>6. \A t \in Tokens : x \in Representations(t) <=> t = u
    BY <2>a DEF Representations
  <2>7. Circulating(u)' = Circulating(u) - Supply(x) + Supply(x)'
    BY <1>5, <1>6, <2>1, <2>3, <2>4, CirculatingChanges DEF Representations
  <2>8. \A t \in Tokens \ {u} : Circulating(t)' = Circulating(t)
    BY <1>5, <1>6, <2>4, <2>6, CirculatingStays DEF Representations
  <2>9. FullyBacked'
    <3> SUFFICES ASSUME NEW t \in Tokens
                 PROVE  balance'[t][Router] = Circulating(t)' + Owed(t)'
      BY DEF FullyBacked
    <3>1. balance'[t] = balance[t]
      BY <1>15, <2>3, ContractFacts
    <3>2. CASE t = u
      <4>1. Owed(u)' = Owed(u) + n
        BY <1>7, <1>11, <2>1
      <4>2. /\ Circulating(u) \in Int /\ Owed(u) \in Int
            /\ balance[u][Router] = Circulating(u) + Owed(u)
        BY <1>12, <2>1
      <4>3. Circulating(u)' = Circulating(u) - n
        BY <1>3, <2>3, <2>5, <2>7, <4>2
      <4>4. balance'[u][Router] = Circulating(u)' + Owed(u)'
        BY <1>3, <3>1, <3>2, <4>1, <4>2, <4>3
      <4> QED
        BY <3>2, <4>4
    <3>3. CASE t # u
      BY <1>7, <1>11, <1>12, <2>1, <2>8, <3>1, <3>3
    <3> QED
      BY <3>2, <3>3
  <2>10. UnusedAreEmpty'
    BY <1>2, <2>a, <2>1, <2>3, BridgeAssumption DEF Sound, UnusedAreEmpty, registryVars
  <2> QED
    BY <1>4, <1>5, <1>13, <2>3, <2>9, <2>10 DEF Sound
<1> QED
  BY <1>14, <1>15

(* The trusted routers stay sets of domains, whatever the owners do. *)
LEMMA OwnerStep ==
  ASSUME IInv, Owner
  PROVE  IInv'
<1> USE DEF IInv
<1>1. UNCHANGED <<balance, liquidityProvider, transferVars, gasVars>>
  BY DEF Owner, enrollCustom, enrollRemoteRouter
<1>2. BalanceType /\ \A y \in Contracts : Supply(y)' = Supply(y)
  BY <1>1 DEF Sound, TypeOK, BalanceType, Supply
<1>3. IsFiniteSet(sent') /\ NoncesAreUsed' /\ \A t : Owed(t)' = Owed(t)
  BY <1>1, NoncesStayUsed, OwedStays DEF Sound, transferVars
<1>4. ASSUME NEW d \in Domains, NEW t \in Tokens, NEW x \in Customs, enrollCustom(d, t, x)
      PROVE  IInv'
  <2>1. /\ Chain(x) = d /\ chainOf[t] # d /\ representationToCanonical[x] \in {NoToken, t}
        /\ register(d, t, x) /\ UNCHANGED remotes
    BY <1>4 DEF enrollCustom, isFitCustom
  <2>2. x \in Contracts \ Tokens /\ x \notin Defaults
    BY ContractFacts
  <2>3. RegistryType' /\ RegistryOK'
    BY <2>1, <2>2, RegisterIsSound
  <2>4. \A y \in Contracts : representationToCanonical'[y] =
          IF y = x THEN t ELSE representationToCanonical[y]
    BY <2>1, <2>2 DEF register, Sound, TypeOK
  <2>5. UnusedAreEmpty'
    BY <1>1, <2>2, <2>4, BridgeAssumption DEF Sound, UnusedAreEmpty
  <2>6. TypeOK'
    BY <1>1, <2>1, <2>3 DEF Sound, TypeOK, RegistryType, transferVars, gasVars
  <2>7. \A u \in Tokens \ {t} : Circulating(u)' = Circulating(u)
    <3> SUFFICES ASSUME NEW u \in Tokens \ {t}
                 PROVE  Representations(u)' = Representations(u)
      BY <1>2, CirculatingStays DEF Representations
    <3> QED
      BY <2>1, <2>4, BridgeAssumption DEF Representations
  <2>8. Circulating(t)' = Circulating(t)
    <3>1. CASE representationToCanonical[x] = t
      <4>1. Representations(t)' = Representations(t)
        BY <2>4, <3>1 DEF Representations
      <4> QED
        BY <1>2, <4>1, CirculatingStays DEF Representations
    <3>2. CASE representationToCanonical[x] = NoToken
      <4>1. x \notin Representations(t) /\ Representations(t)' = Representations(t) \cup {x}
        BY <2>2, <2>4, <3>2, BridgeAssumption DEF Representations
      <4>2. Circulating(t)' = Circulating(t) + Supply(x)'
        BY <1>1, <1>2, <2>2, <4>1, CirculatingGrows DEF Representations, BalanceType
      <4>3. Supply(x) = 0
        BY <2>2, <3>2, BridgeAssumption, SumOfZeros DEF Sound, UnusedAreEmpty, Supply
      <4>4. Circulating(t) \in Int
        BY <1>2, SidesAreInt
      <4> QED
        BY <1>2, <2>2, <4>2, <4>3, <4>4
    <3> QED
      BY <2>1, <3>1, <3>2
  <2>9. FullyBacked'
    BY <1>1, <1>3, <2>7, <2>8 DEF FullyBacked
  <2> QED
    BY <1>3, <2>3, <2>5, <2>6, <2>9 DEF Sound, RegistryOK
<1>5. ASSUME NEW d \in Domains, NEW e \in Domains, enrollRemoteRouter(d, e)
      PROVE  IInv'
  <2>1. UNCHANGED registryVars
    BY <1>5 DEF enrollRemoteRouter
  <2>2. remotes' \in [Domains -> SUBSET Domains]
    BY <1>5 DEF enrollRemoteRouter, Sound, TypeOK
  <2>3. /\ DefaultsKeepTheirToken' /\ RepresentationsPointBack' /\ RegistryType'
        /\ \A t : Representations(t)' = Representations(t)
    BY <2>1, TablesStay
  <2>4. TypeOK'
    BY <1>1, <2>2, <2>3 DEF Sound, TypeOK, RegistryType, transferVars, gasVars
  <2>5. UnusedAreEmpty'
    BY <1>1, <2>1 DEF Sound, UnusedAreEmpty, registryVars
  <2>6. \A t \in Tokens : Circulating(t)' = Circulating(t)
    BY <1>2, <2>3, CirculatingStays DEF Representations
  <2>7. FullyBacked'
    BY <1>1, <1>3, <2>6 DEF FullyBacked
  <2> QED
    BY <1>3, <2>3, <2>4, <2>5, <2>7 DEF Sound
<1> QED
  BY <1>4, <1>5 DEF Owner

(* What dust leaves of the gas. *)
LEMMA DustStep ==
  ASSUME Sound, NEW d \in Domains, NEW a \in Accounts, dust(d, a)
  PROVE  gas' \in [Domains -> Nat] /\ dusted' \in [Domains -> SUBSET Accounts]
BY DEF Sound, TypeOK, dust, gasVars

(* An advance moves tokens between accounts. *)
LEMMA PreFillStep ==
  ASSUME IInv, PreFill
  PROVE  IInv'
<1> USE DEF IInv
<1>1. PICK a \in Accounts, m \in sent : preFill(a, m)
  BY DEF PreFill
<1> DEFINE x == getLocalAddress(m.destination, m.token)
           n == applyPreFillFee(m.amount)
<1>2. /\ x # NoContract /\ m.recipient # NoAccount /\ balance[x][a] >= n
      /\ liquidityProvider' = [k \in DOMAIN liquidityProvider \cup {m} |->
                                 IF k = m THEN a ELSE liquidityProvider[k]]
      /\ balance' = moved(x, a, m.recipient, n)
      /\ dust(m.destination, m.recipient)
      /\ UNCHANGED <<registryVars, remotes, transferVars, ownerActs>>
  BY <1>1 DEF preFill
<1>3. /\ m.destination \in Domains /\ m.token \in Tokens /\ m.amount \in Nat
      /\ m.recipient \in Accounts
  BY <1>2, BridgeAssumption DEF Sound, TypeOK, Transfer
<1>4. x \in Contracts
  BY <1>2, <1>3, ContractFacts DEF getLocalAddress, Sound, TypeOK
<1>5. n \in Nat
  BY <1>3 DEF applyPreFillFee
<1>6. /\ a \in Holders /\ m.recipient \in Holders /\ a # Router /\ m.recipient # Router
  BY <1>3, BridgeAssumption DEF Holders
<1>7. BalanceType
  BY DEF Sound, TypeOK, BalanceType
<1> HIDE DEF x, n
<1>8. /\ BalanceType' /\ \A y \in Contracts : Supply(y)' = Supply(y)
      /\ \A y \in Contracts \ {x} : balance'[y] = balance[y]
      /\ balance'[x][Router] = balance[x][Router]
  BY <1>2, <1>4, <1>5, <1>6, <1>7, Moving
<1>9. /\ DefaultsKeepTheirToken' /\ RepresentationsPointBack' /\ RegistryType'
      /\ \A t : Representations(t)' = Representations(t)
  BY <1>2, TablesStay
<1>10. IsFiniteSet(sent') /\ NoncesAreUsed' /\ \A t : Owed(t)' = Owed(t)
  BY <1>2, NoncesStayUsed, OwedStays DEF Sound, transferVars
<1>11. gas' \in [Domains -> Nat] /\ dusted' \in [Domains -> SUBSET Accounts]
  BY <1>2, <1>3, DustStep
<1>12. TypeOK'
  BY <1>2, <1>8, <1>9, <1>11 DEF Sound, TypeOK, RegistryType, BalanceType, transferVars
<1>13. UnusedAreEmpty'
  <2> SUFFICES ASSUME NEW y \in Contracts \ Tokens, representationToCanonical[y] = NoToken,
                      NEW h \in Holders
               PROVE  balance'[y][h] = 0
    BY <1>2 DEF UnusedAreEmpty, registryVars
  <2>1. y # x
    BY <1>2, <1>3, BridgeAssumption
       DEF x, getLocalAddress, Sound, RepresentationsPointBack
  <2> QED
    BY <1>8, <2>1 DEF Sound, UnusedAreEmpty
<1>14. \A t \in Tokens : Circulating(t)' = Circulating(t)
  BY <1>7, <1>8, <1>9, CirculatingStays DEF Representations
<1>15. FullyBacked'
  <2>1. \A t \in Tokens : balance'[t][Router] = balance[t][Router]
    BY <1>8, ContractFacts
  <2> QED
    BY <1>10, <1>14, <2>1 DEF FullyBacked
<1> QED
  BY <1>9, <1>10, <1>12, <1>13, <1>15 DEF Sound

(* A migration burns old tokens and mints as many new ones, which          *)
(* represent the same token.                                               *)
LEMMA MigrateStep ==
  ASSUME IInv, Migrate
  PROVE  IInv'
<1> USE DEF IInv
<1>1. PICK a \in Accounts, old \in Contracts : migrate(a, old)
  BY DEF Migrate
<1>a. PICK t : t = representationToCanonical[old]
  OBVIOUS
<1>b. PICK new : new = canonicalToRepresentation[Chain(old)][t]
  OBVIOUS
<1>c. PICK n : n = balance[old][a]
  OBVIOUS
<1>2. /\ t # NoToken /\ new # old /\ balance' = migrated(a, old, new)
      /\ UNCHANGED <<registryVars, remotes, liquidityProvider, transferVars, gasVars>>
  BY <1>1, <1>a, <1>b DEF migrate
<1>3. /\ t \in Tokens /\ Chain(old) \in Domains /\ new \in Contracts
      /\ old \in Representations(t) /\ new \in Representations(t)
      /\ old \notin Tokens /\ new \notin Tokens
  <2>1. t \in Tokens /\ Chain(old) \in Domains /\ old \notin Tokens /\ new # NoContract
    BY <1>2, <1>a, <1>b, ContractFacts DEF Sound, TypeOK, RepresentationsPointBack
  <2>2. new \in Contracts /\ representationToCanonical[new] = t
    BY <1>b, <2>1 DEF Sound, TypeOK, RepresentationsPointBack
  <2>3. new \notin Tokens
    BY <1>2, <2>2 DEF Sound, RepresentationsPointBack
  <2> QED
    BY <1>a, <2>1, <2>2, <2>3 DEF Representations
<1>4. BalanceType /\ a \in Holders /\ Router \in Holders /\ a # Router
  BY BridgeAssumption DEF Sound, TypeOK, BalanceType, Holders
<1>5. /\ n \in Nat /\ balance[new][a] \in Nat /\ BalanceType'
      /\ \A y \in Contracts \ {old, new} : balance'[y] = balance[y]
      /\ balance'[old] = [balance[old] EXCEPT ![a] = 0]
      /\ balance'[new] = [balance[new] EXCEPT ![a] = @ + n]
  <2>1. n \in Nat /\ balance[new][a] \in Nat /\ balance[new][a] + n \in Nat
    BY <1>3, <1>4, <1>c DEF BalanceType
  <2>2. balance' = [balance EXCEPT ![old][a] = 0, ![new][a] = balance[new][a] + n]
    BY <1>2, <1>c DEF migrated
  <2>3. balance[old] \in [Holders -> Nat] /\ balance[new] \in [Holders -> Nat]
    BY <1>3, <1>4 DEF BalanceType
  <2>4. /\ [balance[old] EXCEPT ![a] = 0] \in [Holders -> Nat]
        /\ [balance[new] EXCEPT ![a] = balance[new][a] + n] \in [Holders -> Nat]
    BY <2>1, <2>3
  <2>5. \A y \in Contracts : balance'[y] =
          IF y = old THEN [balance[old] EXCEPT ![a] = 0]
          ELSE IF y = new THEN [balance[new] EXCEPT ![a] = balance[new][a] + n] ELSE balance[y]
    BY <1>2, <1>4, <2>2 DEF BalanceType
  <2>6. BalanceType'
    BY <1>4, <2>2, <2>4, <2>5 DEF BalanceType
  <2> QED
    BY <1>2, <1>3, <2>1, <2>5, <2>6
<1>6. Supply(old)' = Supply(old) - n
  <2>1. /\ balance[old] \in [Holders -> Int] /\ balance'[old] \in [Holders -> Int]
        /\ balance'[old][a] = 0 /\ \A i \in Holders \ {a} : balance'[old][i] = balance[old][i]
    BY <1>4, <1>5 DEF BalanceType
  <2>2. /\ SumFunctionOnSet(balance[old], Holders) \in Int
        /\ SumFunctionOnSet(balance'[old], Holders)
             = SumFunctionOnSet(balance[old], Holders) - n + 0
    BY <1>4, <1>c, <2>1, SupplyOfChanged
  <2> QED
    BY <1>5, <2>2 DEF Supply
<1>7. Supply(new)' = Supply(new) + n
  <2>1. /\ balance[new] \in [Holders -> Int] /\ balance'[new] \in [Holders -> Int]
        /\ balance'[new][a] = balance[new][a] + n
        /\ \A i \in Holders \ {a} : balance'[new][i] = balance[new][i]
    BY <1>3, <1>4, <1>5 DEF BalanceType
  <2>2. /\ SumFunctionOnSet(balance[new], Holders) \in Int
        /\ SumFunctionOnSet(balance'[new], Holders)
             = SumFunctionOnSet(balance[new], Holders) - balance[new][a] + balance'[new][a]
    BY <1>4, <2>1, SupplyOfChanged
  <2>3. balance[new][a] \in Int /\ n \in Int
    BY <1>5
  <2> QED
    BY <2>1, <2>2, <2>3 DEF Supply
<1>8. /\ DefaultsKeepTheirToken' /\ RepresentationsPointBack' /\ RegistryType'
      /\ \A u : Representations(u)' = Representations(u)
  BY <1>2, TablesStay
<1>9. IsFiniteSet(sent') /\ NoncesAreUsed' /\ \A u : Owed(u)' = Owed(u)
  BY <1>2, NoncesStayUsed, OwedStays DEF Sound, transferVars
<1>10. TypeOK'
  BY <1>2, <1>5, <1>8 DEF Sound, TypeOK, RegistryType, BalanceType, transferVars, gasVars
<1>11. UnusedAreEmpty'
  <2>1. representationToCanonical[old] = t /\ representationToCanonical[new] = t
    BY <1>3 DEF Representations
  <2> QED
    BY <1>2, <1>5, <2>1 DEF Sound, UnusedAreEmpty, registryVars
<1>12. \A y \in Contracts \ {old, new} : Supply(y)' = Supply(y)
  BY <1>5 DEF Supply
<1>13. Circulating(t)' = Circulating(t)
  <2> DEFINE R == Representations(t)
             f == [y \in Contracts |-> Supply(y)]
             g == [y \in Contracts |-> Supply(y)']
             h == [y \in Contracts |-> IF y = old THEN Supply(old)' ELSE Supply(y)]
  <2>1. R \subseteq Contracts /\ IsFiniteSet(R)
    BY <1>3, <1>4, SidesAreInt DEF Representations
  <2>2. \A y \in R : Supply(y) \in Int /\ Supply(y)' \in Int
    BY <1>3, <1>4, <1>5, <1>6, <1>7, <1>12, <2>1, SidesAreInt
  <2>3. \A y \in R : f[y] \in Int /\ g[y] \in Int /\ h[y] \in Int
    BY <1>3, <2>1, <2>2
  <2>4. /\ old \in R /\ \A y \in R \ {old} : h[y] = f[y]
        /\ new \in R /\ \A y \in R \ {new} : g[y] = h[y]
    BY <1>3, <1>12, <2>1
  <2>5. /\ f[old] = Supply(old) /\ h[old] = Supply(old)'
        /\ h[new] = Supply(new) /\ g[new] = Supply(new)'
    BY <1>2, <1>3
  <2>6. Circulating(t) = SumFunctionOnSet(f, R) /\ Circulating(t)' = SumFunctionOnSet(g, R)
    BY <1>8 DEF Circulating
  <2>7. Supply(old) \in Int /\ Supply(new) \in Int /\ n \in Int
    BY <1>3, <1>4, <1>5, SidesAreInt
  <2> HIDE DEF R, f, g, h
  <2>8. SumFunctionOnSet(h, R) = SumFunctionOnSet(f, R) - f[old] + h[old]
    BY <2>1, <2>3, <2>4, SumAfterChange
  <2>9. SumFunctionOnSet(g, R) = SumFunctionOnSet(h, R) - h[new] + g[new]
    BY <2>1, <2>3, <2>4, SumAfterChange
  <2>10. SumFunctionOnSet(f, R) \in Int
    BY <2>1, <2>3, SumIsInt
  <2> QED
    BY <1>6, <1>7, <2>5, <2>6, <2>7, <2>8, <2>9, <2>10
<1>14. ASSUME NEW u \in Tokens, u # t
       PROVE  Circulating(u)' = Circulating(u)
  <2>1. \A y \in Representations(u) : Supply(y)' = Supply(y)
    BY <1>3, <1>12, <1>14 DEF Representations
  <2> QED
    BY <1>4, <1>8, <2>1, CirculatingStays
<1>15. FullyBacked'
  <2>1. \A u \in Tokens : balance'[u][Router] = balance[u][Router]
    BY <1>3, <1>5, ContractFacts
  <2> QED
    BY <1>9, <1>13, <1>14, <2>1 DEF FullyBacked
<1> QED
  BY <1>8, <1>9, <1>10, <1>11, <1>15 DEF Sound

(* What handle pays comes out of escrow or into circulation, and is no     *)
(* longer owed; a default deployed for it brings no other supply.          *)
LEMMA HandleStep ==
  ASSUME IInv, Handle
  PROVE  IInv'
<1> USE DEF IInv
<1>1. PICK m \in InTransit : handle(m) \/ handleReverts(m)
  BY DEF Handle
<1>2. /\ m \in sent \ handled /\ m \in Transfer
      /\ m.destination \in Domains /\ m.token \in Tokens /\ m.amount \in Nat \ {0}
  BY BridgeAssumption DEF InTransit, Sound, TypeOK, Transfer
<1>3. BalanceType
  BY DEF Sound, TypeOK, BalanceType
<1>4. \A u \in Tokens : /\ Circulating(u) \in Int /\ Owed(u) \in Int
                        /\ balance[u][Router] = Circulating(u) + Owed(u)
  BY <1>3, SidesAreInt, OwedIsInt DEF FullyBacked
<1>5. CASE handleReverts(m)
  <2>1. /\ reverted' = reverted \cup {m}
        /\ UNCHANGED <<balance, registryVars, remotes, liquidityProvider, sent, handled, gasVars>>
    BY <1>5 DEF handleReverts
  <2>2. /\ DefaultsKeepTheirToken' /\ RepresentationsPointBack' /\ RegistryType'
        /\ \A u : Representations(u)' = Representations(u)
    BY <2>1, TablesStay
  <2>3. IsFiniteSet(sent') /\ NoncesAreUsed' /\ \A u : Owed(u)' = Owed(u)
    BY <2>1, NoncesStayUsed, OwedStays DEF Sound
  <2>4. TypeOK'
    BY <1>2, <2>1, <2>2 DEF Sound, TypeOK, RegistryType, gasVars
  <2>5. UnusedAreEmpty'
    BY <2>1 DEF Sound, UnusedAreEmpty, registryVars
  <2>6. \A u \in Tokens : Circulating(u)' = Circulating(u)
    BY <1>3, <2>1, <2>2, CirculatingStays DEF Supply
  <2>7. FullyBacked'
    BY <2>1, <2>3, <2>6 DEF FullyBacked
  <2> QED
    BY <2>2, <2>3, <2>4, <2>5, <2>7 DEF Sound
<1>6. CASE handle(m)
  <2>1. PICK x : x = LocalToken(m.destination, m.token)
    OBVIOUS
  <2>2. PICK to : to = payee(m)
    OBVIOUS
  <2>3. PICK t \in Tokens : t = m.token
    BY <1>2
  <2>4. PICK n \in Nat \ {0} : n = m.amount
    BY <1>2
  <2>5. /\ to # NoAccount /\ (isLocalOrigin(x) => balance[x][Router] >= n)
        /\ handled' = handled \cup {m}
        /\ ensureLocalToken(m.destination, t)
        /\ balance' = IF isLocalOrigin(x) THEN moved(x, Router, to, n) ELSE minted(x, to, n)
        /\ liquidityProvider' = IF isPreFilled(m) THEN recordsWithout(m) ELSE liquidityProvider
        /\ dust(m.destination, to)
        /\ UNCHANGED <<remotes, sent, reverted, ownerActs>>
    BY <1>6, <2>1, <2>2, <2>3, <2>4 DEF handle, canHandle
  <2>6. to \in Accounts /\ to \in Holders /\ Router \in Holders /\ to # Router
    BY <1>2, <2>2, <2>5, PayeesHaveAccounts, BridgeAssumption DEF Holders
  <2>7. IsFiniteSet(sent') /\ NoncesAreUsed'
    BY <2>5, NoncesStayUsed DEF Sound
  <2>8. /\ Owed(t)' = Owed(t) - n
        /\ \A u \in Tokens \ {t} : Owed(u)' = Owed(u)
    BY <1>2, <2>3, <2>4, <2>5, OwedAfterPayment
  <2>9. gas' \in [Domains -> Nat] /\ dusted' \in [Domains -> SUBSET Accounts]
    BY <1>2, <2>5, <2>6, DustStep
  <2>10. /\ DOMAIN liquidityProvider' \subseteq sent'
         /\ \A k \in DOMAIN liquidityProvider' : liquidityProvider'[k] \in Accounts
    BY <2>5 DEF Sound, TypeOK, recordsWithout
  <2>11. BalanceType' /\ RegistryType' => TypeOK'
    BY <1>2, <2>5, <2>9, <2>10 DEF Sound, TypeOK, BalanceType, RegistryType
  <2>12. /\ x \in Contracts
         /\ \/ /\ x = t /\ isLocalOrigin(x) /\ UNCHANGED registryVars
            \/ /\ x \notin Tokens /\ ~isLocalOrigin(x)
               /\ representationToCanonical[x] = t /\ UNCHANGED registryVars
            \/ /\ x \in Defaults /\ ~isLocalOrigin(x)
               /\ x[2] = t /\ Chain(x) = m.destination /\ chainOf[t] # m.destination
               /\ representationToCanonical[x] = NoToken
               /\ register(m.destination, t, x)
    BY <1>2, <2>1, <2>3, <2>5, LocalTokens
  <2>13. CASE x = t /\ isLocalOrigin(x) /\ UNCHANGED registryVars
    <3>1. /\ DefaultsKeepTheirToken' /\ RepresentationsPointBack' /\ RegistryType'
          /\ \A u : Representations(u)' = Representations(u)
      BY <2>13, TablesStay
    <3>2. /\ BalanceType' /\ \A y \in Contracts : Supply(y)' = Supply(y)
          /\ \A y \in Contracts \ {x} : balance'[y] = balance[y]
          /\ balance'[t][Router] = balance[t][Router] - n
      BY <1>3, <2>5, <2>6, <2>12, <2>13, Moving
    <3>3. \A u \in Tokens : Circulating(u)' = Circulating(u)
      BY <1>3, <3>1, <3>2, CirculatingStays DEF Representations
    <3>4. balance'[t][Router] = Circulating(t)' + Owed(t)'
      BY <1>4, <2>8, <3>2, <3>3
    <3>5. FullyBacked'
      BY <1>4, <2>8, <2>13, <3>2, <3>3, <3>4, ContractFacts DEF FullyBacked
    <3>6. UnusedAreEmpty'
      BY <2>13, <3>2 DEF Sound, UnusedAreEmpty, registryVars
    <3> QED
      BY <2>7, <2>11, <3>1, <3>2, <3>5, <3>6 DEF Sound
  <2>14. CASE ~isLocalOrigin(x)
    <3>1. balance' = [balance EXCEPT ![x][to] = balance[x][to] + n] /\ balance[x][to] + n \in Nat
      BY <1>3, <2>5, <2>6, <2>12, <2>14 DEF minted, BalanceType
    <3>2. /\ BalanceType' /\ \A y \in Contracts \ {x} : balance'[y] = balance[y]
          /\ Supply(x)' = Supply(x) - balance[x][to] + (balance[x][to] + n)
      BY <1>3, <2>6, <2>12, <3>1, Setting
    <3>3. Supply(x)' = Supply(x) + n /\ Supply(x) \in Int
      BY <1>3, <2>6, <2>12, <3>2, SidesAreInt DEF BalanceType
    <3>4. \A y \in Contracts \ {x} : Supply(y)' = Supply(y)
      BY <3>2 DEF Supply
    <3>5. x \notin Tokens
      BY <2>12, <2>14, TokensRepresentNothing
    <3>6. \A u \in Tokens : balance'[u] = balance[u]
      BY <3>2, <3>5, ContractFacts
    <3>7. CASE representationToCanonical[x] = t /\ UNCHANGED registryVars
      <4>1. /\ DefaultsKeepTheirToken' /\ RepresentationsPointBack' /\ RegistryType'
            /\ \A u : Representations(u)' = Representations(u)
        BY <3>7, TablesStay
      <4>2. \A u \in Tokens : x \in Representations(u) <=> u = t
        BY <2>12, <3>7 DEF Representations
      <4>3. Circulating(t)' = Circulating(t) - Supply(x) + Supply(x)'
        BY <1>3, <3>2, <3>4, <4>1, <4>2, CirculatingChanges DEF Representations
      <4>4. \A u \in Tokens \ {t} : Circulating(u)' = Circulating(u)
        BY <1>3, <3>4, <4>1, <4>2, CirculatingStays DEF Representations
      <4>5. Circulating(t)' = Circulating(t) + n
        BY <1>4, <3>3, <4>3
      <4>6. balance'[t][Router] = Circulating(t)' + Owed(t)'
        BY <1>4, <2>8, <3>6, <4>5
      <4>7. FullyBacked'
        BY <1>4, <2>8, <3>6, <4>4, <4>6 DEF FullyBacked
      <4>8. UnusedAreEmpty'
        BY <3>2, <3>7, BridgeAssumption DEF Sound, UnusedAreEmpty, registryVars
      <4> QED
        BY <2>7, <2>11, <3>2, <4>1, <4>7, <4>8 DEF Sound
    <3>8. CASE /\ x \in Defaults /\ x[2] = t
               /\ Chain(x) = m.destination /\ chainOf[t] # m.destination
               /\ representationToCanonical[x] = NoToken
               /\ register(m.destination, t, x)
      <4>1. RegistryType' /\ RegistryOK'
        BY <1>2, <2>12, <3>5, <3>8, RegisterIsSound
      <4>2. \A y \in Contracts : representationToCanonical'[y] =
              IF y = x THEN t ELSE representationToCanonical[y]
        BY <2>12, <3>8 DEF register, Sound, TypeOK
      <4>3. /\ x \notin Representations(t) /\ Representations(t)' = Representations(t) \cup {x}
            /\ \A u \in Tokens \ {t} : /\ x \notin Representations(u)
                                       /\ Representations(u)' = Representations(u)
        BY <2>12, <3>8, <4>2, BridgeAssumption DEF Representations
      <4>4. Circulating(t)' = Circulating(t) + Supply(x)'
        BY <1>3, <2>12, <3>2, <3>4, <4>3, CirculatingGrows DEF Representations
      <4>5. \A u \in Tokens \ {t} : Circulating(u)' = Circulating(u)
        BY <1>3, <3>4, <4>3, CirculatingStays DEF Representations
      <4>6. Supply(x) = 0
        BY <2>12, <3>5, <3>8, BridgeAssumption, SumOfZeros DEF Sound, UnusedAreEmpty, Supply
      <4>7. Circulating(t)' = Circulating(t) + n
        BY <1>4, <3>3, <4>4, <4>6
      <4>8. balance'[t][Router] = Circulating(t)' + Owed(t)'
        BY <1>4, <2>8, <3>6, <4>7
      <4>9. FullyBacked'
        BY <1>4, <2>8, <3>6, <4>5, <4>8 DEF FullyBacked
      <4>10. UnusedAreEmpty'
        BY <3>2, <4>2, BridgeAssumption DEF Sound, UnusedAreEmpty
      <4> QED
        BY <2>7, <2>11, <3>2, <4>1, <4>9, <4>10 DEF Sound, RegistryOK
    <3> QED
      BY <2>12, <2>14, <3>7, <3>8
  <2> QED
    BY <2>12, <2>13, <2>14
<1> QED
  BY <1>1, <1>5, <1>6

(***************************************************************************)
(* The theorems                                                            *)
(***************************************************************************)

(* At first nothing is in escrow, nothing circulates and nothing is owed. *)
LEMMA InitIInv == Init => IInv
<1> SUFFICES ASSUME Init PROVE IInv
  OBVIOUS
<1> USE DEF Init
<1>1. BalanceType
  BY BridgeAssumption DEF BalanceType, Holders
<1>2. TypeOK
  BY <1>1, BridgeAssumption DEF TypeOK, BalanceType
<1>3. Sound
  <2>1. IsFiniteSet(sent) /\ NoncesAreUsed
    BY FS_EmptySet DEF NoncesAreUsed
  <2>2. DefaultsKeepTheirToken /\ RepresentationsPointBack
    BY ContractFacts DEF DefaultsKeepTheirToken, RepresentationsPointBack
  <2>3. UnusedAreEmpty
    BY DEF UnusedAreEmpty
  <2> QED
    BY <1>2, <2>1, <2>2, <2>3 DEF Sound
<1>4. FullyBacked
  <2> SUFFICES ASSUME NEW t \in Tokens
               PROVE  balance[t][Router] = Circulating(t) + Owed(t)
    BY DEF FullyBacked
  <2>1. Representations(t) = {} /\ Unpaid(t) = {}
    BY BridgeAssumption DEF Representations, Unpaid
  <2>2. Circulating(t) = 0 /\ Owed(t) = 0
    BY <2>1, SumOfNothing DEF Circulating, Owed
  <2>3. balance[t][Router] = 0
    BY ContractFacts, BridgeAssumption DEF Holders
  <2> QED
    BY <2>2, <2>3
<1> QED
  BY <1>3, <1>4 DEF IInv

(* Every step keeps the invariant. *)
LEMMA NextIInv == IInv /\ [Next]_vars => IInv'
<1> SUFFICES ASSUME IInv, [Next]_vars PROVE IInv'
  OBVIOUS
<1>1. CASE UNCHANGED vars
  <2>1. UNCHANGED <<balance, registryVars, remotes, liquidityProvider, transferVars, gasVars>>
    BY <1>1 DEF vars
  <2>2. /\ DefaultsKeepTheirToken' /\ RepresentationsPointBack' /\ RegistryType'
        /\ \A u : Representations(u)' = Representations(u)
    BY <2>1, TablesStay DEF IInv
  <2>3. IsFiniteSet(sent') /\ NoncesAreUsed' /\ \A u : Owed(u)' = Owed(u)
    BY <2>1, NoncesStayUsed, OwedStays DEF IInv, Sound, transferVars
  <2>4. TypeOK' /\ UnusedAreEmpty'
    BY <2>1 DEF IInv, Sound, TypeOK, UnusedAreEmpty, registryVars, transferVars, gasVars
  <2>5. \A u \in Tokens : Circulating(u)' = Circulating(u)
    BY <2>1, <2>2, CirculatingStays DEF Supply, BalanceType, IInv, Sound, TypeOK
  <2>6. FullyBacked'
    BY <2>1, <2>3, <2>5 DEF IInv, FullyBacked
  <2> QED
    BY <2>2, <2>3, <2>4, <2>6 DEF IInv, Sound
<1> QED
  BY <1>1, SendStep, HandleStep, PreFillStep, MigrateStep, OwnerStep DEF Next

(* The invariant holds in every reachable state. *)
LEMMA SpecIInv == Spec => []IInv
BY InitIInv, NextIInv, PTL DEF Spec

(* Every variable holds a value of its type; no uint256 balance of an      *)
(* account or of a router's escrow goes below zero.                        *)
THEOREM BridgeTypeOK == Spec => []TypeOK
<1>1. IInv => TypeOK
  BY DEF IInv, Sound
<1> QED
  BY <1>1, SpecIInv, PTL

(* The tables of the TokenRegistries agree with each other, through        *)
(* deployments by handle and enrolments by owners.                         *)
THEOREM BridgeRepresentationsPointBack == Spec => []RepresentationsPointBack
<1>1. IInv => RepresentationsPointBack
  BY DEF IInv, Sound
<1> QED
  BY <1>1, SpecIInv, PTL

(* The escrow of each token is what represents it on all other chains and  *)
(* what transfers still owe, for any number of chains, tokens and          *)
(* accounts, and in every order of transfers, advances, migrations and     *)
(* enrolments.                                                             *)
THEOREM BridgeFullyBacked == Spec => []FullyBacked
<1>1. IInv => FullyBacked
  BY DEF IInv
<1> QED
  BY <1>1, SpecIInv, PTL

(* The router of a token's home can pay every transfer of it that is under *)
(* way: handle never reverts for want of escrow.                           *)
EscrowPays == \A m \in InTransit : balance[m.token][Router] >= m.amount

(* It follows from the conservation law: supplies are not negative, and a  *)
(* transfer under way is among those owed.                                 *)
THEOREM BridgeEscrowPays == Spec => []EscrowPays
<1>1. ASSUME IInv, NEW m \in InTransit
      PROVE  balance[m.token][Router] >= m.amount
  <2>1. PICK t \in Tokens : t = m.token
    BY <1>1 DEF IInv, Sound, TypeOK, Transfer, InTransit
  <2>2. BalanceType /\ m \in Unpaid(t)
    BY <1>1, <2>1 DEF IInv, Sound, TypeOK, BalanceType, InTransit, Unpaid
  <2>3. Circulating(t) \in Nat
    <3> DEFINE f == [x \in Contracts |-> Supply(x)]
    <3>1. \A x \in Contracts : Supply(x) \in Nat
      <4> SUFFICES ASSUME NEW x \in Contracts
                   PROVE  SumFunctionOnSet(balance[x], Holders) \in Nat
        BY DEF Supply
      <4>1. IsFiniteSet(Holders) /\ \A h \in Holders : balance[x][h] \in Nat
        BY <2>2, BridgeAssumption DEF BalanceType
      <4> QED
        BY <4>1, SumIsNat
    <3>2. IsFiniteSet(Representations(t)) /\ \A x \in Representations(t) : f[x] \in Nat
      BY <2>2, <3>1, SidesAreInt DEF Representations
    <3> HIDE DEF f
    <3>3. SumFunctionOnSet(f, Representations(t)) \in Nat
      BY <3>2, SumIsNat
    <3> QED
      BY <3>3 DEF Circulating, f
  <2>4. \E rest \in Nat : Owed(t) = m.amount + rest
    <3> DEFINE f == [k \in sent |-> k.amount]
               U == Unpaid(t)
    <3>1. IsFiniteSet(U) /\ U \subseteq sent /\ \A k \in sent : k.amount \in Nat
      BY <1>1, OwedIsInt DEF IInv
    <3>2. f[m] = m.amount /\ \A k \in U : f[k] \in Nat /\ f[k] \in Int
      BY <2>2, <3>1
    <3>3. IsFiniteSet(U \ {m})
      BY <3>1, FS_Subset
    <3>4. Owed(t) = SumFunctionOnSet(f, U) /\ m \in U
      BY <2>2 DEF Owed
    <3> HIDE DEF f, U
    <3>5. SumFunctionOnSet(f, U) = f[m] + SumFunctionOnSet(f, U \ {m})
      BY <3>1, <3>2, <3>4, SumWithout
    <3>6. SumFunctionOnSet(f, U \ {m}) \in Nat
      BY <3>2, <3>3, SumIsNat
    <3> QED
      BY <3>2, <3>4, <3>5, <3>6
  <2>5. balance[t][Router] = Circulating(t) + Owed(t) /\ m.amount \in Nat
    BY <1>1, <2>2, OwedIsInt DEF IInv, FullyBacked, Unpaid
  <2>6. balance[t][Router] >= m.amount
    BY <2>3, <2>4, <2>5
  <2> QED
    BY <2>1, <2>6
<1>2. IInv => EscrowPays
  BY <1>1 DEF EscrowPays
<1> QED
  BY <1>2, SpecIInv, PTL

(***************************************************************************)
(* What the SDK says of a message.  A status rests on what events() keeps  *)
(* in the cache, which is never taken back, and a block that was found has *)
(* its event for good.                                                     *)
(***************************************************************************)

IsLog(log) == Len(log) \in Nat /\ log = [b \in 1 .. Len(log) |-> log[b]]

Stages == {"not called", "homeUpdate", "replicaUpdate", "process"}

SDKTypeOK ==
  /\ IsLog(homeLog) /\ IsLog(replicaLog)
  /\ cache \in [homeUpdate : Nat, replicaUpdate : Nat, process : Nat]
  /\ awaiting \in Stages
  /\ status \in {None, "Dispatched", "Included", "Relayed", "Processed"}

(* A query is sent for the update on the Replica, or for the process event *)
(* once what comes before it is known.                                     *)
QueriesInOrder ==
  /\ awaiting \in {"replicaUpdate", "process"} => cache.homeUpdate # 0
  /\ awaiting = "process" => cache.replicaUpdate # 0

(* A status that was returned can be told from the cache again. *)
StatusIsKept ==
  /\ status \in {"Included", "Relayed", "Processed"} => cache.homeUpdate # 0
  /\ status \in {"Relayed", "Processed"} => cache.replicaUpdate # 0
  /\ status = "Processed" => cache.process # 0

(* Nothing is known of a message that was not sent, and the process event  *)
(* that was found, by either call, is that of the message.                 *)
AnswersAreTrue ==
  /\ message = 0 => cache = NoCache /\ wait \in {"not called", "called"}
  /\ cache.process # 0 => cache.process \in isProcess
  /\ wait = "returned" => processed(message)

SDKInv == SDKTypeOK /\ QueriesInOrder /\ StatusIsKept /\ AnswersAreTrue

(* The steps of events() that a status may take. *)
Advances ==
  \/ status' = status
  \/ status' = "Dispatched" /\ status \in {None, "Dispatched"}
  \/ status' = "Included" /\ status \in {None, "Dispatched", "Included"}
  \/ status' = "Relayed" /\ status # "Processed"
  \/ status' = "Processed"

(* What was found on a page is in a block that matches the filter. *)
LEMMA FoundBlocks ==
  ASSUME NEW filter, NEW height, NEW e \in getPaginatedEvents(filter, height)
  PROVE  e.block \in filter
BY DEF getPaginatedEvents, queryFilter

(* Blocks are numbered from one. *)
LEMMA BlockNumbers ==
  ASSUME NEW log, IsLog(log), NEW kind
  PROVE  \A b \in Of(log, kind) : b \in 1 .. Len(log) /\ b \in Nat \ {0}
BY DEF IsLog, Of

(* A block more leaves the others where they are. *)
LEMMA OneMoreBlock ==
  ASSUME NEW log, IsLog(log), NEW e
  PROVE  /\ IsLog(Append(log, e))
         /\ \A b \in DOMAIN log : b \in DOMAIN Append(log, e) /\ Append(log, e)[b] = log[b]
<1>1. PICK S : S = {log[b] : b \in 1 .. Len(log)} \cup {e}
  OBVIOUS
<1>2. log \in Seq(S) /\ e \in S
  BY <1>1 DEF IsLog
<1>3. PICK s \in Seq(S) : s = log
  BY <1>2
<1>4. Append(s, e) \in Seq(S)
  BY <1>2
<1>5. PICK longer \in Seq(S) : longer = Append(s, e)
  BY <1>4
<1>6. IsLog(longer)
  BY DEF IsLog
<1>7. \A b \in DOMAIN s : b \in DOMAIN longer /\ longer[b] = s[b]
  BY <1>2, <1>5
<1> QED
  BY <1>3, <1>5, <1>6, <1>7

(* A process event stays where it was found. *)
LEMMA ProcessIsKept ==
  ASSUME IsLog(replicaLog), NEW e, replicaLog' = Append(replicaLog, e), message' = message
  PROVE  /\ isProcess \subseteq isProcess'
         /\ processed(message) => processed(message)'
<1>1. \A b \in DOMAIN replicaLog : b \in DOMAIN replicaLog' /\ replicaLog'[b] = replicaLog[b]
  BY OneMoreBlock
<1>2. Of(replicaLog, "Process") \subseteq Of(replicaLog, "Process")'
  BY <1>1 DEF Of
<1>3. \A b \in Of(replicaLog, "Process") : b \in DOMAIN replicaLog
  BY DEF Of
<1> QED
  BY <1>1, <1>2, <1>3 DEF isProcess, processed

(* The four ends of getHomeUpdate and getReplicaUpdate. *)
LEMMA UpdateQuery ==
  ASSUME NEW field, NEW log, NEW height, NEW next, NEW without,
         getUpdate(field, log, height, next, without)
  PROVE  \/ cache[field] # 0 /\ awaiting' = next /\ UNCHANGED <<cache, status>>
         \/ cache[field] = 0 /\ return(without) /\ UNCHANGED cache
         \/ /\ cache[field] = 0 /\ awaiting' = next /\ UNCHANGED status
            /\ \E b \in isUpdate(log) : cache' = [cache EXCEPT ![field] = b]
         \/ awaiting' = "homeUpdate" /\ UNCHANGED <<cache, status>>
<1>1. PICK updates : updates = getPaginatedEvents(isUpdate(log), height)
  OBVIOUS
<1>2. CASE cache[field] # 0
  BY <1>2 DEF getUpdate
<1>3. CASE cache[field] = 0 /\ updates = {}
  BY <1>1, <1>3 DEF getUpdate
<1>4. CASE cache[field] = 0 /\ updates # {} /\ checkDistinctUpdates(updates)
  <2>1. PICK u \in updates : u = CHOOSE v \in updates : TRUE
    BY <1>4
  <2>2. u.block \in isUpdate(log)
    BY <1>1, <2>1, FoundBlocks
  <2>3. cache' = [cache EXCEPT ![field] = u.block] /\ awaiting' = next /\ UNCHANGED status
    BY <1>1, <1>4, <2>1 DEF getUpdate
  <2> QED
    BY <1>4, <2>2, <2>3
<1>5. CASE cache[field] = 0 /\ updates # {} /\ ~checkDistinctUpdates(updates)
  BY <1>1, <1>5 DEF getUpdate, throw
<1> QED
  BY <1>2, <1>3, <1>4, <1>5

(* Nothing is kept at first. *)
LEMMA NothingKept == NoCache.homeUpdate = 0 /\ NoCache.replicaUpdate = 0 /\ NoCache.process = 0
BY DEF NoCache

(* The initial states. *)
LEMMA InitSDKInv == SDKInit => SDKInv
<1> SUFFICES ASSUME SDKInit PROVE SDKInv
  OBVIOUS
<1>1. IsLog(homeLog) /\ IsLog(replicaLog)
  <2>1. << >> \in Seq({}) /\ Len(<< >>) = 0
    OBVIOUS
  <2>2. << >> = [b \in 1 .. 0 |-> << >>[b]]
    OBVIOUS
  <2> QED
    BY <2>1, <2>2 DEF SDKInit, IsLog
<1>2. /\ cache \in [homeUpdate : Nat, replicaUpdate : Nat, process : Nat]
      /\ cache.process = 0
  BY DEF SDKInit, NoCache
<1>3. SDKTypeOK
  BY <1>1, <1>2 DEF SDKInit, SDKTypeOK, Stages
<1>4. QueriesInOrder /\ StatusIsKept
  BY DEF SDKInit, QueriesInOrder, StatusIsKept, None
<1>5. AnswersAreTrue
  BY <1>2 DEF SDKInit, AnswersAreTrue
<1> QED
  BY <1>3, <1>4, <1>5 DEF SDKInv

(* The chains go on. *)
LEMMA ChainsKeep ==
  ASSUME SDKInv, Chains
  PROVE  SDKInv' /\ Advances
<1>1. (\E e : MineHome(e)) \/ (\E e : MineReplica(e))
  BY DEF Chains, dispatch, update, relay, process, EmptyBlock
<1>2. CASE \E e : MineHome(e)
  <2>1. PICK e : MineHome(e)
    BY <1>2
  <2>2. IsLog(homeLog')
    BY <2>1, OneMoreBlock DEF MineHome, SDKInv, SDKTypeOK
  <2>3. UNCHANGED <<replicaLog, message, cache, awaiting, status, wait>>
    BY <2>1 DEF MineHome, eventsVars, waitVars
  <2>4. SDKTypeOK' /\ QueriesInOrder' /\ StatusIsKept'
    BY <2>2, <2>3 DEF SDKInv, SDKTypeOK, QueriesInOrder, StatusIsKept
  <2>5. AnswersAreTrue'
    BY <2>3 DEF SDKInv, AnswersAreTrue, isProcess, processed, Of
  <2> QED
    BY <2>3, <2>4, <2>5 DEF SDKInv, Advances
<1>3. CASE \E e : MineReplica(e)
  <2>1. PICK e : MineReplica(e)
    BY <1>3
  <2>2. IsLog(replicaLog')
    BY <2>1, OneMoreBlock DEF MineReplica, SDKInv, SDKTypeOK
  <2>3. UNCHANGED <<homeLog, message, cache, awaiting, status, wait>>
    BY <2>1 DEF MineReplica, eventsVars, waitVars
  <2>4. SDKTypeOK' /\ QueriesInOrder' /\ StatusIsKept'
    BY <2>2, <2>3 DEF SDKInv, SDKTypeOK, QueriesInOrder, StatusIsKept
  <2>5. isProcess \subseteq isProcess' /\ (processed(message) => processed(message)')
    BY <2>1, <2>3, ProcessIsKept DEF MineReplica, SDKInv, SDKTypeOK
  <2>6. AnswersAreTrue'
    BY <2>3, <2>5 DEF SDKInv, AnswersAreTrue
  <2> QED
    BY <2>3, <2>4, <2>6 DEF SDKInv, Advances
<1> QED
  BY <1>1, <1>2, <1>3

(* The chains and waitDomain stay as they are: what is left to show of a   *)
(* step of events().                                                       *)
LEMMA EventsKeep ==
  ASSUME SDKInv, UNCHANGED <<chainVars, message, wait>>,
         message # 0, awaiting' \in Stages,
         cache' \in [homeUpdate : Nat, replicaUpdate : Nat, process : Nat],
         status' \in {None, "Dispatched", "Included", "Relayed", "Processed"},
         cache'.process = cache.process \/ cache'.process \in isProcess,
         QueriesInOrder', StatusIsKept'
  PROVE  SDKInv'
<1>1. SDKTypeOK'
  BY DEF SDKInv, SDKTypeOK, chainVars
<1>2. UNCHANGED <<isProcess, processed(message)>>
  BY DEF isProcess, processed, Of, chainVars
<1>3. AnswersAreTrue'
  BY <1>2 DEF SDKInv, AnswersAreTrue
<1> QED
  BY <1>1, <1>3 DEF SDKInv

(* getHomeUpdate *)
LEMMA HomeUpdateKeeps ==
  ASSUME SDKInv, NEW height, getHomeUpdate(height)
  PROVE  SDKInv' /\ Advances
<1>1. UNCHANGED <<chainVars, message, wait>> /\ message # 0
  BY DEF getHomeUpdate, waitVars
<1>2. getUpdate("homeUpdate", homeLog, height, "replicaUpdate", "Dispatched")
  BY DEF getHomeUpdate
<1>3. CASE cache.homeUpdate # 0 /\ awaiting' = "replicaUpdate" /\ UNCHANGED <<cache, status>>
  BY <1>1, <1>3, EventsKeep
     DEF SDKInv, SDKTypeOK, Stages, QueriesInOrder, StatusIsKept, Advances
<1>4. CASE cache.homeUpdate = 0 /\ return("Dispatched") /\ UNCHANGED cache
  <2>1. status \in {None, "Dispatched"}
    BY <1>4 DEF SDKInv, SDKTypeOK, StatusIsKept
  <2> QED
    BY <1>1, <1>4, <2>1, EventsKeep
       DEF SDKInv, SDKTypeOK, Stages, QueriesInOrder, StatusIsKept, return, Advances
<1>5. CASE /\ cache.homeUpdate = 0 /\ awaiting' = "replicaUpdate" /\ UNCHANGED status
           /\ \E b \in isUpdate(homeLog) : cache' = [cache EXCEPT !.homeUpdate = b]
  <2>1. PICK b \in isUpdate(homeLog) : cache' = [cache EXCEPT !.homeUpdate = b]
    BY <1>5
  <2>2. b \in Nat \ {0}
    BY BlockNumbers DEF isUpdate, SDKInv, SDKTypeOK
  <2>3. /\ cache' \in [homeUpdate : Nat, replicaUpdate : Nat, process : Nat]
        /\ cache'.homeUpdate = b /\ cache'.process = cache.process
        /\ cache'.replicaUpdate = cache.replicaUpdate
    BY <2>1, <2>2 DEF SDKInv, SDKTypeOK
  <2> QED
    BY <1>1, <1>5, <2>2, <2>3, EventsKeep
       DEF SDKInv, SDKTypeOK, Stages, QueriesInOrder, StatusIsKept, Advances
<1>6. CASE awaiting' = "homeUpdate" /\ UNCHANGED <<cache, status>>
  BY <1>1, <1>6, EventsKeep
     DEF SDKInv, SDKTypeOK, Stages, QueriesInOrder, StatusIsKept, Advances
<1> QED
  BY <1>2, <1>3, <1>4, <1>5, <1>6, UpdateQuery

(* getReplicaUpdate *)
LEMMA ReplicaUpdateKeeps ==
  ASSUME SDKInv, NEW height, getReplicaUpdate(height)
  PROVE  SDKInv' /\ Advances
<1>1. UNCHANGED <<chainVars, message, wait>> /\ message # 0 /\ cache.homeUpdate # 0
  <2>1. UNCHANGED <<chainVars, message, wait>> /\ cache.homeUpdate # 0
    BY DEF getReplicaUpdate, waitVars, SDKInv, QueriesInOrder
  <2>2. message # 0
    BY <2>1, NothingKept DEF SDKInv, AnswersAreTrue
  <2> QED
    BY <2>1, <2>2
<1>2. getUpdate("replicaUpdate", replicaLog, height, "process", "Included")
  BY DEF getReplicaUpdate
<1>3. CASE cache.replicaUpdate # 0 /\ awaiting' = "process" /\ UNCHANGED <<cache, status>>
  BY <1>1, <1>3, EventsKeep
     DEF SDKInv, SDKTypeOK, Stages, QueriesInOrder, StatusIsKept, Advances
<1>4. CASE cache.replicaUpdate = 0 /\ return("Included") /\ UNCHANGED cache
  <2>1. status \in {None, "Dispatched", "Included"}
    BY <1>4 DEF SDKInv, SDKTypeOK, StatusIsKept
  <2> QED
    BY <1>1, <1>4, <2>1, EventsKeep
       DEF SDKInv, SDKTypeOK, Stages, QueriesInOrder, StatusIsKept, return, Advances
<1>5. CASE /\ cache.replicaUpdate = 0 /\ awaiting' = "process" /\ UNCHANGED status
           /\ \E b \in isUpdate(replicaLog) : cache' = [cache EXCEPT !.replicaUpdate = b]
  <2>1. PICK b \in isUpdate(replicaLog) : cache' = [cache EXCEPT !.replicaUpdate = b]
    BY <1>5
  <2>2. b \in Nat \ {0}
    BY BlockNumbers DEF isUpdate, SDKInv, SDKTypeOK
  <2>3. /\ cache' \in [homeUpdate : Nat, replicaUpdate : Nat, process : Nat]
        /\ cache'.replicaUpdate = b /\ cache'.process = cache.process
        /\ cache'.homeUpdate = cache.homeUpdate
    BY <2>1, <2>2 DEF SDKInv, SDKTypeOK
  <2> QED
    BY <1>1, <1>5, <2>2, <2>3, EventsKeep
       DEF SDKInv, SDKTypeOK, Stages, QueriesInOrder, StatusIsKept, Advances
<1>6. CASE awaiting' = "homeUpdate" /\ UNCHANGED <<cache, status>>
  BY <1>1, <1>6, EventsKeep
     DEF SDKInv, SDKTypeOK, Stages, QueriesInOrder, StatusIsKept, Advances
<1> QED
  BY <1>2, <1>3, <1>4, <1>5, <1>6, UpdateQuery

(* getProcess *)
LEMMA ProcessKeeps ==
  ASSUME SDKInv, NEW height, getProcess(height)
  PROVE  SDKInv' /\ Advances
<1>1. /\ UNCHANGED <<chainVars, message, wait>> /\ message # 0
      /\ cache.homeUpdate # 0 /\ cache.replicaUpdate # 0
  <2>1. UNCHANGED <<chainVars, message, wait>> /\ cache.homeUpdate # 0 /\ cache.replicaUpdate # 0
    BY DEF getProcess, waitVars, SDKInv, QueriesInOrder
  <2>2. message # 0
    BY <2>1, NothingKept DEF SDKInv, AnswersAreTrue
  <2> QED
    BY <2>1, <2>2
<1>2. PICK found : found = getPaginatedEvents(isProcess, height)
  OBVIOUS
<1>3. CASE cache.process # 0 /\ return("Processed") /\ UNCHANGED cache
  BY <1>1, <1>3, EventsKeep
     DEF SDKInv, SDKTypeOK, Stages, QueriesInOrder, StatusIsKept, return, Advances
<1>4. CASE cache.process = 0 /\ return("Relayed") /\ UNCHANGED cache
  <2>1. status # "Processed"
    BY <1>4 DEF SDKInv, SDKTypeOK, StatusIsKept
  <2> QED
    BY <1>1, <1>4, <2>1, EventsKeep
       DEF SDKInv, SDKTypeOK, Stages, QueriesInOrder, StatusIsKept, return, Advances
<1>5. CASE /\ Cardinality(found) = 1
           /\ cache' = [cache EXCEPT !.process = (CHOOSE p \in found : TRUE).block]
           /\ return("Processed")
  <2>1. found # {}
    BY <1>5, FS_EmptySet
  <2>2. PICK p \in found : p = CHOOSE q \in found : TRUE
    BY <2>1
  <2>3. PICK b \in isProcess : cache' = [cache EXCEPT !.process = b]
    BY <1>2, <1>5, <2>2, FoundBlocks
  <2>4. b \in Nat \ {0}
    BY BlockNumbers DEF isProcess, SDKInv, SDKTypeOK
  <2>5. /\ cache' \in [homeUpdate : Nat, replicaUpdate : Nat, process : Nat]
        /\ cache'.process = b /\ cache'.homeUpdate = cache.homeUpdate
        /\ cache'.replicaUpdate = cache.replicaUpdate
    BY <2>3, <2>4 DEF SDKInv, SDKTypeOK
  <2> QED
    BY <1>1, <1>5, <2>4, <2>5, EventsKeep
       DEF SDKInv, SDKTypeOK, Stages, QueriesInOrder, StatusIsKept, return, Advances
<1>6. CASE throw("multiple replica process for same message")
  BY <1>1, <1>6, EventsKeep
     DEF SDKInv, SDKTypeOK, Stages, QueriesInOrder, StatusIsKept, throw, Advances
<1> QED
  BY <1>2, <1>3, <1>4, <1>5, <1>6 DEF getProcess

(* waitDomain *)
LEMMA WaitKeeps ==
  ASSUME SDKInv, registerListener \/ listenerFires \/ \E h \in 0 .. Len(replicaLog) : queryReceived(h)
  PROVE  SDKInv' /\ Advances
<1>1. UNCHANGED <<chainVars, message, cache, awaiting, status>>
  BY DEF registerListener, listenerFires, queryReceived, eventsVars
<1>2. message # 0 /\ (wait' = "returned" => processed(message))
  <2>1. \A from, to : queryFilter(isProcess, from, to) # {} => processed(message)
    BY DEF queryFilter, isProcess, processed
  <2>2. wait \in {"listening", "awaiting listener"} => message # 0
    BY DEF SDKInv, AnswersAreTrue
  <2> QED
    BY <2>1, <2>2 DEF registerListener, listenerFires, queryReceived
<1>3. SDKTypeOK' /\ QueriesInOrder' /\ StatusIsKept'
  BY <1>1 DEF SDKInv, SDKTypeOK, QueriesInOrder, StatusIsKept, chainVars
<1>4. UNCHANGED <<isProcess, processed(message)>>
  BY <1>1 DEF isProcess, processed, Of, chainVars
<1>5. AnswersAreTrue'
  BY <1>1, <1>2, <1>4 DEF SDKInv, AnswersAreTrue
<1> QED
  BY <1>1, <1>3, <1>5 DEF SDKInv, Advances

(* Every step keeps the invariant, and the status. *)
LEMMA NextSDKInv == SDKInv /\ [SDKNext]_sdkVars => SDKInv' /\ Advances
<1> SUFFICES ASSUME SDKInv, [SDKNext]_sdkVars PROVE SDKInv' /\ Advances
  OBVIOUS
<1>1. CASE Chains
  BY <1>1, ChainsKeep
<1>2. CASE singleFromReceipt
  <2>1. UNCHANGED <<chainVars, cache, awaiting, status, wait>> /\ message = 0 /\ message' # 0
    BY <1>2 DEF singleFromReceipt, eventsVars, waitVars
  <2>2. SDKTypeOK' /\ QueriesInOrder' /\ StatusIsKept'
    BY <2>1 DEF SDKInv, SDKTypeOK, QueriesInOrder, StatusIsKept, chainVars
  <2>3. AnswersAreTrue'
    <3>1. cache.process = 0 /\ wait # "returned"
      BY <2>1, NothingKept DEF SDKInv, AnswersAreTrue
    <3> QED
      BY <2>1, <3>1 DEF AnswersAreTrue
  <2> QED
    BY <2>1, <2>2, <2>3 DEF SDKInv, Advances
<1>3. CASE \E h \in 0 .. Len(homeLog) : getHomeUpdate(h)
  BY <1>3, HomeUpdateKeeps
<1>4. CASE \E h \in 0 .. Len(replicaLog) : getReplicaUpdate(h) \/ getProcess(h)
  BY <1>4, ReplicaUpdateKeeps, ProcessKeeps
<1>5. CASE Reject
  <2>1. UNCHANGED <<chainVars, message, wait, cache, status>> /\ message # 0 /\ awaiting' = "homeUpdate"
    BY <1>5 DEF Reject, throw, waitVars
  <2> QED
    BY <2>1, EventsKeep
       DEF SDKInv, SDKTypeOK, Stages, QueriesInOrder, StatusIsKept, Advances
<1>6. CASE registerListener \/ listenerFires \/ \E h \in 0 .. Len(replicaLog) : queryReceived(h)
  BY <1>6, WaitKeeps
<1>7. CASE UNCHANGED sdkVars
  <2>1. UNCHANGED <<homeLog, replicaLog, message, cache, awaiting, status, wait>>
    BY <1>7 DEF sdkVars, chainVars, eventsVars, waitVars
  <2>2. SDKTypeOK' /\ QueriesInOrder' /\ StatusIsKept'
    BY <2>1 DEF SDKInv, SDKTypeOK, QueriesInOrder, StatusIsKept
  <2>3. AnswersAreTrue'
    BY <2>1 DEF SDKInv, AnswersAreTrue, isProcess, processed, Of
  <2> QED
    BY <2>1, <2>2, <2>3 DEF SDKInv, Advances
<1> QED
  BY <1>1, <1>2, <1>3, <1>4, <1>5, <1>6, <1>7 DEF SDKNext

(* Whichever nodes answer, late or never, what events() returns of a       *)
(* message never falls back behind what it returned before.                *)
THEOREM SDKStatusOnlyAdvances == SDKSpec => StatusOnlyAdvances
<1>1. SDKInv /\ [SDKNext]_sdkVars =>
        [\A i, j \in DOMAIN Statuses : status = Statuses[i] /\ status' = Statuses[j] => i <= j]_sdkVars
  <2> SUFFICES ASSUME SDKInv, Advances, NEW i \in DOMAIN Statuses, NEW j \in DOMAIN Statuses,
                      status = Statuses[i], status' = Statuses[j]
               PROVE  i <= j
    BY NextSDKInv
  <2> QED
    BY DEF Statuses, None, Advances
<1> QED
  BY <1>1, InitSDKInv, NextSDKInv, PTL DEF SDKSpec, StatusOnlyAdvances

(* A message that events() reports as Processed was processed on its       *)
(* Replica, and waitDomain returns of a batch that was received.           *)
THEOREM SDKAnswersAreTrue ==
  SDKSpec => [](status = "Processed" \/ wait = "returned" => processed(message))
<1>1. SDKInv => (status = "Processed" \/ wait = "returned" => processed(message))
  BY DEF SDKInv, StatusIsKept, AnswersAreTrue, isProcess, processed
<1>2. SDKInv /\ [SDKNext]_sdkVars => SDKInv'
  BY NextSDKInv
<1> QED
  BY <1>1, <1>2, InitSDKInv, PTL DEF SDKSpec
=============================================================================

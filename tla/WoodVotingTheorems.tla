------------------------- MODULE WoodVotingTheorems -------------------------
(***************************************************************************)
(* Voting by wood, for every number of accounts, every set of woods, every *)
(* forest period and every limit on cleaning: the state is well typed,     *)
(* valid woods are backed by statistics rows, no wood counts twice, live   *)
(* woods keep counting, the rows of the difficulty exist, and an election  *)
(* takes the most voted.                                                   *)
(***************************************************************************)
EXTENDS WoodVoting, AccountSumsTheorems, FiniteSetTheorems, Functions

LEMMA VotingConstants ==
  /\ N \in Nat /\ MaxBlock \in Nat
  /\ Candidates \subseteq Name /\ Owners \subseteq Name /\ Proxies \subseteq Name
  /\ BP_COUNT \in Nat /\ ActiveCycle \in Nat /\ SingingSep \in Nat
  /\ ForestPeriod \in Nat /\ ForestSpace \in Nat
BY VotingAssumption DEF VotingAssumption, Name

-----------------------------------------------------------------------------
(* Cleaning.                                                               *)

(* A slice of statistics rows holds rows that have left the forest period. *)
LEMMA StatSliceRows ==
  ASSUME NEW stat, NEW h, NEW D \in StatSlices(stat, h)
  PROVE  /\ D \in SUBSET (Name \X Block)
         /\ \A r \in D : OutOfPeriod(r[2], h)
BY DEF StatSlices, Slices

LEMMA BurnSliceRows ==
  ASSUME NEW burns, NEW h, NEW limit, NEW E \in BurnSlices(burns, h, limit)
  PROVE  \A r \in E : OutOfPeriod(r[2], h)
BY DEF BurnSlices, Slices

LEMMA WithoutRowsType ==
  ASSUME NEW stat \in [Name -> [Block -> Nat]], NEW D
  PROVE  WithoutRows(stat, D) \in [Name -> [Block -> Nat]]
BY DEF WithoutRows

(* Woods and statistics that agree still agree after cleaning.             *)
Backed(woods, stat) == \A p \in Name : woods[p] = AccountTotal(stat[p], MaxBlock)

LEMMA CleaningKeepsBacked ==
  ASSUME NEW woods \in [Name -> Int], NEW stat \in [Name -> [Block -> Nat]], NEW D,
         Backed(woods, stat)
  PROVE  /\ WoodsAfter(woods, stat, D) \in [Name -> Int]
         /\ Backed(WoodsAfter(woods, stat, D), WithoutRows(stat, D))
<1> DEFINE gone(p) == [b \in Block |-> IF <<p, b>> \in D THEN stat[p][b] ELSE 0]
           kept(p) == [b \in Block |-> IF <<p, b>> \in D THEN 0 ELSE stat[p][b]]
<1>1. ASSUME NEW p \in Name
      PROVE  /\ AccountTotal(gone(p), MaxBlock) \in Int
             /\ AccountTotal(kept(p), MaxBlock) \in Int
             /\ AccountTotal(stat[p], MaxBlock) \in Int
             /\ AccountTotal(stat[p], MaxBlock)
                  = AccountTotal(kept(p), MaxBlock) + AccountTotal(gone(p), MaxBlock)
  <2>1. MaxBlock \in Nat
    BY VotingConstants
  <2>2. stat[p] \in [Block -> Nat]
    OBVIOUS
  <2>3. \A b \in 1..MaxBlock :
          /\ stat[p][b] \in Int /\ gone(p)[b] \in Int /\ kept(p)[b] \in Int
          /\ stat[p][b] = kept(p)[b] + gone(p)[b]
    BY <2>2 DEF Block
  <2> HIDE DEF gone, kept
  <2>4. QED  BY <2>1, <2>3, AccountTotalSplit, AccountTotalType
<1>2. ASSUME NEW p \in Name
      PROVE  /\ WoodsAfter(woods, stat, D)[p] = woods[p] - AccountTotal(gone(p), MaxBlock)
             /\ WithoutRows(stat, D)[p] = kept(p)
  BY DEF WoodsAfter, WithoutRows
<1>3. WoodsAfter(woods, stat, D) \in [Name -> Int]
  <2>1. \A p \in Name : AccountTotal(gone(p), MaxBlock) \in Int
    BY <1>1
  <2>2. QED  BY <2>1 DEF WoodsAfter
<1> HIDE DEF gone, kept
<1>4. ASSUME NEW p \in Name
      PROVE  WoodsAfter(woods, stat, D)[p] = AccountTotal(WithoutRows(stat, D)[p], MaxBlock)
  <2>1. woods[p] = AccountTotal(stat[p], MaxBlock)
    BY DEF Backed
  <2>2. PICK s \in Int, k \in Int, g \in Int :
          /\ s = AccountTotal(stat[p], MaxBlock)
          /\ k = AccountTotal(kept(p), MaxBlock)
          /\ g = AccountTotal(gone(p), MaxBlock)
    BY <1>1
  <2>3. s = k + g
    BY <1>1, <2>2, Zenon
  <2>4. s - g = k
    BY <2>3
  <2>5. WoodsAfter(woods, stat, D)[p] = s - g
    BY <1>2, <2>1, <2>2, Zenon
  <2>6. QED  BY <1>2, <2>2, <2>4, <2>5, Zenon
<1>5. QED  BY <1>3, <1>4 DEF Backed

(* They also agree after one more wood is counted in both.                 *)
LEMMA CountingKeepsBacked ==
  ASSUME NEW woods \in [Name -> Int], NEW stat \in [Name -> [Block -> Nat]],
         NEW p \in Name, NEW b \in Block, Backed(woods, stat)
  PROVE  LET woods2 == [woods EXCEPT ![p] = @ + 1]
             stat2  == [stat EXCEPT ![p][b] = @ + 1]
         IN  /\ woods2 \in [Name -> Int]
             /\ stat2 \in [Name -> [Block -> Nat]]
             /\ Backed(woods2, stat2)
<1> DEFINE woods2 == [woods EXCEPT ![p] = @ + 1]
           stat2  == [stat EXCEPT ![p][b] = @ + 1]
<1>1. woods2 \in [Name -> Int] /\ stat2 \in [Name -> [Block -> Nat]]
  OBVIOUS
<1>2. \A q \in Name : q # p => woods2[q] = woods[q] /\ stat2[q] = stat[q]
  OBVIOUS
<1>3. /\ woods2[p] = woods[p] + 1
      /\ stat2[p][b] = stat[p][b] + 1
      /\ \A c \in Block : c # b => stat2[p][c] = stat[p][c]
  OBVIOUS
<1> HIDE DEF woods2, stat2
<1>4. AccountTotal(stat2[p], MaxBlock) = AccountTotal(stat[p], MaxBlock) + 1
  <2>0. stat[p] \in [Block -> Nat] /\ stat2[p] \in [Block -> Nat]
    BY <1>1
  <2>1. \A c \in 1..MaxBlock : stat[p][c] \in Int /\ stat2[p][c] \in Int
    <3>1. \A f \in [Block -> Nat] : \A c \in 1..MaxBlock : f[c] \in Int
      BY DEF Block
    <3>2. QED  BY <2>0, <3>1, Zenon
  <2>2. MaxBlock \in Nat /\ b \in 1..MaxBlock
    BY VotingConstants DEF Block
  <2>3. AccountTotal(stat2[p], MaxBlock)
          = AccountTotal(stat[p], MaxBlock) - stat[p][b] + stat2[p][b]
    <3>1. \A c \in 1..MaxBlock : c # b => stat2[p][c] = stat[p][c]
      BY <1>3 DEF Block
    <3> DEFINE f == stat[p]
               g == stat2[p]
    <3>2. /\ \A c \in 1..MaxBlock : f[c] \in Int /\ g[c] \in Int
          /\ \A c \in 1..MaxBlock : c # b => g[c] = f[c]
      BY <2>1, <3>1
    <3> HIDE DEF f, g
    <3>3. AccountTotal(g, MaxBlock) = AccountTotal(f, MaxBlock) - f[b] + g[b]
      BY <2>2, <3>2, AccountTotalChange
    <3>4. QED  BY <3>3 DEF f, g
  <2>4. PICK t \in Int, x \in Int : t = AccountTotal(stat[p], MaxBlock) /\ x = stat[p][b]
    BY <2>1, <2>2, AccountTotalType
  <2>5. AccountTotal(stat2[p], MaxBlock) = t - x + (x + 1)
    BY <1>3, <2>3, <2>4, Zenon
  <2>6. t - x + (x + 1) = t + 1
    OBVIOUS
  <2>7. QED  BY <2>4, <2>5, <2>6, Zenon
<1>5. \A q \in Name : woods2[q] = AccountTotal(stat2[q], MaxBlock)
  <2>1. \A q \in Name : woods[q] = AccountTotal(stat[q], MaxBlock)
    BY DEF Backed
  <2>2. QED  BY <1>2, <1>3, <1>4, <2>1, Zenon
<1>6. QED  BY <1>1, <1>5 DEF Backed, woods2, stat2

-----------------------------------------------------------------------------
(* The inductive invariant.  That no wood counts twice needs to know why   *)
(* verify refuses a used wood: while it is within the forest period, its   *)
(* burn record is still there.                                             *)
Used(v) == <<v.wood, v.block, v.owner>>

UsedWoodsAreRecorded ==
  \A v \in counted : ~OutOfPeriod(v.block, head) => Used(v) \in burninfos

UsedWoods == {Used(v) : v \in counted}

VotingInv == /\ TypeOK
             /\ ValidWoodsAreBacked
             /\ UsedWoodsAreRecorded
             /\ IsFiniteSet(UsedWoods)
             /\ total_wood = Cardinality(UsedWoods)

LEMMA VotingInit == Init => VotingInv
<1> SUFFICES ASSUME Init PROVE VotingInv
  OBVIOUS
<1>1. N \in Nat /\ MaxBlock \in Nat
  BY VotingConstants
<1>2. TypeOK
  <2>1. network_active \in BOOLEAN
    BY Zenon DEF Init
  <2>2. prodstat \in [Name -> [Block -> Nat]] /\ block_woods \in [Block -> Nat]
        /\ valid_woods \in [Name -> Int] /\ proxy \in [Name -> 0..N]
    BY <1>1 DEF Init
  <2>3. QED  BY <1>1, <2>1, <2>2 DEF Init, TypeOK
<1>3. ValidWoodsAreBacked
  <2> SUFFICES ASSUME NEW p \in Name PROVE valid_woods[p] = AccountTotal(prodstat[p], MaxBlock)
    BY DEF ValidWoodsAreBacked
  <2>1. valid_woods[p] = 0 /\ \A b \in 1..MaxBlock : prodstat[p][b] = 0
    BY DEF Init, Block
  <2>2. AccountTotal(prodstat[p], MaxBlock) = 0
    BY <1>1, <2>1, AccountTotalZero
  <2>3. QED  BY <2>1, <2>2
<1>4. UsedWoods = {} /\ counted = {}
  BY DEF Init, UsedWoods
<1>5. IsFiniteSet(UsedWoods) /\ total_wood = Cardinality(UsedWoods)
  BY <1>4, FS_EmptySet DEF Init
<1>6. QED  BY <1>2, <1>3, <1>4, <1>5 DEF VotingInv, UsedWoodsAreRecorded

(* Registration and proxies touch no count.                                *)
LEMMA CountsUntouched ==
  ASSUME VotingInv, TypeOK', UNCHANGED <<head, countVars>>
  PROVE  VotingInv'
BY DEF VotingInv, countVars, ValidWoodsAreBacked, UsedWoodsAreRecorded, UsedWoods, Used

LEMMA RegistrationSteps ==
  ASSUME VotingInv,
         \/ \E p \in Candidates : RegProducer(p) \/ UnregProd(p)
         \/ \E a \in Proxies, isproxy \in BOOLEAN : RegProxy(a, isproxy)
         \/ \E a \in Owners, x \in Proxies \union {0} : SetProxy(a, x)
         \/ \E a \in Owners : OpenVoter(a)
  PROVE  VotingInv'
<1>1. Candidates \subseteq Name /\ Proxies \subseteq Name /\ Owners \subseteq Name /\ N \in Nat
  BY VotingConstants
<1>2. TypeOK
  BY DEF VotingInv
<1>3. ASSUME NEW p \in Candidates, RegProducer(p) \/ UnregProd(p) PROVE VotingInv'
  <2>1. TypeOK'
    BY <1>1, <1>2, <1>3
       DEF TypeOK, RegProducer, UnregProd, proxyVars, blockVars, chainVars, countVars
  <2>2. UNCHANGED <<head, countVars>>
    BY <1>3 DEF RegProducer, UnregProd
  <2>3. QED  BY <2>1, <2>2, CountsUntouched
<1>4. ASSUME NEW a \in Proxies, NEW isproxy \in BOOLEAN, RegProxy(a, isproxy) PROVE VotingInv'
  <2>1. /\ voters' = voters \union {a}
        /\ is_proxy' \subseteq is_proxy \union {a}
        /\ UNCHANGED <<head, prodVars, proxy, blockVars, chainVars, countVars>>
    BY <1>4, Zenon DEF RegProxy
  <2>2. TypeOK'
    BY <1>1, <1>2, <2>1 DEF TypeOK, prodVars, blockVars, chainVars, countVars
  <2>3. QED  BY <2>1, <2>2, CountsUntouched
<1>5. ASSUME NEW a \in Owners, NEW x \in Proxies \union {0}, SetProxy(a, x) PROVE VotingInv'
  <2>1. x \in 0..N
    BY <1>1 DEF Name
  <2>2. TypeOK'
    BY <1>1, <1>2, <1>5, <2>1 DEF TypeOK, SetProxy, prodVars, blockVars, chainVars, countVars
  <2>3. UNCHANGED <<head, countVars>>
    BY <1>5 DEF SetProxy
  <2>4. QED  BY <2>2, <2>3, CountsUntouched
<1>6. ASSUME NEW a \in Owners, OpenVoter(a) PROVE VotingInv'
  <2>1. TypeOK'
    BY <1>1, <1>2, <1>6 DEF TypeOK, OpenVoter, prodVars, blockVars, chainVars, countVars
  <2>2. UNCHANGED <<head, countVars>>
    BY <1>6 DEF OpenVoter
  <2>3. QED  BY <2>1, <2>2, CountsUntouched
<1>7. QED  BY <1>3, <1>4, <1>5, <1>6

-----------------------------------------------------------------------------
(* A vote.  Its wood is not among the used ones: verify asks for a block   *)
(* within the period and for no burn record.                               *)
LEMMA VoteStep ==
  ASSUME VotingInv, NEW voter, NEW ownerArg \in Owners \union {0},
         ownerArg = 0 => voter \in Owners,
         NEW wood \in Woods, NEW b \in Block, NEW p \in Candidates,
         VoteProducer(voter, ownerArg, wood, b, p)
  PROVE  VotingInv'
<1> DEFINE owner == IF ownerArg # 0 THEN ownerArg ELSE voter
           woods == [valid_woods EXCEPT ![p] = @ + 1]
           stat  == [prodstat EXCEPT ![p][b] = @ + 1]
           burns == burninfos \union {<<wood, b, owner>>}
           vote  == [wood |-> wood, block |-> b, owner |-> owner, producer |-> p]
<1>1. owner \in Name /\ p \in Name
  BY VotingConstants
<1>2. /\ Verify(wood, b, owner)
      /\ total_wood' = total_wood + 1
      /\ counted' = counted \union {vote}
      /\ blockstat' = blockstat \union {b}
      /\ block_woods' = [block_woods EXCEPT ![b] = @ + 1]
      /\ UNCHANGED <<head, prodVars, proxyVars, suggested, chainVars>>
  BY DEF VoteProducer
<1>3. \/ \E D \in StatSlices(stat, head) :
           \E E \in BurnSlices(burns, head, CleanLimit - Cardinality(D)) :
              /\ prodstat' = WithoutRows(stat, D)
              /\ valid_woods' = WoodsAfter(woods, stat, D)
              /\ burninfos' = burns \ E
      \/ prodstat' = stat /\ valid_woods' = woods /\ burninfos' = burns
  BY DEF VoteProducer
<1>4. /\ woods \in [Name -> Int] /\ stat \in [Name -> [Block -> Nat]]
      /\ Backed(woods, stat)
  <2>1. /\ valid_woods \in [Name -> Int] /\ prodstat \in [Name -> [Block -> Nat]]
        /\ Backed(valid_woods, prodstat)
    BY DEF VotingInv, TypeOK, ValidWoodsAreBacked, Backed
  <2>2. QED  BY <1>1, <2>1, CountingKeepsBacked, Zenon
<1>5. <<wood, b, owner>> \in Woods \X Block \X Name
  BY <1>1
<1>6. vote \in Vote /\ Used(vote) = <<wood, b, owner>> /\ vote.block = b
  BY <1>1 DEF Vote, Used
<1>t. /\ burninfos \in SUBSET (Woods \X Block \X Name) /\ counted \in SUBSET Vote
      /\ blockstat \in SUBSET Block /\ block_woods \in [Block -> Nat] /\ total_wood \in Nat
  BY DEF VotingInv, TypeOK
<1> HIDE DEF owner, woods, stat, burns, vote
<1>7. /\ prodstat' \in [Name -> [Block -> Nat]]
      /\ valid_woods' \in [Name -> Int]
      /\ Backed(valid_woods', prodstat')
  <2>1. ASSUME NEW D, prodstat' = WithoutRows(stat, D), valid_woods' = WoodsAfter(woods, stat, D)
        PROVE  /\ prodstat' \in [Name -> [Block -> Nat]]
               /\ valid_woods' \in [Name -> Int]
               /\ Backed(valid_woods', prodstat')
    BY <1>4, <2>1, CleaningKeepsBacked, WithoutRowsType, Zenon
  <2>2. CASE prodstat' = stat /\ valid_woods' = woods
    BY <1>4, <2>2, Zenon
  <2>3. QED  BY <1>3, <2>1, <2>2, Zenon
<1>8. /\ burninfos' \subseteq burns
      /\ \A r \in burns : ~OutOfPeriod(r[2], head) => r \in burninfos'
  BY <1>3, BurnSliceRows
<1>9. TypeOK'
  <2>1. /\ burninfos' \in SUBSET (Woods \X Block \X Name)
        /\ counted' \in SUBSET Vote
        /\ blockstat' \in SUBSET Block
        /\ block_woods' \in [Block -> Nat]
        /\ total_wood' \in Nat
    BY <1>2, <1>5, <1>6, <1>8, <1>t DEF burns
  <2>2. /\ head' = head /\ registered' = registered /\ active' = active
        /\ voters' = voters /\ is_proxy' = is_proxy /\ proxy' = proxy
        /\ suggested' = suggested /\ last_schedule' = last_schedule
        /\ touch_count' = touch_count /\ network_active' = network_active /\ proposed' = proposed
    BY <1>2 DEF prodVars, proxyVars, chainVars
  <2>3. suggested \subseteq blockstat'
    BY <1>2 DEF VotingInv, TypeOK
  <2>4. QED  BY <1>7, <2>1, <2>2, <2>3 DEF VotingInv, TypeOK
<1>10. ValidWoodsAreBacked'
  BY <1>7 DEF Backed, ValidWoodsAreBacked
<1>11. UsedWoodsAreRecorded'
  <2> SUFFICES ASSUME NEW v \in counted', ~OutOfPeriod(v.block, head)
               PROVE  Used(v) \in burninfos'
    BY <1>2 DEF UsedWoodsAreRecorded, Used
  <2>1. Used(v) \in burns
    BY <1>2, <1>6 DEF VotingInv, UsedWoodsAreRecorded, burns
  <2>2. Used(v)[2] = v.block
    BY DEF Used
  <2>3. QED  BY <1>8, <2>1, <2>2
<1>12. UsedWoods' = UsedWoods \union {<<wood, b, owner>>} /\ <<wood, b, owner>> \notin UsedWoods
  <2>1. UsedWoods' = UsedWoods \union {<<wood, b, owner>>}
    BY <1>2, <1>6 DEF UsedWoods, Used
  <2>2. ASSUME NEW v \in counted, Used(v) = <<wood, b, owner>> PROVE FALSE
    <3>1. v.block = b
      BY <2>2 DEF Used
    <3>2. ~OutOfPeriod(b, head) /\ <<wood, b, owner>> \notin burninfos
      BY <1>2 DEF Verify, VerifyWood
    <3>3. QED  BY <2>2, <3>1, <3>2 DEF VotingInv, UsedWoodsAreRecorded
  <2>3. QED  BY <2>1, <2>2 DEF UsedWoods
<1>13. IsFiniteSet(UsedWoods') /\ total_wood' = Cardinality(UsedWoods')
  <2>1. IsFiniteSet(UsedWoods) /\ total_wood = Cardinality(UsedWoods)
    BY DEF VotingInv
  <2>2. QED  BY <1>2, <1>12, <2>1, FS_AddElement
<1>14. QED  BY <1>9, <1>10, <1>11, <1>13 DEF VotingInv

-----------------------------------------------------------------------------
(* A block.  Time passes, so no wood that was out of the period is valid   *)
(* again; the statistics are cleaned ahead of an election.                 *)
LEMMA BlockStep == ASSUME VotingInv, OnBlock PROVE VotingInv'
<1> DEFINE guess == GuessModifyBlock(head')
<1>1. /\ head < MaxBlock
      /\ head' = head + 1
      /\ UpdateDifficulty(head')
      /\ \/ \E D \in StatSlices(prodstat, guess) :
              /\ prodstat' = WithoutRows(prodstat, D)
              /\ valid_woods' = WoodsAfter(valid_woods, prodstat, D)
         \/ UNCHANGED <<prodstat, valid_woods>>
      /\ \/ UpdateElectedProducers(head', valid_woods')
         \/ UNCHANGED chainVars
      /\ UNCHANGED <<prodVars, proxyVars, burninfos, total_wood, counted>>
  BY DEF OnBlock
<1>2. MaxBlock \in Nat /\ head \in 0..MaxBlock /\ ForestPeriod \in Nat
  BY VotingConstants DEF VotingInv, TypeOK
<1>3. head' \in Block /\ head' \in Nat
  BY <1>1, <1>2 DEF Block
<1>4. /\ prodstat' \in [Name -> [Block -> Nat]]
      /\ valid_woods' \in [Name -> Int]
      /\ Backed(valid_woods', prodstat')
  <2>1. /\ prodstat \in [Name -> [Block -> Nat]] /\ valid_woods \in [Name -> Int]
        /\ Backed(valid_woods, prodstat)
    BY DEF VotingInv, TypeOK, ValidWoodsAreBacked, Backed
  <2> HIDE DEF guess
  <2>2. ASSUME NEW D,
               prodstat' = WithoutRows(prodstat, D),
               valid_woods' = WoodsAfter(valid_woods, prodstat, D)
        PROVE  /\ prodstat' \in [Name -> [Block -> Nat]]
               /\ valid_woods' \in [Name -> Int]
               /\ Backed(valid_woods', prodstat')
    BY <2>1, <2>2, CleaningKeepsBacked, WithoutRowsType, Zenon
  <2>3. CASE prodstat' = prodstat /\ valid_woods' = valid_woods
    BY <2>1, <2>3, Zenon
  <2>4. QED  BY <1>1, <2>2, <2>3, Zenon
<1>5. /\ blockstat' \in SUBSET Block /\ block_woods' \in [Block -> Nat]
      /\ suggested' \in SUBSET blockstat'
  <2>1. /\ blockstat \in SUBSET Block /\ block_woods \in [Block -> Nat]
        /\ suggested \in SUBSET blockstat
    BY DEF VotingInv, TypeOK
  <2>2. CASE head' % ForestSpace = 1
    <3> DEFINE kept == {c \in blockstat \union {head'} : InHistory(c, head')}
    <3>1. /\ blockstat' = kept
          /\ suggested' = (suggested \union {head'}) \intersect kept
          /\ block_woods' = [c \in Block |-> IF c \in kept THEN block_woods[c] ELSE 0]
      BY <1>1, <2>2 DEF UpdateDifficulty
    <3>2. kept \subseteq Block
      BY <1>3, <2>1
    <3> HIDE DEF kept
    <3>3. QED  BY <2>1, <3>1, <3>2
  <2>3. CASE ~(head' % ForestSpace = 1)
    BY <1>1, <2>1, <2>3 DEF UpdateDifficulty, blockVars
  <2>4. QED  BY <2>2, <2>3
<1>6. /\ last_schedule' \in 0..head' /\ touch_count' \in Nat
      /\ network_active' \in BOOLEAN /\ proposed' \in SUBSET Name
  <2>1. /\ last_schedule \in 0..head /\ touch_count \in Nat
        /\ network_active \in BOOLEAN /\ proposed \in SUBSET Name /\ registered \in SUBSET Name
    BY DEF VotingInv, TypeOK
  <2>2. CASE UpdateElectedProducers(head', valid_woods')
    <3>1. last_schedule' = head'
      BY <2>2 DEF UpdateElectedProducers
    <3>2. touch_count' \in {touch_count, touch_count + 1, 0}
      BY <2>2, Zenon DEF UpdateElectedProducers
    <3>3. network_active' \in BOOLEAN
      BY <2>2, Zenon DEF UpdateElectedProducers
    <3>4. proposed' \in {TopProducers(valid_woods'), proposed}
      BY <2>2, Zenon DEF UpdateElectedProducers
    <3>5. TopProducers(valid_woods') \in SUBSET registered
      BY DEF TopProducers
    <3>6. QED  BY <1>3, <2>1, <3>1, <3>2, <3>3, <3>4, <3>5
  <2>3. CASE UNCHANGED chainVars
    BY <1>1, <1>2, <2>1, <2>3 DEF chainVars
  <2>4. QED  BY <1>1, <2>2, <2>3
<1>7. TypeOK'
  <2>1. /\ registered' = registered /\ active' = active
        /\ voters' = voters /\ is_proxy' = is_proxy /\ proxy' = proxy
        /\ burninfos' = burninfos /\ total_wood' = total_wood /\ counted' = counted
    BY <1>1 DEF prodVars, proxyVars
  <2>2. head' \in 0..MaxBlock
    BY <1>1, <1>2
  <2>3. QED  BY <1>4, <1>5, <1>6, <2>1, <2>2 DEF VotingInv, TypeOK
<1>8. ValidWoodsAreBacked'
  BY <1>4 DEF Backed, ValidWoodsAreBacked
<1>9. UsedWoodsAreRecorded'
  <2> SUFFICES ASSUME NEW v \in counted, ~OutOfPeriod(v.block, head')
               PROVE  Used(v) \in burninfos
    BY <1>1 DEF UsedWoodsAreRecorded, Used
  <2>1. v.block \in Nat
    BY <1>2 DEF VotingInv, TypeOK, Vote, Block
  <2>2. ~OutOfPeriod(v.block, head)
    BY <1>1, <1>2, <2>1 DEF OutOfPeriod
  <2>3. QED  BY <2>2 DEF VotingInv, UsedWoodsAreRecorded
<1>10. UsedWoods' = UsedWoods /\ total_wood' = total_wood
  BY <1>1 DEF UsedWoods, Used
<1>11. QED  BY <1>7, <1>8, <1>9, <1>10 DEF VotingInv

LEMMA VotingStep == VotingInv /\ [Next]_vars => VotingInv'
<1> SUFFICES ASSUME VotingInv, [Next]_vars PROVE VotingInv'
  OBVIOUS
<1>1. CASE UNCHANGED vars
  <2>1. TypeOK'
    BY <1>1 DEF VotingInv, TypeOK, vars, prodVars, proxyVars, blockVars, chainVars, countVars
  <2>2. UNCHANGED <<head, countVars>>
    BY <1>1 DEF vars
  <2>3. QED  BY <2>1, <2>2, CountsUntouched
<1>2. CASE Next
  <2>1. ASSUME NEW voter \in Owners \union Proxies, NEW ownerArg \in Owners \union {0},
               NEW wood \in Woods, NEW b \in Block, NEW p \in Candidates,
               ownerArg = 0 => voter \in Owners,
               VoteProducer(voter, ownerArg, wood, b, p)
        PROVE  VotingInv'
    BY <2>1, VoteStep
  <2>2. QED  BY <1>2, <2>1, RegistrationSteps, BlockStep DEF Next
<1>3. QED  BY <1>1, <1>2

LEMMA VotingInvariance == Spec => []VotingInv
BY VotingInit, VotingStep, PTL DEF Spec

(* Every reachable state of voting is well typed.                          *)
THEOREM VotingTypeCorrect == Spec => []TypeOK
<1>1. VotingInv => TypeOK
  BY DEF VotingInv
<1>2. QED  BY <1>1, VotingInvariance, PTL

(* A producer's valid woods always equal the woods of its statistics rows, *)
(* however many rows each vote and each block clean.                       *)
THEOREM WoodsStayBacked == Spec => []ValidWoodsAreBacked
<1>1. VotingInv => ValidWoodsAreBacked
  BY DEF VotingInv
<1>2. QED  BY <1>1, VotingInvariance, PTL

(* A wood is counted at most once, however late its burn record is erased. *)
THEOREM NoDoubleVote == Spec => []NoWoodCountedTwice
<1>1. VotingInv => NoWoodCountedTwice
  BY DEF VotingInv, NoWoodCountedTwice, UsedWoods, Used
<1>2. QED  BY <1>1, VotingInvariance, PTL
-----------------------------------------------------------------------------
(* What is still in use of the statistics is complete.  No election is     *)
(* ever overdue, so a vote's cleaning, which reckons from the head, and a  *)
(* block's, which reckons from the next election, both spare the rows that *)
(* election will count.  And a row of a block is there before any wood is  *)
(* counted in it.                                                          *)
CountedFor(p, b) == {v \in counted : v.producer = p /\ v.block = b}
CountedAt(b) == {v \in counted : v.block = b}

Live(b) == b + ForestPeriod >= last_schedule + SingingSep
Recent(b) == b <= head /\ b + 3 * ForestSpace > head

HistoryInv == /\ IsFiniteSet(counted)
              /\ \A v \in counted : v.block <= head
              /\ head < last_schedule + SingingSep
              /\ \A b \in Block \ blockstat : block_woods[b] = 0
              /\ \A b \in blockstat : b <= head
              /\ LiveWoodsAreKept
              /\ DifficultyHistoryIsExact

LEMMA HistoryInit == Init => HistoryInv
<1> SUFFICES ASSUME Init PROVE HistoryInv
  OBVIOUS
<1>1. SingingSep \in Nat \ {0} /\ head = 0 /\ last_schedule = 0 /\ counted = {}
  BY VotingAssumption DEF VotingAssumption, Init
<1>2. Cardinality({}) = 0 /\ IsFiniteSet({})
  BY FS_EmptySet
<1>3. \A p \in Name, b \in Block : prodstat[p][b] = 0 /\ block_woods[b] = 0
  BY DEF Init
<1>4. LiveWoodsAreKept
  <2>1. \A p, b : {v \in counted : v.producer = p /\ v.block = b} = {}
    BY <1>1
  <2>2. QED  BY <1>2, <1>3, <2>1 DEF LiveWoodsAreKept
<1>5. DifficultyHistoryIsExact
  BY <1>1 DEF DifficultyHistoryIsExact, Block
<1>6. QED  BY <1>1, <1>2, <1>3, <1>4, <1>5 DEF HistoryInv, Init

LEMMA HistoryUntouched ==
  ASSUME HistoryInv, UNCHANGED <<head, countVars, blockVars, chainVars>>
  PROVE  HistoryInv'
BY DEF HistoryInv, countVars, blockVars, chainVars, LiveWoodsAreKept, DifficultyHistoryIsExact

(* A vote counts a wood that was not counted before, in both statistics.   *)
LEMMA VoteIsNew ==
  ASSUME VotingInv, NEW v, NEW b, v.block = b, ~OutOfPeriod(b, head),
         Used(v) \notin burninfos
  PROVE  v \notin counted
BY DEF VotingInv, UsedWoodsAreRecorded

LEMMA HistoryVoteStep ==
  ASSUME VotingInv, HistoryInv, NEW voter, NEW ownerArg \in Owners \union {0},
         ownerArg = 0 => voter \in Owners,
         NEW wood \in Woods, NEW b \in Block, NEW p \in Candidates,
         VoteProducer(voter, ownerArg, wood, b, p)
  PROVE  HistoryInv'
<1> DEFINE owner == IF ownerArg # 0 THEN ownerArg ELSE voter
           stat  == [prodstat EXCEPT ![p][b] = @ + 1]
           vote  == [wood |-> wood, block |-> b, owner |-> owner, producer |-> p]
<1>1. p \in Name /\ ForestPeriod \in Nat /\ ForestSpace \in Nat /\ SingingSep \in Nat
      /\ MaxBlock \in Nat
  BY VotingConstants
<1>2. /\ Verify(wood, b, owner)
      /\ counted' = counted \union {vote}
      /\ blockstat' = blockstat \union {b}
      /\ block_woods' = [block_woods EXCEPT ![b] = @ + 1]
      /\ UNCHANGED <<head, suggested, chainVars>>
  BY DEF VoteProducer
<1>3. \/ \E D \in StatSlices(stat, head) : prodstat' = WithoutRows(stat, D)
      \/ prodstat' = stat
  BY DEF VoteProducer
<1>t. /\ head \in Nat /\ last_schedule \in Nat /\ blockstat \subseteq Block
      /\ prodstat \in [Name -> [Block -> Nat]] /\ block_woods \in [Block -> Nat]
      /\ suggested \subseteq blockstat
  BY <1>1 DEF VotingInv, TypeOK
<1>u. last_schedule' = last_schedule
  BY <1>2 DEF chainVars
<1>4. b <= head /\ ~OutOfPeriod(b, head)
  BY <1>2 DEF Verify, VerifyWood
<1>5. vote \notin counted
  <2>1. vote.block = b /\ Used(vote) = <<wood, b, owner>>
    BY DEF Used
  <2>2. Used(vote) \notin burninfos
    BY <1>2, <2>1 DEF Verify
  <2>3. QED  BY <1>4, <2>1, <2>2, VoteIsNew
<1>v. vote.producer = p /\ vote.block = b
  OBVIOUS
<1> HIDE DEF owner, vote
<1>6. ASSUME NEW q, NEW c
      PROVE  /\ IsFiniteSet(CountedFor(q, c)) /\ IsFiniteSet(CountedAt(c))
             /\ Cardinality(CountedFor(q, c)) \in Nat /\ Cardinality(CountedAt(c)) \in Nat
             /\ Cardinality(CountedFor(q, c)') =
                  IF q = p /\ c = b THEN Cardinality(CountedFor(q, c)) + 1
                  ELSE Cardinality(CountedFor(q, c))
             /\ Cardinality(CountedAt(c)') =
                  IF c = b THEN Cardinality(CountedAt(c)) + 1 ELSE Cardinality(CountedAt(c))
  <2>1. CountedFor(q, c) \subseteq counted /\ CountedAt(c) \subseteq counted
    BY DEF CountedFor, CountedAt
  <2>2. IsFiniteSet(CountedFor(q, c)) /\ IsFiniteSet(CountedAt(c))
    BY <2>1, FS_Subset DEF HistoryInv
  <2>3. /\ CountedFor(q, c)' = IF q = p /\ c = b THEN CountedFor(q, c) \union {vote}
                               ELSE CountedFor(q, c)
        /\ CountedAt(c)' = IF c = b THEN CountedAt(c) \union {vote} ELSE CountedAt(c)
    BY <1>2, <1>v DEF CountedFor, CountedAt
  <2>4. vote \notin CountedFor(q, c) /\ vote \notin CountedAt(c)
    BY <1>5, <2>1
  <2>5. QED  BY <2>2, <2>3, <2>4, FS_AddElement, FS_CardinalityType
<1>7. IsFiniteSet(counted') /\ \A v \in counted' : v.block <= head'
  <2>1. IsFiniteSet(counted \union {vote})
    BY FS_AddElement DEF HistoryInv
  <2>2. QED  BY <1>2, <1>4, <1>v, <2>1 DEF HistoryInv
<1>8. head' < last_schedule' + SingingSep
  BY <1>2, <1>u DEF HistoryInv
<1>9. /\ \A c \in Block \ blockstat' : block_woods'[c] = 0
      /\ \A c \in blockstat' : c <= head'
  BY <1>2, <1>4, <1>t DEF HistoryInv
<1>10. LiveWoodsAreKept'
  <2> SUFFICES ASSUME NEW q \in Name, NEW c \in Block, Live(c)'
               PROVE  prodstat'[q][c] = Cardinality(CountedFor(q, c)')
    BY DEF LiveWoodsAreKept, Live, CountedFor
  <2>1. Live(c) /\ ~OutOfPeriod(c, head) /\ c \in Nat
    BY <1>1, <1>t, <1>u DEF Live, HistoryInv, OutOfPeriod, Block
  <2>2. prodstat[q][c] = Cardinality(CountedFor(q, c))
    BY <2>1 DEF HistoryInv, LiveWoodsAreKept, Live, CountedFor
  <2>3. stat[q][c] = IF q = p /\ c = b THEN prodstat[q][c] + 1 ELSE prodstat[q][c]
    BY <1>1, <1>t
  <2>4. prodstat'[q][c] = stat[q][c]
    <3>1. ASSUME NEW D \in StatSlices(stat, head), prodstat' = WithoutRows(stat, D)
          PROVE  prodstat'[q][c] = stat[q][c]
      <4>1. <<q, c>> \notin D
        <5>1. \A r \in D : OutOfPeriod(r[2], head)
          BY StatSliceRows
        <5>2. QED  BY <2>1, <5>1
      <4>2. QED  BY <3>1, <4>1 DEF WithoutRows
    <3>2. QED  BY <1>3, <3>1
  <2>5. QED  BY <1>6, <2>2, <2>3, <2>4
<1>11. DifficultyHistoryIsExact'
  <2> SUFFICES ASSUME NEW c \in Block, Recent(c)'
               PROVE  /\ block_woods'[c] = Cardinality(CountedAt(c)')
                      /\ c % ForestSpace = 1 => c \in suggested'
    BY DEF DifficultyHistoryIsExact, Recent, CountedAt
  <2>1. /\ block_woods[c] = Cardinality(CountedAt(c))
        /\ c % ForestSpace = 1 => c \in suggested
    BY <1>2 DEF HistoryInv, DifficultyHistoryIsExact, Recent, CountedAt
  <2>2. block_woods'[c] = IF c = b THEN block_woods[c] + 1 ELSE block_woods[c]
    BY <1>2, <1>t
  <2>3. QED  BY <1>2, <1>6, <2>1, <2>2
<1>12. QED  BY <1>7, <1>8, <1>9, <1>10, <1>11 DEF HistoryInv

LEMMA HistoryBlockStep == ASSUME VotingInv, HistoryInv, OnBlock PROVE HistoryInv'
<1> DEFINE h == head + 1
           guess == GuessModifyBlock(h)
<1>1. /\ head' = h
      /\ UpdateDifficulty(h)
      /\ \/ \E D \in StatSlices(prodstat, guess) : prodstat' = WithoutRows(prodstat, D)
         \/ prodstat' = prodstat
      /\ IF h - last_schedule >= SingingSep
         THEN UpdateElectedProducers(h, valid_woods')
         ELSE UNCHANGED chainVars
      /\ counted' = counted
  BY DEF OnBlock
<1>2. /\ ForestPeriod \in Nat /\ ForestSpace \in Nat \ {0, 1} /\ SingingSep \in Nat \ {0}
      /\ MaxBlock \in Nat
  BY VotingAssumption DEF VotingAssumption
<1>t. /\ head \in Nat /\ last_schedule \in Nat /\ blockstat \subseteq Block
      /\ prodstat \in [Name -> [Block -> Nat]] /\ block_woods \in [Block -> Nat]
      /\ suggested \subseteq blockstat
      /\ h \in Block
  BY <1>2 DEF VotingInv, TypeOK, OnBlock, Block
<1>3. head < last_schedule + SingingSep /\ guess = last_schedule + SingingSep
  BY <1>2, <1>t DEF HistoryInv, GuessModifyBlock
<1>4. /\ last_schedule' \in {last_schedule, h}
      /\ h < last_schedule' + SingingSep
      /\ last_schedule <= last_schedule'
  <2>1. CASE h - last_schedule >= SingingSep
    <3>1. last_schedule' = h
      BY <1>1, <2>1 DEF UpdateElectedProducers
    <3>2. QED  BY <1>2, <1>t, <2>1, <3>1
  <2>2. CASE ~(h - last_schedule >= SingingSep)
    <3>1. last_schedule' = last_schedule
      BY <1>1, <2>2 DEF chainVars
    <3>2. QED  BY <1>2, <1>t, <2>2, <3>1
  <2>3. QED  BY <2>1, <2>2
<1>5. IsFiniteSet(counted') /\ \A v \in counted' : v.block <= head'
  <2>1. \A v \in counted : v.block \in Nat
    BY <1>2 DEF VotingInv, TypeOK, Vote, Block
  <2>2. QED  BY <1>1, <1>t, <2>1 DEF HistoryInv
<1>6. LiveWoodsAreKept'
  <2> SUFFICES ASSUME NEW q \in Name, NEW c \in Block, Live(c)'
               PROVE  prodstat'[q][c] = Cardinality(CountedFor(q, c)')
    BY DEF LiveWoodsAreKept, Live, CountedFor
  <2>1. Live(c) /\ ~OutOfPeriod(c, guess) /\ c \in Nat
    <3>1. c \in Nat /\ last_schedule' \in Nat
      BY <1>2, <1>4, <1>t DEF Block
    <3>2. c + ForestPeriod >= last_schedule' + SingingSep
      BY DEF Live
    <3>3. c + ForestPeriod >= last_schedule + SingingSep
      <4>1. last_schedule <= last_schedule'
        BY <1>4
      <4>2. last_schedule \in Nat /\ ForestPeriod \in Nat /\ SingingSep \in Nat
        BY <1>2, <1>t
      <4>3. \A l, m, x, f, n \in Nat : l <= m /\ x + f >= m + n => x + f >= l + n
        OBVIOUS
      <4>4. QED  BY <3>1, <3>2, <4>1, <4>2, <4>3, Zenon
    <3>4. QED  BY <1>2, <1>3, <1>t, <3>1, <3>3 DEF Live, OutOfPeriod
  <2>2. prodstat[q][c] = Cardinality(CountedFor(q, c))
    BY <2>1 DEF HistoryInv, LiveWoodsAreKept, Live, CountedFor
  <2>3. CountedFor(q, c)' = CountedFor(q, c)
    BY <1>1 DEF CountedFor
  <2> HIDE DEF guess
  <2>4. ASSUME NEW D \in StatSlices(prodstat, guess), prodstat' = WithoutRows(prodstat, D)
        PROVE  prodstat'[q][c] = prodstat[q][c]
    <3>1. <<q, c>> \notin D
      <4>1. \A r \in D : OutOfPeriod(r[2], guess)
        BY StatSliceRows
      <4>2. QED  BY <2>1, <4>1
    <3>2. QED  BY <2>4, <3>1 DEF WithoutRows
  <2>5. QED  BY <1>1, <2>2, <2>3, <2>4
<1>7. h \notin blockstat /\ block_woods[h] = 0 /\ CountedAt(h) = {}
  <2>1. \A v \in counted : v.block # h
    BY <1>t DEF HistoryInv
  <2>2. h \notin blockstat
    BY <1>t DEF HistoryInv
  <2>3. QED  BY <1>t, <2>1, <2>2 DEF HistoryInv, CountedAt
<1>8. ASSUME NEW c \in Block, c <= h, c + 3 * ForestSpace > h
      PROVE  block_woods[c] = Cardinality(CountedAt(c))
  <2>1. CASE c = h
    BY <1>7, <2>1, FS_EmptySet
  <2>2. CASE c # h
    <3>1. Recent(c)
      BY <1>2, <1>8, <1>t, <2>2 DEF Recent, Block
    <3>2. QED  BY <3>1 DEF HistoryInv, DifficultyHistoryIsExact, Recent, CountedAt
  <2>3. QED  BY <2>1, <2>2
<1>9. ASSUME NEW c \in Block, c <= h, c + 3 * ForestSpace > h, c # h, c % ForestSpace = 1
      PROVE  c \in suggested
  <2>1. Recent(c)
    BY <1>2, <1>9, <1>t DEF Recent, Block
  <2>2. QED  BY <1>9, <2>1 DEF HistoryInv, DifficultyHistoryIsExact, Recent
<1>10. CASE h % ForestSpace = 1
  <2> DEFINE kept == {c \in blockstat \union {h} : InHistory(c, h)}
  <2>1. /\ blockstat' = kept
        /\ suggested' = (suggested \union {h}) \intersect kept
        /\ block_woods' = [c \in Block |-> IF c \in kept THEN block_woods[c] ELSE 0]
    BY <1>1, <1>10 DEF UpdateDifficulty
  <2>2. \A c \in kept : c \in Block /\ c <= h
    BY <1>t DEF HistoryInv, Block
  <2>3. DifficultyHistoryIsExact'
    <3> SUFFICES ASSUME NEW c \in Block, Recent(c)'
                 PROVE  /\ block_woods'[c] = Cardinality(CountedAt(c)')
                        /\ c % ForestSpace = 1 => c \in suggested'
      BY DEF DifficultyHistoryIsExact, Recent, CountedAt
    <3>1. c <= h /\ c + 3 * ForestSpace > h /\ CountedAt(c)' = CountedAt(c)
      BY <1>1 DEF Recent, CountedAt
    <3>2. c \in Nat /\ InHistory(c, h)
      BY <1>2, <1>t, <3>1 DEF InHistory, Block
    <3>3. c \in blockstat \union {h} <=> c \in kept
      BY <3>2
    <3> HIDE DEF kept
    <3>4. block_woods'[c] = block_woods[c]
      <4>1. CASE c \in kept
        BY <2>1, <4>1
      <4>2. CASE c \notin kept
        BY <2>1, <3>3, <4>2 DEF HistoryInv
      <4>3. QED  BY <4>1, <4>2
    <3>5. c % ForestSpace = 1 => c \in suggested'
      <4>1. ASSUME c % ForestSpace = 1 PROVE c \in suggested \union {h}
        BY <1>9, <3>1, <4>1
      <4>2. suggested \union {h} \subseteq blockstat \union {h}
        BY <1>t
      <4>3. QED  BY <2>1, <3>3, <4>1, <4>2
    <3>6. QED  BY <1>8, <3>1, <3>4, <3>5
  <2>4. \A c \in Block \ blockstat' : block_woods'[c] = 0
    <3> HIDE DEF kept
    <3>1. QED  BY <2>1
  <2>5. \A c \in blockstat' : c <= head'
    <3> HIDE DEF kept
    <3>1. QED  BY <1>1, <2>1, <2>2
  <2>6. QED  BY <1>1, <1>4, <1>5, <1>6, <2>3, <2>4, <2>5 DEF HistoryInv
<1>11. CASE h % ForestSpace # 1
  <2>1. UNCHANGED blockVars
    BY <1>1, <1>11 DEF UpdateDifficulty
  <2>2. DifficultyHistoryIsExact'
    <3> SUFFICES ASSUME NEW c \in Block, Recent(c)'
                 PROVE  /\ block_woods'[c] = Cardinality(CountedAt(c)')
                        /\ c % ForestSpace = 1 => c \in suggested'
      BY DEF DifficultyHistoryIsExact, Recent, CountedAt
    <3>1. c <= h /\ c + 3 * ForestSpace > h /\ CountedAt(c)' = CountedAt(c)
      BY <1>1 DEF Recent, CountedAt
    <3>2. block_woods' = block_woods /\ suggested' = suggested
      BY <2>1 DEF blockVars
    <3>3. QED  BY <1>8, <1>9, <1>11, <3>1, <3>2
  <2>3. /\ \A c \in Block \ blockstat' : block_woods'[c] = 0
        /\ \A c \in blockstat' : c <= head'
    <3>1. \A c \in blockstat : c \in Nat /\ c <= head
      BY <1>t DEF HistoryInv, Block
    <3>2. QED  BY <1>1, <1>t, <2>1, <3>1 DEF blockVars, HistoryInv
  <2>4. QED  BY <1>1, <1>4, <1>5, <1>6, <2>2, <2>3 DEF HistoryInv
<1>12. QED  BY <1>10, <1>11

LEMMA HistoryStep == VotingInv /\ HistoryInv /\ [Next]_vars => HistoryInv'
<1> SUFFICES ASSUME VotingInv, HistoryInv, [Next]_vars PROVE HistoryInv'
  OBVIOUS
<1>1. CASE UNCHANGED vars
  BY <1>1, HistoryUntouched DEF vars
<1>2. ASSUME NEW p, RegProducer(p) \/ UnregProd(p) PROVE HistoryInv'
  BY <1>2, HistoryUntouched DEF RegProducer, UnregProd
<1>3. ASSUME NEW a, NEW x, RegProxy(a, x) \/ SetProxy(a, x) \/ OpenVoter(a) PROVE HistoryInv'
  BY <1>3, HistoryUntouched DEF RegProxy, SetProxy, OpenVoter
<1>4. ASSUME NEW voter \in Owners \union Proxies, NEW ownerArg \in Owners \union {0},
             NEW wood \in Woods, NEW b \in Block, NEW p \in Candidates,
             ownerArg = 0 => voter \in Owners,
             VoteProducer(voter, ownerArg, wood, b, p)
      PROVE  HistoryInv'
  BY <1>4, HistoryVoteStep
<1>5. QED  BY <1>1, <1>2, <1>3, <1>4, HistoryBlockStep DEF Next

LEMMA HistoryInvariance == Spec => []HistoryInv
<1>1. VotingInv /\ HistoryInv /\ [Next]_vars => HistoryInv'
  BY HistoryStep
<1>2. QED  BY <1>1, VotingInvariance, HistoryInit, PTL DEF Spec

(* Neither a vote's cleaning nor a block's takes a wood that the next      *)
(* election must count, for any slices, periods and spacings.              *)
THEOREM LiveWoodsStay == Spec => []LiveWoodsAreKept
<1>1. HistoryInv => LiveWoodsAreKept
  BY DEF HistoryInv
<1>2. QED  BY <1>1, HistoryInvariance, PTL

(* The rows of the last three difficulties are complete whenever the next  *)
(* one is computed, whichever rows old votes create and blocks erase.      *)
THEOREM DifficultyHistoryStays == Spec => []DifficultyHistoryIsExact
<1>1. HistoryInv => DifficultyHistoryIsExact
  BY DEF HistoryInv
<1>2. QED  BY <1>1, HistoryInvariance, PTL
-----------------------------------------------------------------------------
(* The election.  In a finite set in strict order there are exactly k      *)
(* elements with fewer than k before them.                                 *)
StrictOrder(R, E) ==
  /\ R \subseteq E \X E
  /\ \A p \in E : <<p, p>> \notin R
  /\ \A p, q \in E : p # q => <<p, q>> \in R \/ <<q, p>> \in R
  /\ \A p, q, r \in E : <<p, q>> \in R /\ <<q, r>> \in R => <<p, r>> \in R

Ahead(R, E, p) == {q \in E : <<q, p>> \in R}
First(R, E, k) == {p \in E : Cardinality(Ahead(R, E, p)) < k}

LEMMA AheadGrows ==
  ASSUME NEW E, IsFiniteSet(E), NEW R, StrictOrder(R, E),
         NEW p \in E, NEW q \in E, <<p, q>> \in R
  PROVE  Cardinality(Ahead(R, E, p)) < Cardinality(Ahead(R, E, q))
<1>1. /\ Ahead(R, E, p) \subseteq Ahead(R, E, q)
      /\ p \in Ahead(R, E, q) /\ p \notin Ahead(R, E, p)
  BY DEF Ahead, StrictOrder
<1>2. Ahead(R, E, q) \subseteq E
  BY DEF Ahead
<1>3. /\ IsFiniteSet(Ahead(R, E, q)) /\ IsFiniteSet(Ahead(R, E, p))
      /\ Cardinality(Ahead(R, E, p)) <= Cardinality(Ahead(R, E, q))
      /\ Cardinality(Ahead(R, E, p)) # Cardinality(Ahead(R, E, q))
  BY <1>1, <1>2, FS_Subset
<1>4. QED  BY <1>3, FS_CardinalityType

LEMMA FirstCount ==
  ASSUME NEW E, IsFiniteSet(E), NEW R, StrictOrder(R, E),
         NEW k \in Nat, k <= Cardinality(E)
  PROVE  Cardinality(First(R, E, k)) = k
<1> DEFINE n == Cardinality(E)
           rank == [p \in E |-> Cardinality(Ahead(R, E, p))]
           T == First(R, E, k)
           rankT == [p \in T |-> rank[p]]
<1>1. n \in Nat
  BY FS_CardinalityType
<1>2. ASSUME NEW p \in E PROVE rank[p] \in 0..n-1
  <2>1. Ahead(R, E, p) \subseteq E /\ p \notin Ahead(R, E, p)
    BY DEF Ahead, StrictOrder
  <2>2. /\ IsFiniteSet(Ahead(R, E, p))
        /\ Cardinality(Ahead(R, E, p)) <= n /\ Cardinality(Ahead(R, E, p)) # n
    BY <2>1, FS_Subset
  <2>3. Cardinality(Ahead(R, E, p)) \in Nat
    BY <2>2, FS_CardinalityType
  <2>4. QED  BY <1>1, <2>2, <2>3
<1>3. ASSUME NEW p \in E, NEW q \in E, rank[p] = rank[q] PROVE p = q
  <2>1. Cardinality(Ahead(R, E, p)) = Cardinality(Ahead(R, E, q))
    BY <1>3
  <2>2. Cardinality(Ahead(R, E, p)) \in Int
    BY <1>2
  <2>3. ~(<<p, q>> \in R) /\ ~(<<q, p>> \in R)
    BY <2>1, <2>2, AheadGrows
  <2>4. QED  BY <2>3 DEF StrictOrder
<1>4. rank \in Injection(E, 0..n-1)
  <2>1. rank \in [E -> 0..n-1]
    BY <1>2
  <2>2. QED  BY <1>3, <2>1 DEF Injection, IsInjective
<1>5. rank \in Surjection(E, 0..n-1)
  <2>1. IsFiniteSet(0..n-1) /\ Cardinality(0..n-1) = n
    <3> HIDE DEF n
    <3>1. 0 \in Int /\ n-1 \in Int
      BY <1>1
    <3>2. QED  BY <1>1, <3>1, FS_Interval
  <2>2. QED  BY <1>4, <2>1, FS_Injection
<1>6. T \subseteq E /\ IsFiniteSet(T)
  BY FS_Subset DEF First
<1>7. \A p \in E : p \in T <=> rank[p] < k
  BY DEF First
<1>8. rankT \in Injection(T, 0..k-1)
  <2> HIDE DEF T, rank
  <2>1. \A p \in T : p \in E /\ rank[p] \in 0..k-1
    BY <1>1, <1>2, <1>6, <1>7
  <2>2. rankT \in [T -> 0..k-1]
    BY <2>1
  <2>3. \A p, q \in T : rankT[p] = rankT[q] => p = q
    BY <1>3, <2>1
  <2>4. QED  BY <2>2, <2>3 DEF Injection, IsInjective
<1>9. rankT \in Surjection(T, 0..k-1)
  <2> HIDE DEF T, rank
  <2>1. ASSUME NEW i \in 0..k-1 PROVE \E p \in T : rankT[p] = i
    <3>1. i \in 0..n-1 /\ i < k
      BY <1>1
    <3>2. PICK p \in E : rank[p] = i
      BY <1>5, <3>1 DEF Surjection
    <3>3. p \in T
      BY <1>7, <3>1, <3>2
    <3>4. QED  BY <3>2, <3>3
  <2>2. rankT \in [T -> 0..k-1]
    BY <1>8 DEF Injection
  <2>3. QED  BY <2>1, <2>2 DEF Surjection
<1>10. Cardinality(0..k-1) = Cardinality(T)
  <2> HIDE DEF T, rankT
  <2>1. QED  BY <1>6, <1>8, <1>9, FS_Surjection
<1>11. Cardinality(0..k-1) = k
  BY FS_Interval
<1>12. QED  BY <1>10, <1>11

(* The order of the index, among the producers that can be elected.        *)
Better(woods) ==
  LET E == {p \in active : woods[p] > 0}
  IN  {e \in E \X E : \/ woods[e[1]] > woods[e[2]]
                      \/ woods[e[1]] = woods[e[2]] /\ e[1] < e[2]}

(* An inactive producer, or one without wood, is behind every producer     *)
(* that can be elected, so the walk through the index finds them all.      *)
LEMMA TopIsFirst ==
  ASSUME TypeOK, NEW woods \in [Name -> Nat]
  PROVE  LET E == {p \in active : woods[p] > 0}
         IN  /\ StrictOrder(Better(woods), E)
             /\ TopProducers(woods) = First(Better(woods), E, BP_COUNT)
<1> DEFINE E == {p \in active : woods[p] > 0}
           before(q, p) == \/ ByVotes(q, active, woods) < ByVotes(p, active, woods)
                           \/ ByVotes(q, active, woods) = ByVotes(p, active, woods) /\ q < p
           eligible(p)  == p \in active /\ woods[p] > 0
           ahead(p)     == {q \in registered : before(q, p)}
<1>1. active \subseteq registered /\ registered \subseteq Name /\ Name \subseteq Int
  BY VotingConstants DEF TypeOK, Name
<1>2. E \subseteq Name /\ \A p \in E : woods[p] \in Int /\ p \in Int
  <2>1. E \subseteq Name
    BY <1>1
  <2>2. \A p \in Name : woods[p] \in Int /\ p \in Int
    BY <1>1
  <2> HIDE DEF E
  <2>3. QED  BY <2>1, <2>2
<1>3. StrictOrder(Better(woods), E)
  BY <1>2 DEF StrictOrder, Better
<1>4. ASSUME NEW p \in E, NEW q \in registered
      PROVE  before(q, p) <=> q \in E /\ <<q, p>> \in Better(woods)
  <2>1. /\ p \in active /\ woods[p] \in Int /\ woods[p] > 0
        /\ q \in Name /\ woods[q] \in Nat
    BY <1>1
  <2>2. ByVotes(p, active, woods) = -woods[p]
    BY <2>1 DEF ByVotes
  <2>3. CASE q \in E
    <3>1. q \in active /\ woods[q] > 0 /\ ByVotes(q, active, woods) = -woods[q]
      BY <2>3 DEF ByVotes
    <3>2. before(q, p) <=> woods[q] > woods[p] \/ (woods[q] = woods[p] /\ q < p)
      BY <2>1, <2>2, <3>1
    <3>3. <<q, p>> \in Better(woods) <=> woods[q] > woods[p] \/ (woods[q] = woods[p] /\ q < p)
      BY <2>1, <2>3, <3>1 DEF Better
    <3>4. QED  BY <2>3, <3>2, <3>3
  <2>4. CASE q \notin E
    <3>1. ByVotes(q, active, woods) \in Nat
      BY <2>1, <2>4 DEF ByVotes
    <3>2. ~before(q, p)
      BY <2>1, <2>2, <3>1
    <3>3. QED  BY <2>4, <3>2
  <2>5. QED  BY <2>3, <2>4
<1>5. ASSUME NEW p \in E PROVE ahead(p) = Ahead(Better(woods), E, p)
  <2>1. E \subseteq registered
    BY <1>1
  <2> HIDE DEF before, E
  <2>2. QED  BY <1>4, <2>1 DEF Ahead
<1>6. TopProducers(woods) = {p \in registered : /\ eligible(p)
                                                /\ \A q \in ahead(p) : eligible(q)
                                                /\ Cardinality(ahead(p)) < BP_COUNT}
  BY DEF TopProducers
<1>7. \A p \in registered : eligible(p) <=> p \in E
  OBVIOUS
<1>8. \A p \in E : \A q \in ahead(p) : eligible(q)
  <2>1. \A p \in E : ahead(p) \subseteq E
    <3> HIDE DEF E, ahead
    <3>1. QED  BY <1>5 DEF Ahead
  <2>2. QED  BY <2>1
<1>9. E \subseteq registered
  BY <1>1
<1>10. TopProducers(woods) = First(Better(woods), E, BP_COUNT)
  <2> HIDE DEF E, ahead, eligible
  <2>1. QED  BY <1>5, <1>6, <1>7, <1>8, <1>9 DEF First
<1>11. QED  BY <1>3, <1>10

LEMMA ElectionStep ==
  ASSUME VotingInv, VotingInv', OnBlock, last_schedule' # last_schedule,
         Cardinality(Electable') >= BP_COUNT,
         network_active \/ touch_count + 1 >= ActiveCycle
  PROVE  /\ network_active'
         /\ proposed' \subseteq Electable'
         /\ Cardinality(proposed') = BP_COUNT
         /\ \A p \in proposed', q \in Electable' \ proposed' :
              \/ valid_woods'[p] > valid_woods'[q]
              \/ valid_woods'[p] = valid_woods'[q] /\ p < q
<1> DEFINE E == {p \in active : valid_woods'[p] > 0}
           R == Better(valid_woods')
           top == TopProducers(valid_woods')
<1>1. BP_COUNT \in Nat /\ ActiveCycle \in Nat /\ MaxBlock \in Nat /\ N \in Nat
  BY VotingConstants
<1>2. Electable' = E
  BY DEF OnBlock, prodVars, Electable
<1>3. valid_woods' \in [Name -> Nat]
  <2>1. valid_woods' \in [Name -> Int] /\ prodstat' \in [Name -> [Block -> Nat]]
    BY DEF VotingInv, TypeOK
  <2>2. ASSUME NEW p \in Name PROVE valid_woods'[p] \in Nat
    <3>1. valid_woods'[p] = AccountTotal(prodstat'[p], MaxBlock)
      BY DEF VotingInv, ValidWoodsAreBacked
    <3>2. prodstat'[p] \in [1..MaxBlock -> Nat]
      BY <2>1 DEF Block
    <3> DEFINE f == prodstat'[p]
    <3>3. \A i \in 1..MaxBlock : f[i] \in Nat
      BY <3>2
    <3> HIDE DEF f
    <3>4. AccountTotal(f, MaxBlock) \in Nat
      BY <1>1, <3>3, AccountTotalNat
    <3>5. QED  BY <3>1, <3>4 DEF f
  <2>3. QED  BY <2>1, <2>2
<1>4. StrictOrder(R, E) /\ top = First(R, E, BP_COUNT)
  BY <1>3, TopIsFirst DEF VotingInv
<1>5. E \subseteq Name /\ IsFiniteSet(E)
  <2>1. E \subseteq Name
    BY DEF VotingInv, TypeOK
  <2>2. IsFiniteSet(Name)
    BY <1>1, FS_Interval DEF Name
  <2>3. QED  BY <2>1, <2>2, FS_Subset
<1> HIDE DEF E, R, top
<1>6. Cardinality(top) = BP_COUNT
  BY <1>1, <1>2, <1>4, <1>5, FS_CardinalityType, FirstCount
<1>7. UpdateElectedProducers(head', valid_woods')
  BY DEF OnBlock, chainVars
<1>8. network_active' /\ proposed' = top
  <2>1. touch_count \in Nat /\ network_active \in BOOLEAN
    BY DEF VotingInv, TypeOK
  <2>2. Cardinality(top) >= BP_COUNT
    BY <1>1, <1>6
  <2>3. network_active' = (network_active \/
          (IF network_active THEN touch_count ELSE touch_count + 1) >= ActiveCycle)
    BY <1>7, <2>2, Zenon DEF UpdateElectedProducers, top
  <2>4. network_active'
    BY <2>3, Zenon
  <2>5. proposed' = IF network_active' /\ Cardinality(top) >= BP_COUNT THEN top ELSE proposed
    BY <1>7, Zenon DEF UpdateElectedProducers, top
  <2>6. QED  BY <2>2, <2>4, <2>5
<1>9. ASSUME NEW p \in top, NEW q \in E \ top
      PROVE  \/ valid_woods'[p] > valid_woods'[q]
             \/ valid_woods'[p] = valid_woods'[q] /\ p < q
  <2>1. p \in E /\ q \in E /\ p # q
    BY <1>4, <1>9 DEF First
  <2>2. ~(<<q, p>> \in R)
    <3>1. SUFFICES ASSUME <<q, p>> \in R PROVE FALSE
      OBVIOUS
    <3>2. Cardinality(Ahead(R, E, q)) < Cardinality(Ahead(R, E, p))
      BY <1>4, <1>5, <2>1, <3>1, AheadGrows
    <3>3. Cardinality(Ahead(R, E, p)) < BP_COUNT
      BY <1>4 DEF First
    <3>4. ASSUME NEW r PROVE Cardinality(Ahead(R, E, r)) \in Nat
      <4>1. Ahead(R, E, r) \subseteq E
        BY DEF Ahead
      <4>2. QED  BY <1>5, <4>1, FS_Subset, FS_CardinalityType
    <3>5. Cardinality(Ahead(R, E, q)) < BP_COUNT
      BY <1>1, <3>2, <3>3, <3>4
    <3>6. QED  BY <1>4, <2>1, <3>5 DEF First
  <2>3. <<p, q>> \in R
    BY <1>4, <2>1, <2>2 DEF StrictOrder
  <2>4. QED  BY <2>3 DEF R, Better
<1>10. top \subseteq E
  BY <1>4 DEF First
<1>11. QED  BY <1>2, <1>6, <1>8, <1>9, <1>10

(* Every election with enough candidates proposes the producers with most  *)
(* woods, however inactive producers and their woods lie in the index.     *)
THEOREM TheMostVotedAreElected == Spec => ElectionTakesTheMostVoted
<1>1. ASSUME VotingInv, VotingInv', Next, last_schedule' # last_schedule,
             Cardinality(Electable') >= BP_COUNT,
             network_active \/ touch_count + 1 >= ActiveCycle
      PROVE  /\ network_active'
             /\ proposed' \subseteq Electable'
             /\ Cardinality(proposed') = BP_COUNT
             /\ \A p \in proposed', q \in Electable' \ proposed' :
                  \/ valid_woods'[p] > valid_woods'[q]
                  \/ valid_woods'[p] = valid_woods'[q] /\ p < q
  <2>1. \A p : ~RegProducer(p) /\ ~UnregProd(p)
    BY <1>1 DEF RegProducer, UnregProd, chainVars
  <2>2. \A a, x : ~RegProxy(a, x) /\ ~SetProxy(a, x) /\ ~OpenVoter(a)
    BY <1>1 DEF RegProxy, SetProxy, OpenVoter, chainVars
  <2>3. \A voter, ownerArg, wood, b, p : ~VoteProducer(voter, ownerArg, wood, b, p)
    BY <1>1 DEF VoteProducer, chainVars
  <2>4. OnBlock
    BY <1>1, <2>1, <2>2, <2>3 DEF Next
  <2>5. QED  BY <1>1, <2>4, ElectionStep
<1>2. QED  BY <1>1, VotingInvariance, PTL DEF ElectionTakesTheMostVoted, Spec
=============================================================================

------------------------- MODULE EgressDecisionProofs -------------------------
(***************************************************************************)
(* The four properties of EgressDecision, for any number of matters,       *)
(* documents, registrations, requests, settings, restarts and power        *)
(* losses.                                                                 *)
(*                                                                         *)
(* What leaves was decided earlier, under a registry that may be gone by   *)
(* now.  So a record carries what was true of it when it was decided       *)
(* (Sound), which no later step undoes because a ledger only grows; and    *)
(* at the decision itself the registry lies between what callers were told *)
(* and what the ledger holds (Remembers).                                  *)
(***************************************************************************)
EXTENDS EgressDecision, TLAPS

Level == Tier \cup {NoTier}

Between ==
  \A m \in Matters : /\ FloorIn(told, m) <= registry.floors[m]
                     /\ registry.floors[m] <= FloorIn(ledger, m)

Remembers ==
  /\ told \subseteq ledger
  /\ registry.up => (registry.corrupt <=> torn)
  /\ registry.up /\ ~registry.corrupt => Between
  /\ RegistriesFollowLedger

\* What was decided of a record, and stays true of it.
Sound(record) ==
  /\ record.due <= record.tier
  /\ /\ Decide(record.req, Boundary(record.req, record.tier), record.under) = "anonymize"
     /\ InClear(record)
     => record.tier = 0
  /\ /\ Boundary(record.req, record.tier) \in record.under.gated
     /\ Cites[record.req.document] # {}
     => /\ record.req.document \in VerifiedIn(ledger)
        /\ record.under.provenance => Cites[record.req.document] \subseteq RetrievedIn(ledger)

Decided == waiting \cup egress

IInv == TypeOK /\ Remembers /\ \A record \in Decided : Sound(record)

-----------------------------------------------------------------------------
(* Maxima of tiers *)

LEMMA LargestIs ==
  ASSUME NEW S \in SUBSET Level
  PROVE  /\ Largest(S) \in S \cup {NoTier} /\ Largest(S) \in Level
         /\ \A y \in S : y <= Largest(S)
<1>1. \E x \in S \cup {NoTier} : \A y \in S : y <= x
  <2>1. CASE 2 \in S BY <2>1 DEF Level, Tier, NoTier
  <2>2. CASE 2 \notin S /\ 1 \in S BY <2>2 DEF Level, Tier, NoTier
  <2>3. CASE 2 \notin S /\ 1 \notin S /\ 0 \in S BY <2>3 DEF Level, Tier, NoTier
  <2>4. CASE S \subseteq {NoTier} BY <2>4 DEF NoTier
  <2>5. QED BY <2>1, <2>2, <2>3, <2>4 DEF Level, Tier
<1>2. QED
  BY <1>1 DEF Largest, Level

LEMMA LargestOfTwo ==
  ASSUME NEW a \in Level, NEW b \in Level
  PROVE  Largest({a, b}) = IF a <= b THEN b ELSE a
<1>1. {a, b} \in SUBSET Level /\ \A n \in Level : n \in Int /\ NoTier <= n
  BY DEF Level, Tier, NoTier
<1>2. QED
  BY <1>1, LargestIs, NoTier \in Level DEF Level

\* The tiers some registrations give a matter.
Tiers(R, m) == {r.tier : r \in {q \in R : q.of = "tier" /\ q.matter = m}}

LEMMA TiersType ==
  ASSUME NEW R \in SUBSET Registration, NEW m
  PROVE  Tiers(R, m) \in SUBSET Level
BY DEF Registration, Tiers, Level

LEMMA FloorIs ==
  ASSUME NEW R \in SUBSET Registration, NEW m
  PROVE  /\ FloorIn(R, m) \in Level /\ FloorIn(R, m) \in Tiers(R, m) \cup {NoTier}
         /\ \A y \in Tiers(R, m) : y <= FloorIn(R, m)
<1>1. FloorIn(R, m) = Largest(Tiers(R, m))
  BY DEF FloorIn, Tiers
<1>2. QED
  BY <1>1, TiersType, LargestIs

LEMMA LevelOrder ==
  /\ Level \subseteq Int
  /\ \A n \in Level : NoTier <= n
BY DEF Level, Tier, NoTier

LEMMA FloorMonotone ==
  ASSUME NEW R \in SUBSET Registration, NEW Q \in SUBSET Registration, R \subseteq Q, NEW m
  PROVE  FloorIn(R, m) <= FloorIn(Q, m)
<1>1. Tiers(R, m) \subseteq Tiers(Q, m)
  BY DEF Tiers
<1>2. QED
  BY <1>1, FloorIs, LevelOrder

LEMMA FloorAdd ==
  ASSUME NEW R \in SUBSET Registration, NEW r \in Registration, NEW m \in Matters
  PROVE  FloorIn(R \cup {r}, m) =
           IF r.of = "tier" /\ r.matter = m THEN Largest({FloorIn(R, m), r.tier})
           ELSE FloorIn(R, m)
<1>1. R \cup {r} \in SUBSET Registration
  OBVIOUS
<1>2. CASE r.of = "tier" /\ r.matter = m
  <2>1. Tiers(R \cup {r}, m) = Tiers(R, m) \cup {r.tier}
    BY <1>2 DEF Tiers
  <2>2. r.tier \in Level
    BY <1>2 DEF Registration, Level
  <2>3. FloorIn(R, m) \in Level
    BY FloorIs
  <2>4. FloorIn(R \cup {r}, m) \in Level
    BY <1>1, FloorIs
  <2>5. FloorIn(R, m) <= FloorIn(R \cup {r}, m)
    BY <1>1, FloorMonotone
  <2>6. r.tier <= FloorIn(R \cup {r}, m)
    BY <1>1, <2>1, FloorIs
  <2>7. FloorIn(R \cup {r}, m) = r.tier \/ FloorIn(R \cup {r}, m) <= FloorIn(R, m)
    BY <1>1, <2>1, <2>3, FloorIs, LevelOrder
  <2>8. Largest({FloorIn(R, m), r.tier})
          = IF FloorIn(R, m) <= r.tier THEN r.tier ELSE FloorIn(R, m)
    BY <2>2, <2>3, LargestOfTwo
  <2>9. r.tier \in Int /\ FloorIn(R, m) \in Int /\ FloorIn(R \cup {r}, m) \in Int
    BY <2>2, <2>3, <2>4, LevelOrder
  <2>10. FloorIn(R \cup {r}, m) = IF FloorIn(R, m) <= r.tier THEN r.tier ELSE FloorIn(R, m)
    BY <2>5, <2>6, <2>7, <2>9
  <2>11. QED
    BY <1>2, <2>8, <2>10
<1>3. CASE ~(r.of = "tier" /\ r.matter = m)
  <2>1. Tiers(R \cup {r}, m) = Tiers(R, m)
    BY <1>3 DEF Tiers
  <2>2. QED
    BY <1>3, <2>1 DEF FloorIn, Tiers
<1>4. QED
  BY <1>2, <1>3

LEMMA Grows ==
  ASSUME NEW R \in SUBSET Registration, NEW Q \in SUBSET Registration, R \subseteq Q
  PROVE  VerifiedIn(R) \subseteq VerifiedIn(Q) /\ RetrievedIn(R) \subseteq RetrievedIn(Q)
BY DEF VerifiedIn, RetrievedIn

-----------------------------------------------------------------------------
(* Types *)

LEMMA RebuiltType ==
  ASSUME ledger \in SUBSET Registration, torn \in BOOLEAN
  PROVE  Rebuilt \in Registry
<1>1. CASE torn
  BY <1>1 DEF Rebuilt, Empty, Registry
<1>2. CASE ~torn
  <2>1. \A m \in Matters : FloorIn(ledger, m) \in Tier \cup {NoTier}
    BY FloorIs DEF Level
  <2>2. VerifiedIn(ledger) \in SUBSET Documents /\ RetrievedIn(ledger) \in SUBSET Citations
    BY DEF VerifiedIn, RetrievedIn, Registration
  <2>3. QED
    BY <1>2, <2>1, <2>2 DEF Rebuilt, Registry
<1>3. QED
  BY <1>1, <1>2

\* What remembering a registration changes.
LEMMA RememberedIs ==
  ASSUME registry \in Registry, NEW r \in Registration
  PROVE  /\ Remembered(r) \in Registry
         /\ \A m \in Matters : Remembered(r).floors[m] =
              IF r.of = "tier" /\ r.matter = m THEN Largest({registry.floors[m], r.tier})
              ELSE registry.floors[m]
         /\ Remembered(r).verified =
              IF r.of = "verified" THEN registry.verified \cup {r.document} ELSE registry.verified
         /\ Remembered(r).retrieved =
              IF r.of = "retrieved" THEN registry.retrieved \cup {r.citation} ELSE registry.retrieved
         /\ Remembered(r).up = registry.up /\ Remembered(r).corrupt = registry.corrupt
         /\ Remembered(r).failed = registry.failed
<1>1. CASE r.of = "tier"
  <2>1. r.matter \in Matters /\ r.tier \in Level /\ registry.floors[r.matter] \in Level
    BY <1>1 DEF Registration, Registry, Level
  <2>2. Largest({registry.floors[r.matter], r.tier}) \in Tier \cup {NoTier}
    BY <2>1, LargestIs DEF Level
  <2>3. Remembered(r) =
          [registry EXCEPT !.floors[r.matter] = Largest({registry.floors[r.matter], r.tier})]
    BY <1>1 DEF Remembered
  <2>4. QED
    BY <1>1, <2>1, <2>2, <2>3 DEF Registry
<1>2. CASE r.of = "verified"
  BY <1>2 DEF Remembered, Registration, Registry
<1>3. CASE r.of = "retrieved"
  BY <1>3 DEF Remembered, Registration, Registry
<1>4. QED
  BY <1>1, <1>2, <1>3 DEF Registration

LEMMA EmptyType == Empty(FALSE, FALSE) \in Registry
BY DEF Empty, Registry

LEMMA TierTypes ==
  ASSUME TypeOK, NEW r \in Requests
  PROVE  EffectiveTier(r) \in Tier \cup {NoTier} /\ Due(r) \in Tier \cup {NoTier}
<1>1. r \in Request
  BY SettingsAssumption
<1>2. MattersOf(r) \subseteq Matters
  BY <1>1 DEF MattersOf, FiledUnder, Request
<1>3. {registry.floors[m] : m \in MattersOf(r)} \cup {r.claimed} \in SUBSET Level
  BY <1>1, <1>2 DEF TypeOK, Registry, Request, Level
<1>4. {FloorIn(told, m) : m \in MattersOf(r)} \in SUBSET Level
  BY FloorIs DEF TypeOK
<1>5. QED
  BY <1>3, <1>4, LargestIs DEF EffectiveTier, Due, Level, Tier

\* A record a decision leaves behind is well typed.
LEMMA LeftType ==
  ASSUME TypeOK, NEW r \in Requests, NEW way \in {"clear", "masked", "local"},
         NEW by \in {"policy", "human"}
  PROVE  Left(r, EffectiveTier(r), Due(r), way, by) \in Record
BY TierTypes DEF Left, Record, TypeOK

LEMMA WayOutType ==
  ASSUME NEW r \in Requests, NEW tier \in Tier \cup {NoTier}
  PROVE  WayOut(r, tier) \in {"clear", "masked", "local", "blocked"}
BY DEF WayOut, Tier, NoTier

LEMMA DecisionType ==
  ASSUME TypeOK, NEW r \in Requests, r.tool # "unknown", NEW tier
  PROVE  Decide(r, Boundary(r, tier), settings) \in Decisions
<1>1. settings.policy \in [Boundaries -> Decisions]
  BY SettingsAssumption DEF TypeOK, Setting
<1>2. Boundary(r, tier) \in Boundaries \cup {"none"}
  BY SettingsAssumption DEF Boundary, Boundaries, Request, Tools
<1>3. QED
  BY <1>1, <1>2 DEF Decide, Decisions

(* What a request leaves behind: nothing, a record that leaves as it is or  *)
(* masked or local, or one that waits.                                      *)
LEMMA HandleLeaves ==
  ASSUME TypeOK, NEW r \in Requests, Handle(r)
  PROVE  LET tier     == EffectiveTier(r)
             boundary == Boundary(r, tier)
             decision == Decide(r, boundary, settings)
         IN \/ UNCHANGED <<egress, waiting>>
            \/ /\ CitationGate(r, boundary)
               /\ \/ /\ decision = "allow" /\ UNCHANGED waiting
                     /\ Leaves(Left(r, tier, Due(r), "clear", "policy"))
                  \/ /\ decision = "anonymize" /\ UNCHANGED waiting
                     /\ Leaves(Left(r, tier, Due(r), WayOut(r, tier), "policy"))
                  \/ /\ decision = "human" /\ UNCHANGED egress
                     /\ waiting' = IF torn THEN waiting
                                   ELSE waiting \cup {Left(r, tier, Due(r), "clear", "human")}
<1> DEFINE tier     == EffectiveTier(r)
           boundary == Boundary(r, tier)
           decision == Decide(r, boundary, settings)
<1>1. CASE r.tool = "unknown" \/ ~CitationGate(r, boundary) \/ decision = "block"
  BY <1>1 DEF Handle
<1>2. CASE r.tool # "unknown" /\ CitationGate(r, boundary) /\ decision # "block"
  <2>1. decision \in {"allow", "anonymize", "human"}
    BY <1>2, DecisionType DEF Decisions
  <2>2. CASE decision = "allow"
    BY <1>2, <2>2 DEF Handle
  <2>3. CASE decision = "anonymize"
    BY <1>2, <2>3 DEF Handle
  <2>4. CASE decision = "human"
    BY <1>2, <2>4 DEF Handle
  <2>5. QED
    BY <2>1, <2>2, <2>3, <2>4
<1>3. QED
  BY <1>1, <1>2

LEMMA HandleType ==
  ASSUME TypeOK, NEW r \in Requests, Handle(r)
  PROVE  TypeOK'
<1> DEFINE tier == EffectiveTier(r)
           way == WayOut(r, tier)
<1>1. /\ UNCHANGED <<settings, ledger, torn, registry, told, faults>>
      /\ handled' = handled + 1
  BY DEF Handle
<1>2. tier \in Tier \cup {NoTier}
  BY TierTypes
<1>3. way \in {"clear", "masked", "local", "blocked"}
  BY <1>2, WayOutType
<1>4. /\ Left(r, tier, Due(r), "clear", "policy") \in Record
      /\ Left(r, tier, Due(r), "clear", "human") \in Record
      /\ way # "blocked" => Left(r, tier, Due(r), way, "policy") \in Record
      /\ Left(r, tier, Due(r), way, "policy").way = way
  BY <1>3, LeftType DEF Left
<1>5. egress' \subseteq Record /\ waiting' \subseteq Record
  <2>1. \/ UNCHANGED <<egress, waiting>>
        \/ Leaves(Left(r, tier, Due(r), "clear", "policy")) /\ UNCHANGED waiting
        \/ Leaves(Left(r, tier, Due(r), way, "policy")) /\ UNCHANGED waiting
        \/ /\ UNCHANGED egress
           /\ waiting' \in {waiting, waiting \cup {Left(r, tier, Due(r), "clear", "human")}}
    BY HandleLeaves
  <2>2. QED
    BY <1>4, <2>1 DEF Leaves, TypeOK
<1>6. QED
  BY <1>1, <1>5 DEF TypeOK

LEMMA TypeStep ==
  ASSUME TypeOK, [Next]_vars
  PROVE  TypeOK'
<1>1. ASSUME NEW r \in Registration, NEW result \in {"ok", "stored", "lost"}, Register(r, result)
      PROVE  TypeOK'
  <2>1. Remembered(r) \in Registry /\ [registry EXCEPT !.failed = TRUE] \in Registry
    BY RememberedIs DEF TypeOK, Registry
  <2>2. QED
    <3>1. ledger' \subseteq Registration /\ told' \subseteq Registration /\ faults' \in Nat
      BY <1>1 DEF Register, TypeOK
    <3>2. registry' \in Registry
      BY <1>1, <2>1 DEF Register
    <3>3. QED
      BY <1>1, <3>1, <3>2 DEF Register, TypeOK
<1>2. ASSUME NEW r \in Requests, Handle(r)
      PROVE  TypeOK'
  BY <1>2, HandleType
<1>3. ASSUME NEW record \in waiting, Answer(record)
      PROVE  TypeOK'
  BY <1>3 DEF Answer, Leaves, TypeOK
<1>4. CASE Boot
  BY <1>4, RebuiltType DEF Boot, TypeOK
<1>5. CASE Stop
  BY <1>5, EmptyType DEF Stop, TypeOK
<1>6. CASE PowerLoss
  <2>1. faults' \in Nat
    BY <1>6 DEF PowerLoss, TypeOK
  <2>2. torn' \in BOOLEAN /\ registry' \in Registry /\ waiting' = {}
    BY <1>6, EmptyType DEF PowerLoss
  <2>3. QED
    BY <1>6, <2>1, <2>2 DEF PowerLoss, TypeOK
<1>7. CASE TruncateTail
  BY <1>7 DEF TruncateTail, TypeOK
<1>8. CASE UNCHANGED vars
  BY <1>8 DEF vars, TypeOK
<1>9. QED
  BY <1>1, <1>2, <1>3, <1>4, <1>5, <1>6, <1>7, <1>8 DEF Next

LEMMA TypeInit == Init => TypeOK
<1>1. SUFFICES ASSUME Init PROVE TypeOK
  OBVIOUS
<1>2. torn \in BOOLEAN /\ registry \in Registry
  BY <1>1, EmptyType DEF Init
<1>3. handled \in Nat /\ faults \in Nat
  BY <1>1 DEF Init
<1>4. QED
  BY <1>1, <1>2, <1>3 DEF Init, TypeOK

\* Every variable keeps its shape (server.ts, the registries).
THEOREM TypeCorrect == Spec => []TypeOK
BY TypeInit, TypeStep, PTL DEF Spec

-----------------------------------------------------------------------------
(* The registries *)

LEMMA RebuiltRemembers ==
  ASSUME TypeOK, told \subseteq ledger, ~torn
  PROVE  \A m \in Matters : /\ FloorIn(told, m) <= Rebuilt.floors[m]
                            /\ Rebuilt.floors[m] <= FloorIn(ledger, m)
<1>1. TAKE m \in Matters
<1>2. Rebuilt.floors[m] = FloorIn(ledger, m)
  BY DEF Rebuilt
<1>3. FloorIn(told, m) <= FloorIn(ledger, m)
  BY FloorMonotone DEF TypeOK
<1>4. FloorIn(ledger, m) \in Int
  BY FloorIs, LevelOrder DEF TypeOK
<1>5. QED
  BY <1>2, <1>3, <1>4

LEMMA SameRegistry ==
  ASSUME Remembers, UNCHANGED <<ledger, torn, registry, told>>
  PROVE  Remembers'
BY DEF Remembers, Between, RegistriesFollowLedger, Rebuilt

\* A gate that is down has nothing to compare.
LEMMA DownRemembers ==
  ASSUME told \subseteq ledger, UNCHANGED <<ledger, told>>, registry' = Empty(FALSE, FALSE)
  PROVE  Remembers'
BY DEF Remembers, Between, RegistriesFollowLedger, Empty

LEMMA BootRemembers ==
  ASSUME TypeOK, Remembers, Boot
  PROVE  Remembers'
<1>1. /\ UNCHANGED <<ledger, torn, told>> /\ registry' = Rebuilt /\ Rebuilt' = Rebuilt
      /\ told \subseteq ledger
  BY DEF Boot, Rebuilt, Remembers
<1>2. CASE torn
  <2>1. registry'.corrupt
    BY <1>1, <1>2 DEF Rebuilt, Empty
  <2>2. QED
    BY <1>1, <1>2, <2>1 DEF Remembers, RegistriesFollowLedger
<1>3. CASE ~torn
  <2>1. /\ ~registry'.corrupt
        /\ registry'.verified = VerifiedIn(ledger) /\ registry'.retrieved = RetrievedIn(ledger)
    BY <1>1, <1>3 DEF Rebuilt
  <2>2. Between'
    BY <1>1, <1>3, RebuiltRemembers DEF Between
  <2>3. RegistriesFollowLedger'
    BY <1>1, <2>1, <2>2 DEF RegistriesFollowLedger, Between
  <2>4. QED
    BY <1>1, <1>3, <2>1, <2>2, <2>3 DEF Remembers
<1>4. QED
  BY <1>2, <1>3

\* Raised by a registration, a floor stays between what callers were told of and
\* what the ledger holds, and is the ledger's if it was.
LEMMA RaisedFloor ==
  ASSUME TypeOK, Between, NEW r \in Registration, NEW m \in Matters
  PROVE  /\ FloorIn(told \cup {r}, m) <= Remembered(r).floors[m]
         /\ Remembered(r).floors[m] <= FloorIn(ledger \cup {r}, m)
         /\ registry.floors[m] = FloorIn(ledger, m)
              => Remembered(r).floors[m] = FloorIn(ledger \cup {r}, m)
<1> DEFINE t == FloorIn(told, m)
           f == registry.floors[m]
           l == FloorIn(ledger, m)
<1>1. t \in Level /\ f \in Level /\ l \in Level
  BY FloorIs DEF TypeOK, Registry, Level
<1>2. t <= f /\ f <= l
  BY DEF Between
<1>3. CASE r.of = "tier" /\ r.matter = m
  <2>1. r.tier \in Level
    BY <1>3 DEF Registration, Level
  <2>2. /\ FloorIn(told \cup {r}, m) = Largest({t, r.tier})
        /\ FloorIn(ledger \cup {r}, m) = Largest({l, r.tier})
    BY <1>3, FloorAdd DEF TypeOK
  <2>3. Remembered(r).floors[m] = Largest({f, r.tier})
    BY <1>3, RememberedIs DEF TypeOK
  <2>4. /\ Largest({t, r.tier}) = IF t <= r.tier THEN r.tier ELSE t
        /\ Largest({f, r.tier}) = IF f <= r.tier THEN r.tier ELSE f
        /\ Largest({l, r.tier}) = IF l <= r.tier THEN r.tier ELSE l
    BY <1>1, <2>1, LargestOfTwo
  <2>5. t \in Int /\ f \in Int /\ l \in Int /\ r.tier \in Int
    BY <1>1, <2>1, LevelOrder
  <2>6. QED
    BY <1>2, <2>2, <2>3, <2>4, <2>5
<1>4. CASE ~(r.of = "tier" /\ r.matter = m)
  <2>1. FloorIn(told \cup {r}, m) = t /\ FloorIn(ledger \cup {r}, m) = l
    BY <1>4, FloorAdd DEF TypeOK
  <2>2. Remembered(r).floors[m] = f
    BY <1>4, RememberedIs DEF TypeOK
  <2>3. QED
    BY <1>2, <2>1, <2>2
<1>5. QED
  BY <1>3, <1>4

LEMMA RegisterRemembers ==
  ASSUME TypeOK, Remembers, NEW r \in Registration, NEW result \in {"ok", "stored", "lost"},
         Register(r, result)
  PROVE  Remembers'
<1>1. /\ registry.up /\ ~registry.corrupt /\ ~torn /\ UNCHANGED torn
      /\ Between /\ RegistriesFollowLedger /\ told \subseteq ledger
  BY DEF Register, Remembers
<1>2. CASE result = "ok"
  <2>1. registry' = Remembered(r) /\ ledger' = ledger \cup {r} /\ told' = told \cup {r}
    BY <1>2 DEF Register
  <2>2. registry'.up /\ ~registry'.corrupt /\ registry'.failed = registry.failed
    BY <1>1, <2>1, RememberedIs DEF TypeOK
  <2>3. Between'
    BY <1>1, <2>1, RaisedFloor DEF Between
  <2>4. /\ registry'.verified =
             IF r.of = "verified" THEN registry.verified \cup {r.document} ELSE registry.verified
        /\ registry'.retrieved =
             IF r.of = "retrieved" THEN registry.retrieved \cup {r.citation} ELSE registry.retrieved
    BY <2>1, RememberedIs DEF TypeOK
  <2>5. /\ VerifiedIn(ledger') = VerifiedIn(ledger) \cup
             (IF r.of = "verified" THEN {r.document} ELSE {})
        /\ RetrievedIn(ledger') = RetrievedIn(ledger) \cup
             (IF r.of = "retrieved" THEN {r.citation} ELSE {})
    BY <2>1 DEF VerifiedIn, RetrievedIn
  <2>6. registry'.verified \subseteq VerifiedIn(ledger') /\ registry'.retrieved \subseteq RetrievedIn(ledger')
    BY <1>1, <2>4, <2>5 DEF RegistriesFollowLedger
  <2>7. ASSUME ~registry'.failed PROVE registry' = Rebuilt'
    <3>1. registry = Rebuilt /\ registry \in Registry
      BY <1>1, <2>2, <2>7 DEF RegistriesFollowLedger, TypeOK
    <3>2. /\ \A m \in Matters : registry.floors[m] = FloorIn(ledger, m)
          /\ registry.verified = VerifiedIn(ledger) /\ registry.retrieved = RetrievedIn(ledger)
      BY <1>1, <3>1 DEF Rebuilt
    <3>3. \A m \in Matters : registry'.floors[m] = FloorIn(ledger', m)
      BY <1>1, <2>1, <3>2, RaisedFloor
    <3>4. registry'.verified = VerifiedIn(ledger') /\ registry'.retrieved = RetrievedIn(ledger')
      BY <2>4, <2>5, <3>2
    <3>5. registry' \in Registry
      BY <2>1, RememberedIs DEF TypeOK
    <3>6. QED
      BY <1>1, <2>2, <2>7, <3>3, <3>4, <3>5 DEF Rebuilt, Registry
  <2>8. RegistriesFollowLedger'
    BY <2>3, <2>6, <2>7 DEF RegistriesFollowLedger, Between
  <2>9. QED
    BY <1>1, <2>1, <2>2, <2>3, <2>8 DEF Remembers
<1>3. CASE result # "ok"
  <2>1. /\ registry' = [registry EXCEPT !.failed = TRUE] /\ UNCHANGED told
        /\ ledger \subseteq ledger' /\ ledger' \subseteq Registration
    BY <1>3 DEF Register, TypeOK
  <2>2. /\ registry'.up /\ ~registry'.corrupt /\ registry'.failed
        /\ registry'.floors = registry.floors /\ registry'.verified = registry.verified
        /\ registry'.retrieved = registry.retrieved
    BY <1>1, <2>1 DEF TypeOK, Registry
  <2>3. \A m \in Matters : /\ FloorIn(ledger, m) <= FloorIn(ledger', m)
                           /\ registry.floors[m] \in Int
                           /\ FloorIn(ledger, m) \in Int /\ FloorIn(ledger', m) \in Int
    BY <2>1, FloorMonotone, FloorIs, LevelOrder DEF TypeOK, Registry, Level
  <2>4. Between'
    BY <1>1, <2>1, <2>2, <2>3 DEF Between
  <2>5. VerifiedIn(ledger) \subseteq VerifiedIn(ledger') /\ RetrievedIn(ledger) \subseteq RetrievedIn(ledger')
    BY <2>1, Grows DEF TypeOK
  <2>6. RegistriesFollowLedger'
    BY <1>1, <2>2, <2>4, <2>5 DEF RegistriesFollowLedger, Between
  <2>7. QED
    BY <1>1, <2>1, <2>2, <2>4, <2>6 DEF Remembers
<1>4. QED
  BY <1>2, <1>3

LEMMA RemembersStep ==
  ASSUME TypeOK, Remembers, [Next]_vars
  PROVE  Remembers'
<1>1. ASSUME NEW r \in Registration, NEW result \in {"ok", "stored", "lost"}, Register(r, result)
      PROVE  Remembers'
  BY <1>1, RegisterRemembers
<1>2. ASSUME NEW r \in Requests, Handle(r)
      PROVE  Remembers'
  BY <1>2, SameRegistry DEF Handle
<1>3. ASSUME NEW record \in waiting, Answer(record)
      PROVE  Remembers'
  BY <1>3, SameRegistry DEF Answer
<1>4. CASE Boot
  BY <1>4, BootRemembers
<1>5. CASE Stop
  BY <1>5, DownRemembers DEF Stop, Remembers
<1>6. CASE PowerLoss
  BY <1>6, DownRemembers DEF PowerLoss, Remembers
<1>7. CASE TruncateTail
  BY <1>7 DEF TruncateTail, Remembers, Between, RegistriesFollowLedger
<1>8. CASE UNCHANGED vars
  BY <1>8, SameRegistry DEF vars
<1>9. QED
  BY <1>1, <1>2, <1>3, <1>4, <1>5, <1>6, <1>7, <1>8 DEF Next

-----------------------------------------------------------------------------
(* Records *)

LEMMA SoundStays ==
  ASSUME TypeOK, TypeOK', ledger \subseteq ledger', NEW record, Sound(record)
  PROVE  Sound(record)'
<1>1. VerifiedIn(ledger) \subseteq VerifiedIn(ledger') /\ RetrievedIn(ledger) \subseteq RetrievedIn(ledger')
  BY Grows DEF TypeOK
<1>2. QED
  BY <1>1 DEF Sound

\* A request is handled no lower than what callers were told of its matters.
LEMMA TierCovers ==
  ASSUME TypeOK, Between, NEW r \in Requests
  PROVE  Due(r) <= EffectiveTier(r)
<1> DEFINE told_ == {FloorIn(told, m) : m \in MattersOf(r)}
           known_ == {registry.floors[m] : m \in MattersOf(r)} \cup {r.claimed}
<1>1. MattersOf(r) \subseteq Matters /\ r.claimed \in Level
  BY SettingsAssumption DEF MattersOf, FiledUnder, Request, Level
<1>2. told_ \in SUBSET Level /\ known_ \in SUBSET Level
  BY <1>1, FloorIs DEF TypeOK, Registry, Level
<1>3. Due(r) = Largest(told_) /\ Due(r) \in told_ \cup {NoTier}
  BY <1>2, LargestIs DEF Due
<1>4. Largest(known_) \in Level /\ \A y \in known_ : y <= Largest(known_)
  BY <1>2, LargestIs
<1>5. EffectiveTier(r) \in {1, Largest(known_)} /\ (EffectiveTier(r) = 1 => 1 >= Largest(known_))
  BY <1>4 DEF EffectiveTier, NoTier
<1>6. Largest(known_) <= EffectiveTier(r) /\ EffectiveTier(r) \in Int
  <2>1. Largest(known_) \in Int
    BY <1>4, LevelOrder
  <2>2. CASE EffectiveTier(r) = Largest(known_)
    BY <2>1, <2>2
  <2>3. CASE EffectiveTier(r) = 1
    BY <1>5, <2>1, <2>3
  <2>4. QED
    BY <1>5, <2>2, <2>3
<1>7. Due(r) <= Largest(known_)
  <2>1. CASE Due(r) = NoTier
    BY <2>1, <1>4, LevelOrder
  <2>2. CASE Due(r) \in told_
    <3>1. PICK m \in MattersOf(r) : Due(r) = FloorIn(told, m)
      BY <2>2
    <3>2. Due(r) <= registry.floors[m] /\ registry.floors[m] \in known_
      BY <1>1, <3>1 DEF Between
    <3>3. registry.floors[m] <= Largest(known_) /\ registry.floors[m] \in Int
      BY <1>2, <1>4, <3>2, LevelOrder
    <3>4. Due(r) \in Int /\ Largest(known_) \in Int
      BY <1>2, <1>4, <2>2, LevelOrder
    <3>5. QED
      BY <3>2, <3>3, <3>4
  <2>3. QED
    BY <1>3, <2>1, <2>2
<1>8. Due(r) \in Int /\ Largest(known_) \in Int
  <2>1. Due(r) \in Level
    BY <1>2, <1>3 DEF Level
  <2>2. QED
    BY <1>4, <2>1, LevelOrder
<1>9. QED
  BY <1>6, <1>7, <1>8

\* What a decision leaves behind is sound.
LEMMA LeftSound ==
  ASSUME TypeOK, Remembers, registry.up, ~torn, NEW r \in Requests, NEW way, NEW by,
         CitationGate(r, Boundary(r, EffectiveTier(r))),
         Decide(r, Boundary(r, EffectiveTier(r)), settings) = "anonymize"
           => way = WayOut(r, EffectiveTier(r))
  PROVE  Sound(Left(r, EffectiveTier(r), Due(r), way, by))
<1> DEFINE record == Left(r, EffectiveTier(r), Due(r), way, by)
<1>1. /\ record.req = r /\ record.tier = EffectiveTier(r) /\ record.due = Due(r)
      /\ record.way = way /\ record.under = settings
  BY DEF Left
<1>2. record.due <= record.tier
  BY <1>1, TierCovers DEF Remembers
<1>3. ASSUME Decide(r, Boundary(r, EffectiveTier(r)), settings) = "anonymize", InClear(record)
      PROVE  EffectiveTier(r) = 0
  <2>1. way = WayOut(r, EffectiveTier(r))
    BY <1>3
  <2>2. way = "clear" \/ (way = "local" /\ r.tool # "query_external_model")
    BY <1>1, <1>3 DEF InClear
  <2>3. EffectiveTier(r) \in Tier \cup {NoTier}
    BY TierTypes
  <2>4. QED
    BY <2>1, <2>2, <2>3 DEF WayOut, Tier, NoTier
<1>4. /\ registry.verified \subseteq VerifiedIn(ledger)
      /\ registry.retrieved \subseteq RetrievedIn(ledger)
  BY DEF Remembers, RegistriesFollowLedger
<1>5. QED
  BY <1>1, <1>2, <1>3, <1>4 DEF Sound, CitationGate

LEMMA HandleSound ==
  ASSUME TypeOK, Remembers, NEW r \in Requests, Handle(r), TypeOK',
         \A record \in Decided : Sound(record)
  PROVE  \A record \in Decided' : Sound(record)'
<1> DEFINE tier     == EffectiveTier(r)
           boundary == Boundary(r, tier)
           decision == Decide(r, boundary, settings)
           fresh == {Left(r, tier, Due(r), "clear", "policy"),
                     Left(r, tier, Due(r), WayOut(r, tier), "policy"),
                     Left(r, tier, Due(r), "clear", "human")}
<1>1. registry.up /\ ledger' = ledger
  BY DEF Handle
<1>2. \A record \in Decided' : record \in Decided \/ (record \in fresh /\ Sound(record))
  <2>1. CASE UNCHANGED <<egress, waiting>>
    BY <2>1 DEF Decided
  <2>2. CASE CitationGate(r, boundary) /\ ~torn
    <3>1. ASSUME decision = "allow", Leaves(Left(r, tier, Due(r), "clear", "policy")),
                 UNCHANGED waiting
          PROVE  \A record \in Decided' : record \in Decided \/ (record \in fresh /\ Sound(record))
      <4>1. Sound(Left(r, tier, Due(r), "clear", "policy"))
        BY <1>1, <2>2, <3>1, LeftSound
      <4>2. QED
        BY <3>1, <4>1 DEF Leaves, Decided
    <3>2. ASSUME decision = "anonymize", UNCHANGED waiting,
                 Leaves(Left(r, tier, Due(r), WayOut(r, tier), "policy"))
          PROVE  \A record \in Decided' : record \in Decided \/ (record \in fresh /\ Sound(record))
      <4>1. Sound(Left(r, tier, Due(r), WayOut(r, tier), "policy"))
        BY <1>1, <2>2, LeftSound
      <4>2. QED
        BY <3>2, <4>1 DEF Leaves, Decided
    <3>3. ASSUME decision = "human", UNCHANGED egress,
                 waiting' = waiting \cup {Left(r, tier, Due(r), "clear", "human")}
          PROVE  \A record \in Decided' : record \in Decided \/ (record \in fresh /\ Sound(record))
      <4>1. Sound(Left(r, tier, Due(r), "clear", "human"))
        BY <1>1, <2>2, <3>3, LeftSound
      <4>2. QED
        BY <3>3, <4>1 DEF Decided
    <3>4. QED
      BY <2>1, <2>2, <3>1, <3>2, <3>3, HandleLeaves
  <2>3. CASE torn
    BY <2>3, HandleLeaves DEF Leaves, Decided
  <2>4. QED
    BY <2>1, <2>2, <2>3, HandleLeaves
<1>3. QED
  BY <1>1, <1>2, SoundStays

LEMMA SoundStep ==
  ASSUME TypeOK, Remembers, [Next]_vars, TypeOK', \A record \in Decided : Sound(record)
  PROVE  \A record \in Decided' : Sound(record)'
<1>1. ASSUME NEW r \in Requests, Handle(r)
      PROVE  \A record \in Decided' : Sound(record)'
  BY <1>1, HandleSound
<1>2. ASSUME Decided' \subseteq Decided, ledger \subseteq ledger'
      PROVE  \A record \in Decided' : Sound(record)'
  BY <1>2, SoundStays
<1>3. ASSUME NEW r \in Registration, NEW result \in {"ok", "stored", "lost"}, Register(r, result)
      PROVE  Decided' \subseteq Decided /\ ledger \subseteq ledger'
  BY <1>3 DEF Register, Decided
<1>4. ASSUME NEW record \in waiting, Answer(record)
      PROVE  Decided' \subseteq Decided /\ ledger \subseteq ledger'
  BY <1>4 DEF Answer, Leaves, Decided
<1>5. CASE Boot \/ Stop \/ PowerLoss \/ TruncateTail \/ UNCHANGED vars
  BY <1>2, <1>5 DEF Boot, Stop, PowerLoss, TruncateTail, vars, Decided
<1>6. QED
  BY <1>1, <1>2, <1>3, <1>4, <1>5 DEF Next

LEMMA Inductive == Spec => []IInv
<1>1. Init => IInv
  <2>1. Init => TypeOK
    BY TypeInit
  <2>2. Init => Remembers /\ Decided = {}
    BY DEF Init, Remembers, Between, RegistriesFollowLedger, Empty, Decided
  <2>3. QED
    BY <2>1, <2>2 DEF IInv
<1>2. IInv /\ [Next]_vars => IInv'
  BY TypeStep, RemembersStep, SoundStep DEF IInv
<1>3. QED
  BY <1>1, <1>2, PTL DEF Spec

\* The registries of a running gate hold nothing the ledger does not, and all of it
\* unless an append of this life threw (matter-classification.ts, quality/).
THEOREM RegistriesFollow == Spec => []RegistriesFollowLedger
<1>1. IInv => RegistriesFollowLedger
  BY DEF IInv, Remembers
<1>2. QED
  BY <1>1, Inductive, PTL

\* Nothing leaves below a floor whose caller was told of it.
THEOREM FloorsHold == Spec => []FloorsHonoured
<1>1. IInv => FloorsHonoured
  BY DEF IInv, Sound, Decided, FloorsHonoured
<1>2. QED
  BY <1>1, Inductive, PTL

\* Where the policy says anonymize, only standard work leaves in clear.
THEOREM StandardInClear == Spec => []ClearOnlyIfStandard
<1>1. IInv => ClearOnlyIfStandard
  <2>1. SUFFICES ASSUME IInv, NEW record \in egress,
                        Decide(record.req, Boundary(record.req, Largest({record.due, record.tier})),
                               record.under) = "anonymize",
                        InClear(record)
                 PROVE  record.due <= 0 /\ record.tier = 0
    BY DEF ClearOnlyIfStandard
  <2>2. record.due \in Level /\ record.tier \in Level /\ Sound(record)
    BY <2>1 DEF IInv, TypeOK, Record, Level, Decided
  <2>3. Largest({record.due, record.tier}) = record.tier
    BY <2>2, LargestOfTwo DEF Sound
  <2>4. QED
    BY <2>1, <2>2, <2>3 DEF Sound
<1>2. QED
  BY <1>1, Inductive, PTL

\* No citation crosses a gated boundary unverified.
THEOREM CitationsChecked == Spec => []CitationsVerified
<1>1. IInv => CitationsVerified
  BY DEF IInv, Sound, Decided, CitationsVerified
<1>2. QED
  BY <1>1, Inductive, PTL
===============================================================================

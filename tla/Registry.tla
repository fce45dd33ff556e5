------------------------------- MODULE Registry -------------------------------
(***************************************************************************)
(* The package registry (registry/index.mjs and its _middlewares): publish *)
(* freezes a package's dependencies to content hashes, the label           *)
(* spec@version names a content, resolve turns version ranges into a lock. *)
(* A content hash is modelled by what it is the hash of, the files and the *)
(* frozen imports: the encoding (computePkgHash) is injective because a    *)
(* path with a line break is refused.                                      *)
(***************************************************************************)
EXTENDS Integers, Sequences, FiniteSets, SequencesExt

CONSTANTS
    Specs,          \* package names; TLC's model values order nothing
    Versions,       \* what parseVer accepts: [n |-> <<a, b, c>>, zeros |-> BOOLEAN]
    Files,          \* what a package may hold
    FileCaps,       \* extractCapabilities: Files -> SUBSET capabilities
    Privileged,     \* the files that name the privileged surface
    Ranges,         \* [op |-> "" | "^" | "~" | "*", parts |-> Seq(Nat)]
    MaxPublished    \* bound: labels

ASSUME RegistryAssumption ==
    /\ MaxPublished \in Nat
    /\ \A v \in Versions : v.n \in [1 .. 3 -> Nat]
    /\ \A r \in Ranges : /\ r.parts \in Seq(Nat)
                         /\ r.op # "*" => Len(r.parts) \in 1 .. 3

VARIABLES
    ver,            \* pkg/ver/{spec}/{version}: <<spec, version>> |-> hash
    content,        \* pkg/hash/{hash}: hash |-> capabilities
    lbl,            \* pkg/lbl/{hash}: hash |-> Seq(<<spec, version>>)
    idx,            \* pkg/idx/{spec}: Seq(<<version, hash>>)
    optoken         \* was an operator token seeded?

registryVars == <<ver, content, lbl, idx, optoken>>

-----------------------------------------------------------------------------
(* before (guardSession, operatorAuth) and routeAuthz: a live session goes *)
(* before the operator's token.                                            *)
Publishers ==
    [session : {"none", "expired", "user", "operator"}, bearer : {"none", "wrong", "right"}]

IsRoot(who) ==
    \/ who.session = "operator"
    \/ who.session \in {"none", "expired"} /\ who.bearer = "right" /\ optoken

-----------------------------------------------------------------------------
(* cmpVer and satisfies: a range is a window [lower, upper).               *)
Before3(a, b) ==
    \E i \in 1 .. 3 : a[i] < b[i] /\ \A j \in 1 .. (i - 1) : a[j] = b[j]

Part(range, i) == IF i <= Len(range.parts) THEN range.parts[i] ELSE 0
Lower(range) == <<Part(range, 1), Part(range, 2), Part(range, 3)>>

Upper(range) ==
    LET maj == Part(range, 1)  min == Part(range, 2)  pat == Part(range, 3) IN
    CASE range.op = "^" /\ maj > 0 -> <<maj + 1, 0, 0>>
      [] range.op = "^" /\ maj = 0 /\ min > 0 -> <<0, min + 1, 0>>
      [] range.op = "^" /\ maj = 0 /\ min = 0 -> <<0, 0, pat + 1>>
      [] range.op # "^" /\ Len(range.parts) = 1 -> <<maj + 1, 0, 0>>
      [] range.op # "^" /\ (range.op = "~" \/ Len(range.parts) = 2) /\ Len(range.parts) # 1 ->
            <<maj, min + 1, 0>>
      [] OTHER -> <<maj, min, pat + 1>>

Satisfies(v, range) ==
    range.op = "*" \/ (~Before3(v.n, Lower(range)) /\ Before3(v.n, Upper(range)))

(* pickVersion: the highest version that satisfies, the first of equals.   *)
FirstFit(row, range) ==        \* mutant: the first that fits, published first
    LET fits == {i \in DOMAIN row : Satisfies(row[i][1], range)} IN
    IF fits = {} THEN <<>> ELSE row[CHOOSE i \in fits : \A j \in fits : i <= j]

PickVersion(row, range) ==
    LET fits == {i \in DOMAIN row : Satisfies(row[i][1], range)}
        best == {i \in fits : \A j \in fits : ~Before3(row[i][1].n, row[j][1].n)}
    IN IF fits = {} THEN <<>> ELSE row[CHOOSE i \in best : \A j \in best : i <= j]

-----------------------------------------------------------------------------
(* publish.                                                                *)
Pins(deps) == [s \in DOMAIN deps |-> PickVersion(idx[s], deps[s])[2]]
Resolvable(deps) == \A s \in DOMAIN deps : PickVersion(idx[s], deps[s]) # <<>>

Capabilities(files, imports) ==
    (UNION {FileCaps[f] : f \in files}) \cup (UNION {content[h] : h \in Range(imports)})

Untaken(spec, v) == FALSE            \* mutant: no look at the label before it is written
Taken(spec, v) == <<spec, v>> \in DOMAIN ver

Put(f, k, x) == [y \in DOMAIN f \cup {k} |-> IF y = k THEN x ELSE f[y]]

Publish(who, spec, v, files, deps) ==
    /\ IsRoot(who)
    /\ files # {} /\ files \cap Privileged = {}
    /\ Resolvable(deps)
    /\ ~Taken(spec, v)              \* else idempotent, or 409
    /\ LET hash == [files |-> files, imports |-> Pins(deps)]
           labels == IF hash \in DOMAIN lbl THEN lbl[hash] ELSE <<>>
       IN
         /\ ver' = Put(ver, <<spec, v>>, hash)
         /\ content' = IF labels = <<>> THEN Put(content, hash, Capabilities(files, Pins(deps)))
                       ELSE content
         /\ lbl' = IF <<spec, v>> \in Range(labels) THEN lbl
                   ELSE Put(lbl, hash, Append(labels, <<spec, v>>))
         /\ idx' = [idx EXCEPT ![spec] =
                      IF \E i \in DOMAIN @ : @[i][1] = v THEN @ ELSE Append(@, <<v, hash>>)]
    /\ UNCHANGED optoken

SeedToken == ~optoken /\ optoken' = TRUE /\ UNCHANGED <<ver, content, lbl, idx>>

-----------------------------------------------------------------------------
(* resolveGraph: the app's own choices, then everything they import.       *)
Closure(roots) ==
    LET step(S) == S \cup UNION {Range(h.imports) : h \in S}
        reach[n \in 0 .. MaxPublished] == IF n = 0 THEN roots ELSE step(reach[n - 1])
    IN reach[MaxPublished]

(* An override pins a version by its text.                                 *)
Chosen(row, range, pin) ==
    IF pin = <<>> THEN PickVersion(row, range)
    ELSE LET at == {i \in DOMAIN row : row[i][1] = pin[1]} IN
         IF at = {} THEN <<>> ELSE row[CHOOSE i \in at : \A j \in at : i <= j]

ResolveGraph(deps, overrides) ==
    LET chosen == [s \in DOMAIN deps |-> Chosen(idx[s], deps[s], overrides[s])]
        app == [s \in DOMAIN deps |-> chosen[s][2]]
    IN
    IF \E s \in DOMAIN deps : chosen[s] = <<>> THEN [error |-> "unresolved"]
    ELSE IF Closure(Range(app)) \subseteq DOMAIN content
    THEN [error |-> "",
          app_imports |-> app,
          packages |-> {[label |-> lbl[h][1], hash |-> h, private |-> h \notin Range(app)] :
                          h \in Closure(Range(app))}]
    ELSE [error |-> "missing"]

RegistryInit ==
    /\ ver = <<>> /\ content = <<>> /\ lbl = <<>>
    /\ idx = [s \in Specs |-> <<>>]
    /\ optoken = FALSE

Deps == {<<>>} \cup UNION {[{s} -> Ranges] : s \in Specs}

RegistryNext ==
    \/ /\ Cardinality(DOMAIN ver) < MaxPublished
       /\ \E who \in Publishers, s \in Specs, v \in Versions, fs \in SUBSET Files, d \in Deps :
            Publish(who, s, v, fs, d)
    \/ SeedToken

RegistrySpec == RegistryInit /\ [][RegistryNext]_registryVars

-----------------------------------------------------------------------------
(* What was published never changes: a label goes on naming its content, a *)
(* content keeps its capabilities and its canonical label, and the index   *)
(* only grows, so a lock that was written stays good.                      *)
Frozen(f, g) == \A k \in DOMAIN f : k \in DOMAIN g /\ g[k] = f[k]
FrozenStep ==
    /\ Frozen(ver, ver') /\ Frozen(content, content')
    /\ \A h \in DOMAIN lbl : h \in DOMAIN lbl' /\ lbl'[h][1] = lbl[h][1]
    /\ \A s \in Specs : IsPrefix(idx[s], idx'[s])
PublishedIsFrozen == [][FrozenStep]_registryVars

(* What a range means, said without the window: not before its base, and   *)
(* equal to it in the part the operator fixes.                             *)
Fixed(range) ==
    CASE range.op = "^" -> IF \E i \in 1 .. 3 : Lower(range)[i] > 0
                           THEN CHOOSE i \in 1 .. 3 : /\ Lower(range)[i] > 0
                                                     /\ \A j \in 1 .. (i - 1) : Lower(range)[j] = 0
                           ELSE Len(range.parts)
      [] range.op = "~" -> IF Len(range.parts) = 1 THEN 1 ELSE 2
      [] OTHER -> Len(range.parts)

InRange(v, range) ==
    range.op = "*" \/ (/\ ~Before3(v.n, Lower(range))
                       /\ \A i \in 1 .. Fixed(range) : v.n[i] = Lower(range)[i])

(* A lock is whole and right: every import of the app is published under   *)
(* its name, in its range and with no later version in that range; what a  *)
(* package imports is in the lock, with all its capabilities counted; a    *)
(* package is private only if the app does not name it; and an answer of   *)
(* unresolved means that no version fits.                                  *)
LockIsRight(deps) ==
    LET lock == ResolveGraph(deps, [s \in DOMAIN deps |-> <<>>])
        fits(s) == {v \in Versions : <<s, v>> \in DOMAIN ver /\ InRange(v, deps[s])}
    IN
    /\ lock.error = "unresolved" <=> \E s \in DOMAIN deps : fits(s) = {}
    /\ lock.error = "" =>
         /\ \A s \in DOMAIN deps : \E v \in fits(s) :
              /\ ver[<<s, v>>] = lock.app_imports[s]
              /\ \A w \in fits(s) : ~Before3(v.n, w.n)
         /\ \A p \in lock.packages :
              /\ \A h \in Range(p.hash.imports) :
                   /\ \E q \in lock.packages : q.hash = h
                   /\ content[h] \subseteq content[p.hash]
              /\ p.private \/ \E s \in DOMAIN deps : ver[p.label] = lock.app_imports[s]
    /\ lock.error # "missing"

LocksAreRight == \A S \in SUBSET Specs : \A deps \in [S -> Ranges] : LockIsRight(deps)

(* The comment at satisfies: "exact x.y.z".                                *)
ExactIsExact ==
    \A s \in Specs, v \in Versions : <<s, v>> \in DOMAIN ver /\ ~v.zeros =>
        PickVersion(idx[s], [op |-> "", parts |-> v.n])[1] = v
=============================================================================

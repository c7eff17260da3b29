--------------------------- MODULE SkillAttributes ---------------------------
(***************************************************************************)
(* The modifiers of one skill attribute of a living                        *)
(* (std/living/skill_attributes.c): static ones, of which the sum is       *)
(* cached, and dynamic ones, closures that every query calls and that may  *)
(* themselves set and remove modifiers.  They end when their time is over, *)
(* when their caster is destructed, or when they are removed.              *)
(*                                                                         *)
(* The attributes do not depend on each other except that SA_QUALITY       *)
(* scales the result; that, the offsets and the final limits are left out. *)
(***************************************************************************)
EXTENDS Integers, Functions, Lists

CONSTANTS
  Casters,
  Values,       \* what is given as a value of a static modifier
  Durations,    \* how long modifiers shall last
  SAM_MAX_MODS,
  Nil,          \* no entry for the attribute, no query, no closure running
  MaxTime,      \* bound of time()
  MaxCalls      \* bound: changes made by the closures of one query

ASSUME SkillAssumption ==
  /\ Values \subseteq Int /\ Durations \subseteq Nat /\ Durations # {}
  /\ SAM_MAX_MODS \in Nat \ {0} /\ MaxTime \in Nat /\ MaxCalls \in Nat
  /\ Nil \notin Casters /\ IsFiniteSet(Casters)

VARIABLES
  now,     \* time()
  living,  \* the casters that have not been destructed
  stat,    \* skillattrs[attr, SAM_STATIC], without the keys that are destructed
  dyn,     \* skillattrs[attr, SAM_DYNAMIC], likewise; the time it ends
  cache,   \* skillattrs[attr, SAM_CACHE], Nil if there is no entry
  query,   \* the query that is calling the closures, see Query
  calls,   \* changes left to the closures
  miscounted  \* history: SAM_COUNT was changed without the sum being computed

SAvars == <<now, living, stat, dyn, cache, query, calls, miscounted>>

Never == 1000000                      \* __INT_MAX__
Static == [value : Values, duration : Nat]
Cache == [sum : Int, timeout : Nat, count : Int]
Query == [todo : SUBSET Casters, running : Casters \cup {Nil}]

\* 0 is no entry.
ASSUME NilAssumption == Nil \notin Cache

NoMods == [c \in {} |-> 0]

SAInit ==
  /\ now = 0 /\ living = Casters
  /\ stat = NoMods /\ dyn = NoMods /\ cache = Nil
  /\ query = Nil /\ calls = 0 /\ miscounted = FALSE

Size(s, d) == Cardinality(DOMAIN s) + Cardinality(DOMAIN d)
Without(f, S) == Restrict(f, DOMAIN f \ S)
WithEntry(f, c, v) == [x \in DOMAIN f \cup {c} |-> IF x = c THEN v ELSE f[x]]
SumOf(s) == Sum([c \in DOMAIN s |-> s[c].value], DOMAIN s)

-----------------------------------------------------------------------------
(* UpdateSACache(): expired modifiers go, the cache is computed anew; an   *)
(* attribute without modifiers loses its entry.                            *)

\* Faulty variant: a modifier is expired in the second it ends.
UpdateEarly(s, d) ==
  LET st == Restrict(s, {c \in DOMAIN s : s[c].duration > now})
      dy == Restrict(d, {c \in DOMAIN d : d[c] > now})
  IN [stat |-> st, dyn |-> dy,
      cache |-> IF Size(st, dy) = 0 THEN Nil
                ELSE [sum |-> SumOf(st), count |-> Size(st, dy),
                      timeout |-> Min({st[c].duration : c \in DOMAIN st} \cup {Never})]]

UpdateSACache(s, d) ==
  LET st == Restrict(s, {c \in DOMAIN s : s[c].duration >= now})
      dy == Restrict(d, {c \in DOMAIN d : d[c] >= now})
  IN [stat |-> st, dyn |-> dy,
      cache |-> IF Size(st, dy) = 0 THEN Nil
                ELSE [sum |-> SumOf(st), count |-> Size(st, dy),
                      timeout |-> Min({st[c].duration : c \in DOMAIN st} \cup {Never})]]

Becomes(m) ==
  stat' = m.stat /\ dyn' = m.dyn /\ cache' = m.cache /\ miscounted' = FALSE

\* Somebody acts, or the closure that a query is just calling.
Acts == IF query = Nil THEN UNCHANGED calls
                       ELSE query.running # Nil /\ calls > 0 /\ calls' = calls - 1

\* Faulty variant: no limit.
NeverFull == FALSE

Full == cache # Nil /\ cache.count >= SAM_MAX_MODS /\ Size(stat, dyn) >= SAM_MAX_MODS

\* The number of modifiers is counted again when it seems to be too large.
Recount ==
  LET full == cache # Nil /\ cache.count >= SAM_MAX_MODS IN
  /\ cache' = IF cache = Nil THEN [sum |-> 0, timeout |-> 0, count |-> 0]
              ELSE IF full THEN [cache EXCEPT !.count = Size(stat, dyn)] ELSE cache
  /\ miscounted' = (miscounted \/ (full /\ cache.count # Size(stat, dyn)))

\* SA_TOO_MANY_MODS; modifiers that have expired count as well.
ModifyRefused(c) ==
  /\ Acts /\ c \in living
  /\ Full
  /\ Recount
  /\ UNCHANGED <<now, living, stat, dyn, query>>

\* A value out of range: what was counted, or a new entry, stays.
ModifyInvalid(c, v) ==
  /\ Acts /\ c \in living
  /\ ~Full
  /\ v = 0 \/ v > 1000 \/ v < -1000
  /\ Recount
  /\ UNCHANGED <<now, living, stat, dyn, query>>

\* Faulty variant: the dynamic modifier of the caster stays.
ModifyBeside(c, v, d) ==
  /\ Acts /\ c \in living
  /\ ~Full
  /\ v \in -1000 .. 1000 \ {0}
  /\ Becomes(UpdateSACache(WithEntry(stat, c, [value |-> v, duration |-> now + d]), dyn))
  /\ UNCHANGED <<now, living, query>>

ModifyStatic(c, v, d) ==
  /\ Acts /\ c \in living
  /\ ~Full
  /\ v \in -1000 .. 1000 \ {0}
  /\ Becomes(UpdateSACache(WithEntry(stat, c, [value |-> v, duration |-> now + d]),
                           Without(dyn, {c})))
  /\ UNCHANGED <<now, living, query>>

ModifyDynamic(c, d) ==
  /\ Acts /\ c \in living
  /\ ~Full
  /\ Becomes(UpdateSACache(Without(stat, {c}), WithEntry(dyn, c, now + d)))
  /\ UNCHANGED <<now, living, query>>

\* Faulty variant: leaves the cache as it is.
RemoveOnly(c) ==
  /\ Acts
  /\ c \in DOMAIN stat \cup DOMAIN dyn
  /\ stat' = Without(stat, {c}) /\ dyn' = Without(dyn, {c})
  /\ cache' = [cache EXCEPT !.count = @ - 1]
  /\ UNCHANGED <<now, living, query, miscounted>>

RemoveSkillAttributeModifier(c) ==
  /\ Acts
  /\ c \in DOMAIN stat \cup DOMAIN dyn
  /\ Becomes(UpdateSACache(Without(stat, {c}), Without(dyn, {c})))
  /\ UNCHANGED <<now, living, query>>

\* A destructed object is no longer a key of any mapping.
CasterDestructed(c) ==
  /\ Acts /\ c \in living
  /\ living' = living \ {c}
  /\ stat' = Without(stat, {c}) /\ dyn' = Without(dyn, {c})
  /\ UNCHANGED <<now, cache, query, miscounted>>

\* No time passes within one execution.
Tick ==
  /\ query = Nil /\ now < MaxTime
  /\ now' = now + 1
  /\ UNCHANGED <<living, stat, dyn, cache, query, calls, miscounted>>

-----------------------------------------------------------------------------
(* QuerySkillAttribute()                                                   *)

\* No static modifier has expired and as many modifiers are there as counted.
Fresh == cache.timeout >= now /\ cache.count = Size(stat, dyn)

\* The static modifiers are summed up, the closures are to be called.
QuerySkillAttribute ==
  /\ query = Nil /\ cache # Nil
  /\ IF Fresh THEN UNCHANGED <<stat, dyn, cache, miscounted>> ELSE Becomes(UpdateSACache(stat, dyn))
  /\ query' = IF cache' = Nil THEN Nil ELSE [todo |-> DOMAIN dyn', running |-> Nil]
  /\ calls' = IF cache' = Nil THEN 0 ELSE MaxCalls
  /\ UNCHANGED <<now, living>>

\* QuerySkillAttributeModifier() with the names of attributes; without, the test
\* in UpdateSACache() has it look through none, and nothing changes.
QueryModifiers ==
  /\ query = Nil
  /\ Becomes(UpdateSACache(stat, dyn))
  /\ UNCHANGED <<now, living, query, calls>>

\* The entry of a closure that is over, or is none, goes.
Dropped(c) == dyn' = Without(dyn, {c}) /\ cache' = [cache EXCEPT !.count = @ - 1]

\* The next closure, in any order; keys that have gone meanwhile are skipped.
NextClosure(c) ==
  /\ query # Nil /\ query.running = Nil /\ c \in query.todo
  /\ IF c \in DOMAIN dyn /\ dyn[c] > now
       THEN query' = [todo |-> query.todo \ {c}, running |-> c] /\ UNCHANGED <<dyn, cache>>
       ELSE /\ query' = [query EXCEPT !.todo = @ \ {c}]
            /\ IF c \in DOMAIN dyn THEN Dropped(c) ELSE UNCHANGED <<dyn, cache>>
  /\ UNCHANGED <<now, living, stat, calls, miscounted>>

ReturnsInt ==
  /\ query # Nil /\ query.running # Nil
  /\ query' = [query EXCEPT !.running = Nil]
  /\ UNCHANGED <<now, living, stat, dyn, cache, calls, miscounted>>

\* Without an entry for the attribute this is an error.  The number is lowered
\* even if the closure has removed its modifier itself.
ReturnsOther ==
  /\ query # Nil /\ query.running # Nil
  /\ IF cache = Nil THEN query' = Nil /\ calls' = 0 /\ UNCHANGED <<dyn, cache>>
     ELSE /\ query' = [query EXCEPT !.running = Nil]
          /\ Dropped(query.running) /\ UNCHANGED calls
  /\ miscounted' = (cache # Nil /\ (miscounted \/ query.running \notin DOMAIN dyn))
  /\ UNCHANGED <<now, living, stat>>

QueryEnds ==
  /\ query # Nil /\ query.running = Nil /\ query.todo = {}
  /\ query' = Nil /\ calls' = 0
  /\ UNCHANGED <<now, living, stat, dyn, cache, miscounted>>

SANext ==
  \/ \E c \in Casters :
       \/ ModifyRefused(c) \/ RemoveSkillAttributeModifier(c) \/ CasterDestructed(c)
       \/ \E v \in Values : ModifyInvalid(c, v)
       \/ \E v \in Values, d \in Durations : ModifyStatic(c, v, d)
       \/ \E d \in Durations : ModifyDynamic(c, d)
       \/ NextClosure(c)
  \/ Tick \/ QuerySkillAttribute \/ QueryModifiers
  \/ ReturnsInt \/ ReturnsOther \/ QueryEnds

SASpec == SAInit /\ [][SANext]_SAvars

-----------------------------------------------------------------------------
(* Properties.                                                             *)

\* Modifiers belong to living casters and have an entry with its cache.
SATypeOK ==
  /\ now \in 0 .. MaxTime /\ living \subseteq Casters
  /\ DOMAIN stat \cup DOMAIN dyn \subseteq living
  /\ \A c \in DOMAIN stat : stat[c] \in Static
  /\ \A c \in DOMAIN dyn : dyn[c] \in Nat
  /\ cache \in Cache \/ (cache = Nil /\ Size(stat, dyn) = 0)
  /\ query \in Query \cup {Nil}
  /\ calls \in 0 .. MaxCalls /\ miscounted \in BOOLEAN

\* When a query takes the cached sum it is the sum of the static modifiers that
\* have not expired and whose casters live, although nothing tells the living
\* that a caster is gone but the number of modifiers - which two ways through
\* the code adjust without a look at the sum.
TrueSum == SumOf(Restrict(stat, {c \in DOMAIN stat : stat[c].duration >= now}))
CacheRight == cache # Nil /\ Fresh /\ ~miscounted => cache.sum = TrueSum

\* A caster has one modifier, static or dynamic.
OneModifier == DOMAIN stat \cap DOMAIN dyn = {}

\* Modifiers of living casters, one each, with an entry that knows of them.
ModifiersOK == SATypeOK /\ OneModifier

\* Nothing is added beyond SAM_MAX_MODS, although the count lags behind the
\* casters that vanish - unless a closure has made it too small.
NotTooMany ==
  [][~miscounted /\ Size(stat', dyn') > Size(stat, dyn) =>
        Size(stat', dyn') <= SAM_MAX_MODS]_SAvars

\* The casters of whom a step takes away or changes a modifier that is not over: a
\* static one counts in the second in which it ends, a closure does not any more.
Lost ==
  {c \in DOMAIN stat : stat[c].duration >= now /\ ~(c \in DOMAIN stat' /\ stat'[c] = stat[c])}
    \cup {c \in DOMAIN dyn : dyn[c] > now /\ ~(c \in DOMAIN dyn' /\ dyn'[c] = dyn[c])}

\* The steps that nobody should lose a modifier by, and those that are c's.
TakesNothing ==
  \/ Tick \/ QuerySkillAttribute \/ QueryModifiers \/ ReturnsInt \/ QueryEnds
  \/ \E c \in Casters : \/ NextClosure(c) \/ ModifyRefused(c)
                        \/ \E v \in Values : ModifyInvalid(c, v)
Concerns(c) ==
  \/ RemoveSkillAttributeModifier(c) \/ CasterDestructed(c)
  \/ \E v \in Values, d \in Durations : ModifyStatic(c, v, d)
  \/ \E d \in Durations : ModifyDynamic(c, d)

\* Every modifier is kept, and kept as it is, until its time is over, however often
\* the table is cleaned up meanwhile (UpdateSACache()): queries and refused calls take
\* none away, a closure that is no longer one costs its own caster's only, and who sets,
\* removes or is destructed loses nobody's but his own.
KeptToTheEnd ==
  [][\A c \in Lost : /\ ~TakesNothing
                     /\ ReturnsOther => query.running = c
                     /\ \A x \in Casters : Concerns(x) => x = c]_SAvars
=============================================================================

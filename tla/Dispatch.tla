------------------------------ MODULE Dispatch ------------------------------
(***************************************************************************)
(* Which filter scans a contained file: Registrar::FindClsid               *)
(* (src/com/Registrar.cpp), and what ItemTask::Run does with its answer.   *)
(*                                                                         *)
(* Filters run inside each other: an archive in an archive is scanned by   *)
(* another instance of our Filter, with its own Registrar and cache.  The  *)
(* extraction thread of each looks handlers up, one after the other, while *)
(* settings and registrations change under way; every key and every        *)
(* setting is read in a step of its own.  Directories and files of unknown *)
(* or excessive size are refused before the lookup and change nothing:     *)
(* they are left out.                                                      *)
(***************************************************************************)
EXTENDS Naturals

CONSTANTS
    Extensions,  \* file name extensions
    Depth,       \* bound on filters inside each other, the outermost included
    MaxChanges   \* bound on changes to settings and registrations

ASSUME DispatchAssumption ==
    /\ Depth \in Nat \ {0}
    /\ MaxChanges \in Nat

VARIABLES
    known,       \* extensions of the formats that 7z.dll reads; never changes
    flags,       \* the settings that are 1
    depthLimit,  \* the setting RecursionDepthLimit
    direct,      \* the persistent handler at .<ext>\PersistentHandler
    obsolete,    \* that of the application .<ext> names
    addin,       \* the IFilter addin of each persistent handler
    changes,     \* changes so far
    open,        \* filters inside each other; 1 is the outermost
    depth,       \* their recursionDepth
    cache,       \* their registrar.cache
    lookup,      \* what their extraction thread is about to do in FindClsid
    seen         \* history: what there was to read while it asked

settings == << known, flags, depthLimit >>
registry == << direct, obsolete, addin >>
filters == << open, depth, cache >>
vars == << settings, registry, changes, filters, lookup, seen >>

Filters == 1 .. Depth
Flags == {"ignoreRegistered", "ignoreNull", "useInternal"}
Handlers == {"null", "ours", "other"}
Answers == {"NullFilter", "Filter", "OtherFilter", "none"}
Addins == (Answers \ {"none"}) \cup {"missing", "malformed"}

Steps == {"setting", "direct", "obsolete", "null", "addin", "fallback",
          "answered"}
Lookups == [step : Steps, ext : Extensions, handler : Handlers \cup {"none"},
            answer : Answers]
Idle == [step |-> "idle"]
Empty == [e \in Extensions |-> "unknown"]

\* What a lookup of e may read, at one moment.
Views == [flags : SUBSET Flags,
          direct : Handlers \cup {"absent", "malformed"},
          obsolete : Handlers \cup {"none"},
          addin : [Handlers -> Addins]]

Now(e) == [flags |-> flags, direct |-> direct[e], obsolete |-> obsolete[e],
           addin |-> addin]

\* A lookup that has not got its answer yet.
Asks(f) == lookup[f].step \in Steps \ {"answered"}

\* Every variable has its type, and only filters that exist have state.
TypeOK ==
    /\ known \in SUBSET Extensions
    /\ flags \in SUBSET Flags
    /\ depthLimit \in Nat
    /\ direct \in [Extensions -> Handlers \cup {"absent", "malformed"}]
    /\ obsolete \in [Extensions -> Handlers \cup {"none"}]
    /\ addin \in [Handlers -> Addins]
    /\ changes \in 0 .. MaxChanges
    /\ open \in Filters
    /\ depth \in [Filters -> Nat]
    /\ cache \in [Filters -> [Extensions -> Answers \cup {"unknown"}]]
    /\ lookup \in [Filters -> Lookups \cup {Idle}]
    /\ seen \in [Filters -> SUBSET Views]
    /\ \A f \in Filters : f > open => cache[f] = Empty /\ lookup[f] = Idle

\* A machine on which other software may have registered its handlers.
Init ==
    /\ known \in SUBSET Extensions
    /\ flags \in SUBSET Flags
    /\ depthLimit \in 0 .. 1
    /\ direct \in [Extensions -> Handlers \cup {"absent", "malformed"}]
    /\ obsolete \in [Extensions -> {"none", "other"}]
    /\ \E a \in {"OtherFilter", "missing", "malformed"} :
           addin = [null |-> "NullFilter", ours |-> "Filter", other |-> a]
    /\ changes = 0
    /\ open = 1
    /\ depth = [f \in Filters |-> 0]
    /\ cache = [f \in Filters |-> Empty]
    /\ lookup = [f \in Filters |-> Idle]
    /\ seen = [f \in Filters |-> {}]

-----------------------------------------------------------------------------
(* FindClsid.                                                              *)

At(f, step) == lookup[f].step = step
Ext(f) == lookup[f].ext
Handler(f) == lookup[f].handler

GoTo(f, step, handler) ==
    /\ lookup' = [lookup EXCEPT ![f].step = step, ![f].handler = handler]
    /\ UNCHANGED << settings, registry, changes, filters, seen >>

Answer(f, answer) ==
    /\ cache' = [cache EXCEPT ![f][Ext(f)] = answer]
    /\ lookup' = [lookup EXCEPT ![f].step = "answered", ![f].answer = answer]
    /\ UNCHANGED << settings, registry, changes, open, depth, seen >>

\* Mutant: a cached nullopt is taken for a missing entry.
CachesHandler(f, e) == cache[f][e] \notin {"unknown", "none"}

IsCached(f, e) == cache[f][e] # "unknown"

\* Check the cache first.
Begin(f, e) ==
    /\ f <= open
    /\ lookup[f] = Idle
    /\ lookup' = [lookup EXCEPT ![f] =
                    [step |-> IF IsCached(f, e) THEN "answered" ELSE "setting",
                     ext |-> e, handler |-> "none",
                     answer |-> IF IsCached(f, e) THEN cache[f][e] ELSE "none"]]
    /\ seen' = [seen EXCEPT ![f] = IF IsCached(f, e) THEN {} ELSE {Now(e)}]
    /\ UNCHANGED << settings, registry, changes, filters >>

\* Always use recursion if the extension is known and that is wanted.
CheckIgnoreRegistered(f) ==
    /\ At(f, "setting")
    /\ IF "ignoreRegistered" \in flags /\ Ext(f) \in known
         THEN Answer(f, "Filter") ELSE GoTo(f, "direct", "none")

\* GetDefaultAsGuid: text that is no GUID is like nothing.
Parsed(h) == IF h \in Handlers THEN h ELSE "none"

\* Only without the key PersistentHandler the obsolete one is tried.
ReadDirect(f) ==
    /\ At(f, "direct")
    /\ IF direct[Ext(f)] = "absent"
         THEN GoTo(f, "obsolete", "none")
         ELSE GoTo(f, "null", Parsed(direct[Ext(f)]))

ReadObsolete(f) ==
    /\ At(f, "obsolete")
    /\ GoTo(f, "null", obsolete[Ext(f)])

\* Mutant: the null handler is used when it is to be ignored.
NullUsed(h) == h # "none" /\ (h # "null" \/ "ignoreNull" \in flags)

\* Ignore the null handler unless requested.
IsUsed(h) == h # "none" /\ (h # "null" \/ "ignoreNull" \notin flags)

CheckIgnoreNull(f) ==
    /\ At(f, "null")
    /\ GoTo(f, IF IsUsed(Handler(f)) THEN "addin" ELSE "fallback", Handler(f))

\* A handler without the addin key is none; one whose addin is no GUID is
\* answered with none at once, without the fallback.
ReadAddin(f) ==
    /\ At(f, "addin")
    /\ CASE addin[Handler(f)] = "missing" -> GoTo(f, "fallback", Handler(f))
         [] addin[Handler(f)] = "malformed" -> Answer(f, "none")
         [] OTHER -> Answer(f, addin[Handler(f)])

FallBack(f) ==
    /\ At(f, "fallback")
    /\ Answer(f, IF "useInternal" \in flags /\ Ext(f) \in known
                   THEN "Filter" ELSE "none")

FindClsid(f) ==
    \/ CheckIgnoreRegistered(f) \/ ReadDirect(f) \/ ReadObsolete(f)
    \/ CheckIgnoreNull(f) \/ ReadAddin(f) \/ FallBack(f)

Ends(f) ==
    /\ lookup' = [lookup EXCEPT ![f] = Idle]
    /\ seen' = [seen EXCEPT ![f] = {}]

\* A key or a setting cannot be read, or there is no table of formats: FindClsid
\* throws, GetStream fails, and nothing is cached.
FindClsidFails(f) ==
    /\ Asks(f)
    /\ Ends(f)
    /\ UNCHANGED << settings, registry, changes, filters >>

-----------------------------------------------------------------------------
(* The rest of ItemTask::Run.                                              *)

\* Another filter scans the file; or none, also when the limit is reached.
\* (What a Filter deeper than Depth does is not followed.)
RunOther(f) ==
    /\ At(f, "answered")
    /\ lookup[f].answer = "Filter" => depth[f] >= depthLimit \/ f = Depth
    /\ Ends(f)
    /\ UNCHANGED << settings, registry, changes, filters >>

\* The gatherer creates another instance of our Filter and propagates the
\* recursion depth to it.  One at a time is followed here.
RunFilter(f) ==
    /\ At(f, "answered")
    /\ lookup[f].answer = "Filter"
    /\ depth[f] < depthLimit
    /\ f = open
    /\ f < Depth
    /\ open' = f + 1
    /\ depth' = [depth EXCEPT ![f + 1] = depth[f]]
    /\ Ends(f)
    /\ UNCHANGED << settings, registry, changes, cache >>

\* Mutant: the cache outlives the Filter.
DropNothing(f) == cache

Dropped(f) == [cache EXCEPT ![f] = Empty]

\* The innermost Filter is done and released, its Registrar with it.
Release(f) ==
    /\ f = open /\ f > 1
    /\ lookup[f] = Idle
    /\ open' = f - 1
    /\ cache' = Dropped(f)
    /\ UNCHANGED << settings, registry, changes, depth, lookup, seen >>

-----------------------------------------------------------------------------
(* Administrators and installers.                                          *)

Change ==
    /\ changes < MaxChanges
    /\ changes' = changes + 1
    /\ UNCHANGED << filters, lookup >>

\* From now on a lookup under way may read what there is after the change.
Noticed ==
    seen' = [f \in Filters |->
               IF Asks(f) THEN seen[f] \cup {Now(Ext(f))'} ELSE seen[f]]

ChangeSetting ==
    /\ Change
    /\ \/ \E s \in Flags : flags' = (flags \ {s}) \cup ({s} \ flags)
       \/ UNCHANGED flags
    /\ depthLimit' \in 0 .. 1
    /\ UNCHANGED << known, registry >>
    /\ Noticed

ChangeRegistration ==
    /\ Change
    /\ \/ /\ \E e \in Extensions, h \in {"absent", "null", "ours", "other"} :
                 direct' = [direct EXCEPT ![e] = h]
          /\ UNCHANGED addin
       \/ /\ \E a \in {"missing", "OtherFilter"} :
                 addin' = [addin EXCEPT !["other"] = a]
          /\ UNCHANGED direct
    /\ UNCHANGED << settings, obsolete >>
    /\ Noticed

Next ==
    \/ \E f \in Filters : \/ \E e \in Extensions : Begin(f, e)
                          \/ FindClsid(f) \/ FindClsidFails(f)
                          \/ RunOther(f) \/ RunFilter(f) \/ Release(f)
    \/ ChangeSetting
    \/ ChangeRegistration

Spec == Init /\ [][Next]_vars

-----------------------------------------------------------------------------
\* The filter of an extension as README.md explains the three settings, in
\* that order: 7-Zip if registered handlers are ignored; the associated
\* filter, but not the null one if that is ignored; 7-Zip if none is.
Associated(v) ==
    {h \in Handlers : /\ h = IF v.direct # "absent" THEN v.direct
                                                     ELSE v.obsolete
                      /\ h = "null" => "ignoreNull" \notin v.flags
                      /\ v.addin[h] # "missing"}

Internal(e, flag, v) == e \in known /\ flag \in v.flags

Documented(e, v) ==
    IF Internal(e, "ignoreRegistered", v) THEN {"Filter"}
    ELSE IF Associated(v) # {}
      THEN {IF v.addin[h] = "malformed" THEN "none" ELSE v.addin[h] :
              h \in Associated(v)}
    ELSE IF Internal(e, "useInternal", v) THEN {"Filter"}
    ELSE {"none"}

\* What may be read in views one after the other: each setting, each kind of
\* registration as it is in one of them.
Mixed(views) ==
    {[flags |-> fl, direct |-> d.direct, obsolete |-> o.obsolete,
      addin |-> a.addin] :
         fl \in {fl \in SUBSET Flags : \A s \in Flags : \E v \in views :
                                         s \in fl <=> s \in v.flags},
         d \in views, o \in views, a \in views}

\* A lookup that asked gives the documented answer for settings and
\* registrations each of which there was while it asked: none is taken twice,
\* from before or out of turn, whatever changes in between.  So if nothing
\* changes, it is the documented answer.
AnswersAsDocumented ==
    \A f \in Filters :
        lookup[f].step = "answered" /\ seen[f] # {} =>
            \E v \in Mixed(seen[f]) :
                lookup[f].answer \in Documented(Ext(f), v)

\* While a Filter lives, all its members with the same extension are scanned
\* by the same filter or all by none, whatever changes under way.
SameExtensionSameFilter ==
    [][\A f \in Filters, e \in Extensions :
           cache[f][e] # "unknown" /\ open' >= f =>
               /\ cache'[f][e] = cache[f][e]
               /\ (lookup'[f].step = "answered" /\ lookup'[f].ext = e) =>
                      lookup'[f].answer = cache[f][e]]_vars

\* README.md, RecursionDepthLimit: "Limits the amount of archive file
\* recursions, after which no additionally contained archive file will be
\* scanned."  (It does not: the depth is passed on but never counted up.)
NestingWithinLimit == open - 1 <= depthLimit
=============================================================================

--------------------------- MODULE DispatchProofs ---------------------------
(***************************************************************************)
(* For any extensions, any nesting and any number of changes: a lookup     *)
(* gives the filter the documentation names for what it has read.  The     *)
(* documentation describes one moment, FindClsid takes up to six steps; a  *)
(* view mixed from those seen so far explains what each step has found     *)
(* out, and the next step changes in it only what it reads itself.         *)
(***************************************************************************)
EXTENDS Dispatch, TLAPS

\* The persistent handler of an extension.
Registered(v) == IF v.direct = "absent" THEN v.obsolete ELSE Parsed(v.direct)

UsedIn(h, v) == h # "none" /\ (h # "null" \/ "ignoreNull" \notin v.flags)

\* What the steps so far have established, if they have read v.
FoundOut(f, v) ==
    /\ lookup[f].step \in {"direct", "obsolete", "null", "addin", "fallback"} =>
           ~Internal(Ext(f), "ignoreRegistered", v)
    /\ At(f, "obsolete") => v.direct = "absent"
    /\ At(f, "null") => Handler(f) = Registered(v)
    /\ At(f, "addin") => Handler(f) = Registered(v) /\ UsedIn(Handler(f), v)
    /\ At(f, "fallback") => Associated(v) = {}
    /\ At(f, "answered") => lookup[f].answer \in Documented(Ext(f), v)

Knowledge ==
    \A f \in Filters :
        /\ Asks(f) => Now(Ext(f)) \in seen[f]
        /\ seen[f] # {} => \E v \in Mixed(seen[f]) : FoundOut(f, v)

\* Addins are looked up of handlers only, whatever changes under way.
HandlerFound == \A f \in Filters : At(f, "addin") => Handler(f) \in Handlers

IInv == TypeOK /\ Knowledge /\ HandlerFound

-----------------------------------------------------------------------------
(* Views.                                                                  *)

\* Each part of a mixed view is that of one of the views.
IsMixed(v, views) ==
    /\ \A s \in Flags : \E w \in views : s \in v.flags <=> s \in w.flags
    /\ \E w \in views : v.direct = w.direct
    /\ \E w \in views : v.obsolete = w.obsolete
    /\ \E w \in views : v.addin = w.addin

LEMMA MixedIs ==
  ASSUME NEW views \in SUBSET Views
  PROVE  Mixed(views) = {v \in Views : IsMixed(v, views)}
<1>1. ASSUME NEW v \in Mixed(views) PROVE v \in Views /\ IsMixed(v, views)
  <2>1. PICK fl \in SUBSET Flags, d \in views, o \in views, a \in views :
          /\ \A s \in Flags : \E w \in views : s \in fl <=> s \in w.flags
          /\ v = [flags |-> fl, direct |-> d.direct, obsolete |-> o.obsolete,
                  addin |-> a.addin]
    BY DEF Mixed
  <2>2. v \in Views
    BY <2>1 DEF Views
  <2>3. /\ v.flags = fl /\ v.direct = d.direct /\ v.obsolete = o.obsolete
        /\ v.addin = a.addin
    BY <2>1
  <2> QED BY <2>1, <2>2, <2>3 DEF IsMixed
<1>2. ASSUME NEW v \in Views, IsMixed(v, views) PROVE v \in Mixed(views)
  <2>1. PICK d \in views : v.direct = d.direct
    BY <1>2 DEF IsMixed
  <2>2. PICK o \in views : v.obsolete = o.obsolete
    BY <1>2 DEF IsMixed
  <2>3. PICK a \in views : v.addin = a.addin
    BY <1>2 DEF IsMixed
  <2>4. v.flags \in {fl \in SUBSET Flags : \A s \in Flags : \E w \in views :
                                            s \in fl <=> s \in w.flags}
    BY <1>2 DEF IsMixed, Views
  <2>5. v = [flags |-> v.flags, direct |-> d.direct, obsolete |-> o.obsolete,
             addin |-> a.addin]
    BY <2>1, <2>2, <2>3 DEF Views
  <2> QED BY <2>4, <2>5 DEF Mixed
<1> QED BY <1>1, <1>2

\* One part of a mixed view may be taken from any of the views.
SetFlag(v, s, n) ==
    [v EXCEPT !.flags = IF s \in n.flags THEN @ \cup {s} ELSE @ \ {s}]

LEMMA Reading ==
  ASSUME NEW views \in SUBSET Views, NEW v \in Mixed(views), NEW n \in views
  PROVE  /\ v \in Views
         /\ [v EXCEPT !.direct = n.direct] \in Mixed(views)
         /\ [v EXCEPT !.obsolete = n.obsolete] \in Mixed(views)
         /\ [v EXCEPT !.addin = n.addin] \in Mixed(views)
         /\ \A s \in Flags : SetFlag(v, s, n) \in Mixed(views)
<1>1. v \in Views /\ IsMixed(v, views) /\ n \in Views
  BY MixedIs
<1>2. [v EXCEPT !.direct = n.direct] \in Mixed(views)
  <2> DEFINE u == [v EXCEPT !.direct = n.direct]
  <2>1. /\ u \in Views /\ u.direct = n.direct
        /\ u.flags = v.flags /\ u.obsolete = v.obsolete /\ u.addin = v.addin
    BY <1>1 DEF Views
  <2> HIDE DEF u
  <2>2. u \in Mixed(views)
    BY <1>1, <2>1, MixedIs DEF IsMixed
  <2> QED BY <2>2 DEF u
<1>3. [v EXCEPT !.obsolete = n.obsolete] \in Mixed(views)
  <2> DEFINE u == [v EXCEPT !.obsolete = n.obsolete]
  <2>1. /\ u \in Views /\ u.obsolete = n.obsolete
        /\ u.flags = v.flags /\ u.direct = v.direct /\ u.addin = v.addin
    BY <1>1 DEF Views
  <2> HIDE DEF u
  <2>2. u \in Mixed(views)
    BY <1>1, <2>1, MixedIs DEF IsMixed
  <2> QED BY <2>2 DEF u
<1>4. [v EXCEPT !.addin = n.addin] \in Mixed(views)
  <2> DEFINE u == [v EXCEPT !.addin = n.addin]
  <2>1. /\ u \in Views /\ u.addin = n.addin
        /\ u.flags = v.flags /\ u.direct = v.direct /\ u.obsolete = v.obsolete
    BY <1>1 DEF Views
  <2> HIDE DEF u
  <2>2. u \in Mixed(views)
    BY <1>1, <2>1, MixedIs DEF IsMixed
  <2> QED BY <2>2 DEF u
<1>5. ASSUME NEW s \in Flags PROVE SetFlag(v, s, n) \in Mixed(views)
  <2> DEFINE fl == IF s \in n.flags THEN v.flags \cup {s} ELSE v.flags \ {s}
             u == SetFlag(v, s, n)
  <2>1. fl \in SUBSET Flags
    BY <1>1 DEF Views
  <2>2. u = [v EXCEPT !.flags = fl]
    BY DEF SetFlag
  <2>3. \A t \in Flags : \E w \in views : t \in fl <=> t \in w.flags
    <3> SUFFICES ASSUME NEW t \in Flags
                 PROVE  \E w \in views : t \in fl <=> t \in w.flags
      OBVIOUS
    <3>1. CASE t = s
      BY <3>1
    <3>2. CASE t # s
      <4>1. t \in fl <=> t \in v.flags
        BY <3>2
      <4> QED BY <1>1, <4>1 DEF IsMixed
    <3> QED BY <3>1, <3>2
  <2> HIDE DEF fl, u
  <2>4. /\ u \in Views /\ u.flags = fl
        /\ u.direct = v.direct /\ u.obsolete = v.obsolete /\ u.addin = v.addin
    BY <1>1, <2>1, <2>2 DEF Views
  <2>5. IsMixed(u, views)
    BY <1>1, <2>3, <2>4 DEF IsMixed
  <2>6. u \in Mixed(views)
    BY <2>4, <2>5, MixedIs
  <2> QED BY <2>6 DEF u
<1> QED BY <1>1, <1>2, <1>3, <1>4, <1>5

\* More views make more of them.
LEMMA SeeingMore ==
  ASSUME NEW less \in SUBSET Views, NEW more \in SUBSET Views, less \subseteq more
  PROVE  Mixed(less) \subseteq Mixed(more)
<1>1. \A v : IsMixed(v, less) => IsMixed(v, more)
  BY DEF IsMixed
<1> QED BY <1>1, MixedIs

\* What there is now is a view, of which a mixed one may consist.
LEMMA NowIsView ==
  ASSUME TypeOK, NEW e \in Extensions
  PROVE  Now(e) \in Views /\ Now(e) \in Mixed({Now(e)})
<1>1. Now(e) \in Views
  BY DEF TypeOK, Now, Views
<1> HIDE DEF Now
<1> QED BY <1>1, MixedIs DEF IsMixed

\* The documented filter in terms of the registered handler.
LEMMA AssociatedIs ==
  ASSUME NEW v \in Views
  PROVE  Associated(v) =
           IF /\ UsedIn(Registered(v), v)
              /\ v.addin[Registered(v)] # "missing"
             THEN {Registered(v)} ELSE {}
<1> DEFINE h == IF v.direct # "absent" THEN v.direct ELSE v.obsolete
<1>1. Registered(v) \in Handlers \cup {"none"}
  BY DEF Views, Registered, Parsed, Handlers
<1>2. \A g \in Handlers : g = h <=> g = Registered(v)
  BY DEF Views, Registered, Parsed, Handlers
<1> QED BY <1>1, <1>2 DEF Associated, UsedIn, Handlers

\* A machine on which nothing was looked up yet.
LEMMA InitInv == Init => IInv
<1> SUFFICES ASSUME Init PROVE IInv
  OBVIOUS
<1>1. TypeOK
  BY DispatchAssumption
     DEF Init, TypeOK, Handlers, Addins, Answers, Flags, Filters, Empty, Idle
<1>2. Knowledge /\ HandlerFound
  BY DEF Init, Knowledge, HandlerFound, Asks, At, Steps, Idle
<1> QED BY <1>1, <1>2 DEF IInv

-----------------------------------------------------------------------------
(* FindClsid.                                                              *)

\* A lookup that stays as it is knows what it knew, if there is to read what
\* there was.
LEMMA OtherKnows ==
  ASSUME IInv, NEW g \in Filters,
         lookup'[g] = lookup[g], seen'[g] = seen[g],
         UNCHANGED << settings, registry >>
  PROVE  /\ Asks(g)' => Now(Ext(g))' \in seen'[g]
         /\ seen'[g] # {} => \E v \in Mixed(seen'[g]) : FoundOut(g, v)'
<1>1. /\ Asks(g)' = Asks(g) /\ Now(Ext(g))' = Now(Ext(g))
  BY DEF Asks, Now, Ext, settings, registry
<1>2. \A v : FoundOut(g, v)' <=> FoundOut(g, v)
  BY DEF FoundOut, At, Ext, Handler, Internal, Registered, UsedIn, Parsed,
         Associated, Documented, settings
<1> QED BY <1>1, <1>2 DEF IInv, Knowledge

\* In all steps of FindClsid a lookup is under way, and what it has found out
\* so far is explained by what it has seen.
LEMMA UnderWay ==
  ASSUME IInv, NEW f \in Filters, Asks(f)
  PROVE  /\ lookup[f] # Idle /\ lookup[f] \in Lookups /\ Ext(f) \in Extensions
         /\ Now(Ext(f)) \in seen[f] /\ seen[f] \in SUBSET Views
         /\ \E v \in Mixed(seen[f]) : FoundOut(f, v)
<1>1. lookup[f] # Idle
  BY DEF Asks, Idle, Steps
<1>2. lookup[f] \in Lookups /\ seen[f] \in SUBSET Views
  BY <1>1 DEF IInv, TypeOK
<1> QED BY <1>1, <1>2 DEF IInv, Knowledge, Lookups, Ext

\* A miss begins with nothing known and with what there is now to see; a hit
\* has not asked.
LEMMA BeginInv ==
  ASSUME IInv, NEW f \in Filters, NEW e \in Extensions, Begin(f, e)
  PROVE  IInv'
<1> DEFINE hit == IsCached(f, e)
           l == [step |-> IF hit THEN "answered" ELSE "setting",
                 ext |-> e, handler |-> "none",
                 answer |-> IF hit THEN cache[f][e] ELSE "none"]
           s == IF hit THEN {} ELSE {Now(e)}
<1>1. l \in Lookups
  BY DEF IInv, TypeOK, Lookups, Steps, IsCached, Answers
<1>2. /\ lookup' = [lookup EXCEPT ![f] = l]
      /\ seen' = [seen EXCEPT ![f] = s]
      /\ UNCHANGED << settings, registry >>
  BY DEF Begin
<1>a. s \in SUBSET Views
  BY NowIsView DEF IInv
<1>b. lookup'[f] = l /\ seen'[f] = s
  BY <1>2 DEF IInv, TypeOK
<1>3. TypeOK'
  <2> HIDE DEF l, s
  <2> QED BY <1>1, <1>2, <1>a
          DEF IInv, TypeOK, Begin, settings, registry, filters, Filters
<1>4. Knowledge'
  <2> SUFFICES ASSUME NEW g \in Filters
               PROVE  /\ Asks(g)' => Now(Ext(g))' \in seen'[g]
                      /\ seen'[g] # {} =>
                            \E v \in Mixed(seen'[g]) : FoundOut(g, v)'
    BY DEF Knowledge
  <2>1. CASE g = f /\ hit
    <3>1. ~Asks(f)' /\ seen'[f] = {}
      BY <1>b, <2>1 DEF Asks
    <3> QED BY <2>1, <3>1
  <2>2. CASE g = f /\ ~hit
    <3>1. lookup'[f].step = "setting" /\ lookup'[f].ext = e /\ seen'[f] = {Now(e)}
      BY <1>b, <2>2
    <3>2. Now(Ext(f))' = Now(e)
      BY <1>2, <3>1 DEF Now, Ext, settings, registry
    <3>3. Now(e) \in Mixed(seen'[f])
      BY <3>1, NowIsView DEF IInv
    <3>4. \A v : FoundOut(f, v)'
      BY <3>1 DEF FoundOut, At
    <3> QED BY <2>2, <3>1, <3>2, <3>3, <3>4
  <2>3. CASE g # f
    <3>1. lookup'[g] = lookup[g] /\ seen'[g] = seen[g]
      BY <1>2, <2>3 DEF IInv, TypeOK
    <3> QED BY <1>2, <3>1, OtherKnows
  <2> QED BY <2>1, <2>2, <2>3
<1>5. HandlerFound'
  <2> HIDE DEF l
  <2>1. l.step # "addin"
    BY DEF l
  <2> QED BY <1>2, <2>1 DEF IInv, TypeOK, HandlerFound, At, Handler
<1> QED BY <1>3, <1>4, <1>5 DEF IInv

\* The lookup a step goes on with.
LEMMA GoesTo ==
  ASSUME IInv, NEW f \in Filters, NEW step, NEW handler, Asks(f),
         GoTo(f, step, handler)
  PROVE  /\ lookup' = [lookup EXCEPT ![f] =
                         [lookup[f] EXCEPT !.step = step, !.handler = handler]]
         /\ lookup'[f].step = step
         /\ lookup'[f].handler = handler
         /\ lookup'[f].ext = lookup[f].ext
         /\ UNCHANGED << settings, registry, seen >>
  BY UnderWay DEF IInv, TypeOK, GoTo, Lookups

\* What is known there, if v tells what the step has found out.
LEMMA FindsOut ==
  ASSUME IInv, NEW f \in Filters, NEW v, NEW step \in Steps \ {"answered"},
         NEW handler, Asks(f), GoTo(f, step, handler),
         ~Internal(Ext(f), "ignoreRegistered", v),
         step = "obsolete" => v.direct = "absent",
         step \in {"null", "addin"} => handler = Registered(v),
         step = "addin" => UsedIn(handler, v),
         step = "fallback" => Associated(v) = {}
  PROVE  FoundOut(f, v)'
<1>1. /\ lookup'[f].step = step /\ lookup'[f].handler = handler
      /\ lookup'[f].ext = lookup[f].ext /\ known' = known
  BY GoesTo DEF settings
<1>2. /\ (Internal(Ext(f), "ignoreRegistered", v))' =
           Internal(Ext(f), "ignoreRegistered", v)
      /\ Handler(f)' = handler
      /\ Registered(v)' = Registered(v) /\ UsedIn(handler, v)' = UsedIn(handler, v)
      /\ Associated(v)' = Associated(v)
  BY <1>1 DEF Internal, Ext, Handler, Registered, UsedIn, Parsed, Associated
<1>3. \A st : At(f, st)' <=> st = step
  BY <1>1 DEF At
<1> QED BY <1>1, <1>2, <1>3 DEF FoundOut, Steps

\* A step that goes on to another one keeps the invariant if a view explains
\* what that one knows.
LEMMA GoToInv ==
  ASSUME IInv, NEW f \in Filters, NEW step \in Steps \ {"answered"},
         NEW handler \in Handlers \cup {"none"},
         Asks(f), GoTo(f, step, handler),
         step = "addin" => handler \in Handlers,
         \E v \in Mixed(seen[f]) : FoundOut(f, v)'
  PROVE  IInv'
<1>0. lookup[f] \in Lookups /\ lookup[f] # Idle
  BY UnderWay
<1>1. /\ lookup' = [lookup EXCEPT ![f] =
                      [lookup[f] EXCEPT !.step = step, !.handler = handler]]
      /\ UNCHANGED << settings, registry, seen >>
  BY GoesTo
<1>2. [lookup[f] EXCEPT !.step = step, !.handler = handler] \in Lookups
  BY <1>0 DEF Lookups
<1>3. TypeOK'
  <2>1. f <= open
    BY <1>0 DEF IInv, TypeOK, Filters
  <2> QED BY <1>1, <1>2, <2>1 DEF IInv, TypeOK, GoTo, settings, registry, filters, Filters
<1>4. Knowledge'
  <2> SUFFICES ASSUME NEW g \in Filters
               PROVE  /\ Asks(g)' => Now(Ext(g))' \in seen'[g]
                      /\ seen'[g] # {} =>
                            \E v \in Mixed(seen'[g]) : FoundOut(g, v)'
    BY DEF Knowledge
  <2>1. CASE g = f
    <3>1. Ext(f)' = Ext(f)
      BY GoesTo DEF Ext
    <3>2. Now(Ext(f))' = Now(Ext(f))
      BY <1>1, <3>1 DEF Now, settings, registry
    <3> QED BY <1>1, <2>1, <3>2, UnderWay
  <2>2. CASE g # f
    <3>1. lookup'[g] = lookup[g] /\ seen'[g] = seen[g]
      BY <1>1, <2>2 DEF IInv, TypeOK
    <3> QED BY <1>1, <3>1, OtherKnows
  <2> QED BY <2>1, <2>2
<1>5. HandlerFound'
  BY <1>0, <1>1 DEF IInv, TypeOK, HandlerFound, At, Handler, Lookups
<1> QED BY <1>3, <1>4, <1>5 DEF IInv

\* A step that answers keeps the invariant if the answer is the one documented
\* for a view.
LEMMA AnswerInv ==
  ASSUME IInv, NEW f \in Filters, NEW answer \in Answers,
         Asks(f), Answer(f, answer),
         \E v \in Mixed(seen[f]) : answer \in Documented(Ext(f), v)
  PROVE  IInv'
<1>0. lookup[f] \in Lookups /\ lookup[f] # Idle
  BY UnderWay
<1>1. /\ lookup' = [lookup EXCEPT ![f] =
                      [lookup[f] EXCEPT !.step = "answered", !.answer = answer]]
      /\ UNCHANGED << settings, registry, seen >>
  BY DEF Answer, IInv, TypeOK
<1>2. [lookup[f] EXCEPT !.step = "answered", !.answer = answer] \in Lookups
  BY <1>0 DEF Lookups, Steps
<1>3. TypeOK'
  <2>1. f <= open
    BY <1>0 DEF IInv, TypeOK, Filters
  <2>2. cache' \in [Filters -> [Extensions -> Answers \cup {"unknown"}]]
    BY <1>0 DEF IInv, TypeOK, Answer
  <2>3. \A g \in Filters : g > open' => cache'[g] = Empty /\ lookup'[g] = Idle
    BY <1>1, <2>1 DEF IInv, TypeOK, Answer, Filters
  <2> QED BY <1>1, <1>2, <2>2, <2>3 DEF IInv, TypeOK, Answer, settings, registry
<1>4. Knowledge'
  <2> SUFFICES ASSUME NEW g \in Filters
               PROVE  /\ Asks(g)' => Now(Ext(g))' \in seen'[g]
                      /\ seen'[g] # {} =>
                            \E v \in Mixed(seen'[g]) : FoundOut(g, v)'
    BY DEF Knowledge
  <2>1. CASE g = f
    <3>1. /\ lookup'[f].step = "answered" /\ lookup'[f].answer = answer
          /\ lookup'[f].ext = lookup[f].ext
      BY <1>0, <1>1 DEF IInv, TypeOK, Lookups
    <3>2. ~Asks(f)'
      BY <3>1 DEF Asks
    <3>3. PICK v \in Mixed(seen[f]) : answer \in Documented(Ext(f), v)
      OBVIOUS
    <3>4. Documented(Ext(f), v)' = Documented(Ext(f), v)
      BY <1>1, <3>1 DEF Ext, Documented, Internal, Associated, settings
    <3>5. FoundOut(f, v)'
      BY <3>1, <3>3, <3>4 DEF FoundOut, At
    <3>6. v \in Mixed(seen'[f])
      BY <1>1
    <3> QED BY <2>1, <3>2, <3>5, <3>6
  <2>2. CASE g # f
    <3>1. lookup'[g] = lookup[g] /\ seen'[g] = seen[g]
      BY <1>1, <2>2 DEF IInv, TypeOK
    <3> QED BY <1>1, <3>1, OtherKnows
  <2> QED BY <2>1, <2>2
<1>5. HandlerFound'
  BY <1>0, <1>1 DEF IInv, TypeOK, HandlerFound, At, Handler, Lookups
<1> QED BY <1>3, <1>4, <1>5 DEF IInv

-----------------------------------------------------------------------------
(* The steps of FindClsid, each by one of the two lemmas above: it takes   *)
(* the view that explains the steps before, with what it reads as it is.   *)

\* Going on means that 7-Zip does not come first.
LEMMA CheckIgnoreRegisteredInv ==
  ASSUME IInv, NEW f \in Filters, CheckIgnoreRegistered(f) PROVE IInv'
<1> DEFINE n == Now(Ext(f))
           s == "ignoreRegistered"
<1>0. Asks(f) /\ lookup[f].step = "setting"
  BY DEF CheckIgnoreRegistered, At, Asks, Steps
<1>1. PICK v0 \in Mixed(seen[f]) : FoundOut(f, v0)
  BY <1>0, UnderWay
<1>2. PICK v \in Mixed(seen[f]) :
        /\ v \in Views
        /\ s \in v.flags <=> s \in flags
  <2> DEFINE u == SetFlag(v0, s, n)
  <2>1. u \in Mixed(seen[f]) /\ v0 \in Views
    BY <1>0, UnderWay, Reading DEF Flags
  <2>2. u \in Views
    BY <1>0, <2>1, UnderWay, Reading
  <2>3. /\ s \in u.flags <=> s \in flags
    BY <2>1 DEF SetFlag, Now, Views
  <2> QED BY <2>1, <2>2, <2>3
<1>4. CASE s \in flags /\ Ext(f) \in known
  <2>1. Answer(f, "Filter")
    BY <1>4 DEF CheckIgnoreRegistered
  <2>2. "Filter" \in Documented(Ext(f), v)
    BY <1>2, <1>4 DEF Documented, Internal
  <2> QED BY <1>0, <1>2, <2>1, <2>2, AnswerInv DEF Answers
<1>5. CASE ~(s \in flags /\ Ext(f) \in known)
  <2>1. GoTo(f, "direct", "none")
    BY <1>5 DEF CheckIgnoreRegistered
  <2>2. FoundOut(f, v)'
    BY <1>0, <1>2, <1>5, <2>1, FindsOut DEF Internal, Steps
  <2> QED BY <1>0, <1>2, <2>1, <2>2, GoToInv DEF Steps
<1> QED BY <1>4, <1>5

\* Going on to the obsolete registration means there is no other.
LEMMA ReadDirectInv ==
  ASSUME IInv, NEW f \in Filters, ReadDirect(f) PROVE IInv'
<1> DEFINE n == Now(Ext(f))
<1>0. Asks(f) /\ lookup[f].step = "direct"
  BY DEF ReadDirect, At, Asks, Steps
<1>1. PICK v0 \in Mixed(seen[f]) : FoundOut(f, v0)
  BY <1>0, UnderWay
<1>2. PICK v \in Mixed(seen[f]) :
        /\ v \in Views
        /\ v.direct = direct[Ext(f)]
        /\ v.flags = v0.flags
  <2> DEFINE u == [v0 EXCEPT !.direct = n.direct]
  <2>1. u \in Mixed(seen[f]) /\ v0 \in Views
    BY <1>0, UnderWay, Reading
  <2>2. u \in Views
    BY <1>0, <2>1, UnderWay, Reading
  <2>3. /\ u.direct = direct[Ext(f)]
        /\ u.flags = v0.flags
    BY <2>1 DEF Now, Views
  <2> QED BY <2>1, <2>2, <2>3
<1>a. ~Internal(Ext(f), "ignoreRegistered", v)
  BY <1>0, <1>1, <1>2 DEF FoundOut, Internal
<1>4. CASE direct[Ext(f)] = "absent"
  <2>1. GoTo(f, "obsolete", "none")
    BY <1>4 DEF ReadDirect
  <2>2. FoundOut(f, v)'
    BY <1>0, <1>2, <1>a, <1>4, <2>1, FindsOut DEF Steps
  <2> QED BY <1>0, <1>2, <2>1, <2>2, GoToInv DEF Steps
<1>5. CASE direct[Ext(f)] # "absent"
  <2>1. GoTo(f, "null", Parsed(direct[Ext(f)]))
    BY <1>5 DEF ReadDirect
  <2>2. FoundOut(f, v)'
    BY <1>0, <1>2, <1>a, <1>5, <2>1, FindsOut DEF Registered, Steps
  <2>3. Parsed(direct[Ext(f)]) \in Handlers \cup {"none"}
    BY DEF Parsed
  <2> QED BY <1>0, <1>2, <2>1, <2>2, <2>3, GoToInv DEF Steps
<1> QED BY <1>4, <1>5

\* The handler found is the registered one, or there is none.
LEMMA ReadObsoleteInv ==
  ASSUME IInv, NEW f \in Filters, ReadObsolete(f) PROVE IInv'
<1> DEFINE n == Now(Ext(f))
<1>0. Asks(f) /\ lookup[f].step = "obsolete"
  BY DEF ReadObsolete, At, Asks, Steps
<1>1. PICK v0 \in Mixed(seen[f]) : FoundOut(f, v0)
  BY <1>0, UnderWay
<1>2. PICK v \in Mixed(seen[f]) :
        /\ v \in Views
        /\ v.obsolete = obsolete[Ext(f)]
        /\ v.direct = v0.direct
        /\ v.flags = v0.flags
  <2> DEFINE u == [v0 EXCEPT !.obsolete = n.obsolete]
  <2>1. u \in Mixed(seen[f]) /\ v0 \in Views
    BY <1>0, UnderWay, Reading
  <2>2. u \in Views
    BY <1>0, <2>1, UnderWay, Reading
  <2>3. /\ u.obsolete = obsolete[Ext(f)]
        /\ u.direct = v0.direct
        /\ u.flags = v0.flags
    BY <2>1 DEF Now, Views
  <2> QED BY <2>1, <2>2, <2>3
<1>4. v.direct = "absent" /\ ~Internal(Ext(f), "ignoreRegistered", v)
  BY <1>0, <1>1, <1>2 DEF FoundOut, At, Internal
<1>5. GoTo(f, "null", obsolete[Ext(f)])
  BY DEF ReadObsolete
<1>6. FoundOut(f, v)'
  BY <1>0, <1>2, <1>4, <1>5, FindsOut DEF Registered, Steps
<1>7. obsolete[Ext(f)] \in Handlers \cup {"none"}
  BY <1>0, UnderWay DEF IInv, TypeOK
<1> QED BY <1>0, <1>2, <1>5, <1>6, <1>7, GoToInv DEF Steps

\* A handler that is not used is not associated.
LEMMA CheckIgnoreNullInv ==
  ASSUME IInv, NEW f \in Filters, CheckIgnoreNull(f) PROVE IInv'
<1> DEFINE n == Now(Ext(f))
           s == "ignoreNull"
<1>0. Asks(f) /\ lookup[f].step = "null"
  BY DEF CheckIgnoreNull, At, Asks, Steps
<1>1. PICK v0 \in Mixed(seen[f]) : FoundOut(f, v0)
  BY <1>0, UnderWay
<1>2. PICK v \in Mixed(seen[f]) :
        /\ v \in Views
        /\ s \in v.flags <=> s \in flags
        /\ "ignoreRegistered" \in v.flags <=> "ignoreRegistered" \in v0.flags
        /\ v.direct = v0.direct /\ v.obsolete = v0.obsolete
  <2> DEFINE u == SetFlag(v0, s, n)
  <2>1. u \in Mixed(seen[f]) /\ v0 \in Views
    BY <1>0, UnderWay, Reading DEF Flags
  <2>2. u \in Views
    BY <1>0, <2>1, UnderWay, Reading
  <2>3. /\ s \in u.flags <=> s \in flags
        /\ "ignoreRegistered" \in u.flags <=> "ignoreRegistered" \in v0.flags
        /\ u.direct = v0.direct /\ u.obsolete = v0.obsolete
    BY <2>1 DEF SetFlag, Now, Views
  <2> QED BY <2>1, <2>2, <2>3
<1>4. /\ Handler(f) = Registered(v) /\ ~Internal(Ext(f), "ignoreRegistered", v)
      /\ IsUsed(Handler(f)) <=> UsedIn(Handler(f), v)
  BY <1>0, <1>1, <1>2 DEF FoundOut, At, Internal, Registered, IsUsed, UsedIn
<1>5. Handler(f) \in Handlers \cup {"none"}
  BY <1>0, UnderWay DEF Lookups, Handler
<1>6. CASE IsUsed(Handler(f))
  <2>1. GoTo(f, "addin", Handler(f))
    BY <1>6 DEF CheckIgnoreNull
  <2>2. FoundOut(f, v)'
    BY <1>0, <1>4, <1>6, <2>1, FindsOut DEF Steps
  <2>3. Handler(f) \in Handlers
    BY <1>5, <1>6 DEF IsUsed
  <2> QED BY <1>0, <1>2, <2>1, <2>2, <2>3, GoToInv DEF Steps
<1>7. CASE ~IsUsed(Handler(f))
  <2>1. GoTo(f, "fallback", Handler(f))
    BY <1>7 DEF CheckIgnoreNull
  <2>2. Associated(v) = {}
    BY <1>2, <1>4, <1>7, AssociatedIs
  <2>3. FoundOut(f, v)'
    BY <1>0, <1>4, <2>1, <2>2, FindsOut DEF Steps
  <2> QED BY <1>0, <1>2, <1>5, <2>1, <2>3, GoToInv DEF Steps
<1> QED BY <1>6, <1>7

\* A handler that has an addin is the associated one.
LEMMA ReadAddinInv ==
  ASSUME IInv, NEW f \in Filters, ReadAddin(f) PROVE IInv'
<1> DEFINE n == Now(Ext(f))
           h == Handler(f)
<1>0. Asks(f) /\ lookup[f].step = "addin"
  BY DEF ReadAddin, At, Asks, Steps
<1>1. PICK v0 \in Mixed(seen[f]) : FoundOut(f, v0)
  BY <1>0, UnderWay
<1>2. PICK v \in Mixed(seen[f]) :
        /\ v \in Views
        /\ v.addin = addin /\ v.flags = v0.flags
        /\ v.direct = v0.direct /\ v.obsolete = v0.obsolete
  <2> DEFINE u == [v0 EXCEPT !.addin = n.addin]
  <2>1. u \in Mixed(seen[f]) /\ v0 \in Views
    BY <1>0, UnderWay, Reading
  <2>2. u \in Views
    BY <1>0, <2>1, UnderWay, Reading
  <2>3. /\ u.addin = addin /\ u.flags = v0.flags
        /\ u.direct = v0.direct /\ u.obsolete = v0.obsolete
    BY <2>1 DEF Now, Views
  <2> QED BY <2>1, <2>2, <2>3
<1>4. /\ h = Registered(v) /\ ~Internal(Ext(f), "ignoreRegistered", v)
      /\ UsedIn(h, v) /\ h \in Handlers
  BY <1>0, <1>1, <1>2
     DEF FoundOut, At, Internal, Registered, UsedIn, IInv, HandlerFound
<1>5. CASE addin[h] = "missing"
  <2>1. GoTo(f, "fallback", h)
    BY <1>5 DEF ReadAddin
  <2>2. Associated(v) = {}
    BY <1>2, <1>4, <1>5, AssociatedIs
  <2>3. FoundOut(f, v)'
    BY <1>0, <1>4, <2>1, <2>2, FindsOut DEF Steps
  <2> QED BY <1>0, <1>2, <1>4, <2>1, <2>3, GoToInv DEF Steps
<1>6. CASE addin[h] # "missing"
  <2> DEFINE answer == IF addin[h] = "malformed" THEN "none" ELSE addin[h]
  <2>1. Answer(f, answer)
    BY <1>6 DEF ReadAddin
  <2>2. Associated(v) = {h}
    BY <1>2, <1>4, <1>6, AssociatedIs
  <2>3. answer \in Documented(Ext(f), v)
    BY <1>2, <1>4, <2>2 DEF Documented
  <2>4. answer \in Answers
    BY <1>4, <1>6 DEF IInv, TypeOK, Addins, Answers
  <2> QED BY <1>0, <1>2, <2>1, <2>3, <2>4, AnswerInv
<1> QED BY <1>5, <1>6

\* With nothing associated it is 7-Zip, or nothing.
LEMMA FallBackInv ==
  ASSUME IInv, NEW f \in Filters, FallBack(f) PROVE IInv'
<1> DEFINE n == Now(Ext(f))
           s == "useInternal"
           answer == IF s \in flags /\ Ext(f) \in known THEN "Filter" ELSE "none"
<1>0. Asks(f) /\ lookup[f].step = "fallback"
  BY DEF FallBack, At, Asks, Steps
<1>1. PICK v0 \in Mixed(seen[f]) : FoundOut(f, v0)
  BY <1>0, UnderWay
<1>2. PICK v \in Mixed(seen[f]) :
        /\ v \in Views
        /\ s \in v.flags <=> s \in flags
        /\ \A t \in Flags \ {s} : t \in v.flags <=> t \in v0.flags
        /\ v.direct = v0.direct /\ v.obsolete = v0.obsolete /\ v.addin = v0.addin
  <2> DEFINE u == SetFlag(v0, s, n)
  <2>1. u \in Mixed(seen[f]) /\ v0 \in Views
    BY <1>0, UnderWay, Reading DEF Flags
  <2>2. u \in Views
    BY <1>0, <2>1, UnderWay, Reading
  <2>3. /\ s \in u.flags <=> s \in flags
        /\ \A t \in Flags \ {s} : t \in u.flags <=> t \in v0.flags
        /\ u.direct = v0.direct /\ u.obsolete = v0.obsolete /\ u.addin = v0.addin
    BY <2>1 DEF SetFlag, Now, Views
  <2> QED BY <2>1, <2>2, <2>3
<1>4. Associated(v) = {} /\ ~Internal(Ext(f), "ignoreRegistered", v)
  BY <1>0, <1>1, <1>2 DEF FoundOut, At, Internal, Associated, Flags
<1>5. Answer(f, answer)
  BY DEF FallBack
<1>6. answer \in Documented(Ext(f), v)
  BY <1>2, <1>4 DEF Documented, Internal
<1> QED BY <1>0, <1>2, <1>5, <1>6, AnswerInv DEF Answers

-----------------------------------------------------------------------------
(* The other actions.                                                      *)

\* Running filters and failing end a lookup, releasing one is after its last.
LEMMA RunInv ==
  ASSUME IInv, NEW f \in Filters,
         RunOther(f) \/ RunFilter(f) \/ Release(f) \/ FindClsidFails(f)
  PROVE  IInv'
<1>1. /\ \A g \in Filters \ {f} : lookup'[g] = lookup[g] /\ seen'[g] = seen[g]
      /\ lookup'[f] = Idle
      /\ seen'[f] \in {{}, seen[f]}
      /\ UNCHANGED << settings, registry >>
  BY DEF IInv, TypeOK, RunOther, RunFilter, Release, FindClsidFails, Ends
<1>2. Knowledge'
  <2> SUFFICES ASSUME NEW g \in Filters
               PROVE  /\ Asks(g)' => Now(Ext(g))' \in seen'[g]
                      /\ seen'[g] # {} =>
                            \E v \in Mixed(seen'[g]) : FoundOut(g, v)'
    BY DEF Knowledge
  <2>1. CASE g = f
    <3>1. ~Asks(f)' /\ \A v : FoundOut(f, v)'
      BY <1>1 DEF Asks, FoundOut, At, Idle, Steps
    <3>2. seen'[f] # {} => \E v : v \in Mixed(seen'[f])
      BY <1>1 DEF IInv, Knowledge
    <3> QED BY <2>1, <3>1, <3>2
  <2>2. CASE g # f
    BY <1>1, <2>2, OtherKnows
  <2> QED BY <2>1, <2>2
<1>3. HandlerFound'
  <2> SUFFICES ASSUME NEW g \in Filters, At(g, "addin")'
               PROVE  Handler(g)' \in Handlers
    BY DEF HandlerFound
  <2>1. g # f
    BY <1>1 DEF At, Idle
  <2> QED BY <1>1, <2>1 DEF IInv, HandlerFound, At, Handler
<1>4. TypeOK'
  <2>0. Depth \in Nat \ {0}
    BY DispatchAssumption
  <2> USE <2>0 DEF IInv, TypeOK, Filters, settings, registry, filters, Ends
  <2>1. CASE RunOther(f)
    BY <2>1 DEF RunOther
  <2>2. CASE RunFilter(f)
    BY <2>2 DEF RunFilter
  <2>3. CASE Release(f)
    BY <2>3 DEF Release, Dropped, Empty
  <2>4. CASE FindClsidFails(f)
    BY <2>4 DEF FindClsidFails
  <2> QED BY <2>1, <2>2, <2>3, <2>4
<1> QED BY <1>2, <1>3, <1>4 DEF IInv

\* A change adds to what the lookups under way may see.
LEMMA ChangeInv ==
  ASSUME IInv, ChangeSetting \/ ChangeRegistration
  PROVE  IInv'
<1>0. /\ UNCHANGED << known, filters, lookup >>
      /\ seen' = [f \in Filters |->
                    IF Asks(f) THEN seen[f] \cup {Now(Ext(f))'} ELSE seen[f]]
  BY DEF ChangeSetting, ChangeRegistration, Change, Noticed, settings
<1>1. /\ flags' \in SUBSET Flags
      /\ direct' \in [Extensions -> Handlers \cup {"absent", "malformed"}]
      /\ obsolete' \in [Extensions -> Handlers \cup {"none"}]
      /\ addin' \in [Handlers -> Addins]
      /\ depthLimit' \in Nat
  <2> USE DEF IInv, TypeOK
  <2>1. CASE ChangeSetting
    BY <2>1 DEF ChangeSetting, registry
  <2>2. CASE ChangeRegistration
    BY <2>2 DEF ChangeRegistration, settings, Handlers, Addins, Answers
  <2> QED BY <2>1, <2>2
<1>2. ASSUME NEW f \in Filters
      PROVE  /\ seen[f] \subseteq seen'[f]
             /\ seen[f] \in SUBSET Views /\ seen'[f] \in SUBSET Views
             /\ Asks(f) => Now(Ext(f))' \in seen'[f]
  <2>1. seen[f] \in SUBSET Views
    BY DEF IInv, TypeOK
  <2>2. ASSUME Asks(f) PROVE Now(Ext(f))' \in Views
    <3>1. Ext(f)' = Ext(f) /\ Ext(f) \in Extensions
      BY <1>0, <2>2, UnderWay DEF Ext
    <3> QED BY <1>1, <3>1 DEF Now, Views
  <2> QED BY <1>0, <2>1, <2>2
<1>3. TypeOK'
  <2>1. seen' \in [Filters -> SUBSET Views]
    BY <1>0, <1>2
  <2>2. changes' \in 0 .. MaxChanges
    BY DispatchAssumption
       DEF IInv, TypeOK, ChangeSetting, ChangeRegistration, Change
  <2> QED BY <1>0, <1>1, <2>1, <2>2 DEF IInv, TypeOK, filters
<1>4. Knowledge'
  <2> SUFFICES ASSUME NEW f \in Filters
               PROVE  /\ Asks(f)' => Now(Ext(f))' \in seen'[f]
                      /\ seen'[f] # {} =>
                            \E v \in Mixed(seen'[f]) : FoundOut(f, v)'
    BY DEF Knowledge
  <2>1. Asks(f)' <=> Asks(f)
    BY <1>0 DEF Asks
  <2>2. ASSUME seen'[f] # {} PROVE \E v \in Mixed(seen'[f]) : FoundOut(f, v)'
    <3>1. seen[f] # {}
      BY <1>0, <2>2, UnderWay
    <3>2. PICK v \in Mixed(seen[f]) : FoundOut(f, v)
      BY <3>1 DEF IInv, Knowledge
    <3>3. v \in Mixed(seen'[f])
      BY <1>2, <3>2, SeeingMore
    <3>4. FoundOut(f, v)'
      BY <1>0, <3>2 DEF FoundOut, At, Ext, Handler, Internal, Registered,
         UsedIn, Parsed, Associated, Documented
    <3> QED BY <3>3, <3>4
  <2> QED BY <1>2, <2>1, <2>2
<1>5. HandlerFound'
  BY <1>0 DEF IInv, HandlerFound, At, Handler
<1> QED BY <1>3, <1>4, <1>5 DEF IInv

\* Every step keeps the invariant.
LEMMA StepInv == IInv /\ [Next]_vars => IInv'
<1> SUFFICES ASSUME IInv, [Next]_vars PROVE IInv'
  OBVIOUS
<1>1. ASSUME NEW f \in Filters, NEW e \in Extensions, Begin(f, e) PROVE IInv'
  BY <1>1, BeginInv
<1>2. ASSUME NEW f \in Filters, FindClsid(f) PROVE IInv'
  BY <1>2, CheckIgnoreRegisteredInv, ReadDirectInv, ReadObsoleteInv,
     CheckIgnoreNullInv, ReadAddinInv, FallBackInv DEF FindClsid
<1>3. ASSUME NEW f \in Filters,
             RunOther(f) \/ RunFilter(f) \/ Release(f) \/ FindClsidFails(f)
      PROVE  IInv'
  BY <1>3, RunInv
<1>4. CASE ChangeSetting \/ ChangeRegistration
  BY <1>4, ChangeInv
<1>5. CASE UNCHANGED vars
  <2>0. UNCHANGED << settings, registry, changes, filters, lookup, seen >>
    BY <1>5 DEF vars
  <2>1. TypeOK'
    BY <2>0 DEF IInv, TypeOK, settings, registry, filters
  <2>2. Knowledge'
    <3>1. ASSUME NEW g \in Filters
          PROVE  /\ Asks(g)' => Now(Ext(g))' \in seen'[g]
                 /\ seen'[g] # {} => \E v \in Mixed(seen'[g]) : FoundOut(g, v)'
      BY <2>0, OtherKnows
    <3> QED BY <3>1 DEF Knowledge
  <2>3. HandlerFound'
    BY <2>0 DEF IInv, HandlerFound, At, Handler
  <2> QED BY <2>1, <2>2, <2>3 DEF IInv
<1> QED BY <1>1, <1>2, <1>3, <1>4, <1>5 DEF Next

\* What a lookup has found out is explained by what it has seen.
THEOREM Invariance == Spec => []IInv
  BY InitInv, StepInv, PTL DEF Spec

\* Filters that are not there have no cache and look nothing up.
THEOREM TypeCorrect == Spec => []TypeOK
  BY Invariance, PTL DEF IInv

\* FindClsid follows README.md: it gives the filter the documentation names
\* for settings and registrations each of which there was while it asked.
THEOREM FollowsDocumentation == Spec => []AnswersAsDocumented
<1>1. IInv => AnswersAsDocumented
  BY DEF IInv, Knowledge, FoundOut, At, AnswersAsDocumented
<1> QED BY <1>1, Invariance, PTL

-----------------------------------------------------------------------------
(* The cache.                                                              *)

\* A lookup under way is of an extension that is not cached; one that is
\* answered agrees with the cache.
CacheAgrees ==
    \A f \in Filters :
        lookup[f] # Idle =>
            cache[f][Ext(f)] = IF At(f, "answered") THEN lookup[f].answer
                                                    ELSE "unknown"

\* Nothing is looked up at first.
LEMMA InitAgrees == Init => CacheAgrees
  BY DEF Init, CacheAgrees

\* Every step of one Filter leaves the others alone.
LEMMA StepAgrees ==
  ASSUME TypeOK, TypeOK', CacheAgrees, [Next]_vars
  PROVE  /\ CacheAgrees'
         /\ \A f \in Filters, e \in Extensions :
               cache[f][e] # "unknown" /\ open' >= f =>
                 /\ cache'[f][e] = cache[f][e]
                 /\ (lookup'[f].step = "answered" /\ lookup'[f].ext = e) =>
                        lookup'[f].answer = cache[f][e]
<1> DEFINE Kept ==
             \A f \in Filters, e \in Extensions :
               cache[f][e] # "unknown" /\ open' >= f =>
                 /\ cache'[f][e] = cache[f][e]
                 /\ (lookup'[f].step = "answered" /\ lookup'[f].ext = e) =>
                        lookup'[f].answer = cache[f][e]
<1>0. ASSUME UNCHANGED cache,
             \A f \in Filters : lookup'[f] \in {lookup[f], Idle}
      PROVE  CacheAgrees' /\ Kept
  BY <1>0 DEF CacheAgrees, Ext, At, Idle, TypeOK
<1>1. ASSUME NEW f \in Filters, NEW e \in Extensions, Begin(f, e)
      PROVE  CacheAgrees' /\ Kept
  BY <1>1 DEF CacheAgrees, Ext, At, Idle, TypeOK, Begin, IsCached, filters
<1>2. ASSUME NEW f \in Filters, NEW step \in Steps \ {"answered"},
             NEW handler, GoTo(f, step, handler),
             lookup[f] \in Lookups, ~At(f, "answered")
      PROVE  CacheAgrees' /\ Kept
  <2>0. /\ lookup'[f] = [lookup[f] EXCEPT !.step = step, !.handler = handler]
        /\ UNCHANGED cache
    BY <1>2 DEF TypeOK, GoTo, filters
  <2>1. /\ lookup'[f] # Idle /\ ~At(f, "answered")'
        /\ Ext(f)' = Ext(f)
        /\ UNCHANGED cache
    <3>1. lookup'[f].step = step /\ lookup'[f].ext = lookup[f].ext
      BY <1>2, <2>0 DEF Lookups
    <3>2. lookup'[f].step \notin {"idle", "answered"}
      BY <1>2, <3>1 DEF Steps
    <3>3. lookup'[f] # Idle
      BY <3>2 DEF Idle
    <3> QED BY <2>0, <3>1, <3>2, <3>3 DEF At, Ext
  <2>2. \A g \in Filters \ {f} : lookup'[g] = lookup[g]
    BY <1>2 DEF TypeOK, GoTo
  <2>3. lookup[f] # Idle
    BY <1>2 DEF Lookups, Steps, Idle
  <2>4. CacheAgrees'
    BY <1>2, <2>1, <2>2, <2>3 DEF CacheAgrees, At, Ext
  <2>5. Kept
    BY <2>1, <2>2, <2>3, <1>2 DEF CacheAgrees, At, Ext, Idle
  <2> QED BY <2>4, <2>5
<1>3. ASSUME NEW f \in Filters, NEW answer, Answer(f, answer),
             lookup[f] \in Lookups, ~At(f, "answered")
      PROVE  CacheAgrees' /\ Kept
  <2>1. /\ lookup' = [lookup EXCEPT ![f].step = "answered", ![f].answer = answer]
        /\ cache' = [cache EXCEPT ![f][Ext(f)] = answer]
        /\ UNCHANGED open
    BY <1>3 DEF Answer
  <2>2. /\ lookup'[f].step = "answered" /\ lookup'[f].answer = answer
        /\ lookup'[f].ext = lookup[f].ext /\ lookup[f].ext \in Extensions
        /\ \A g \in Filters \ {f} : lookup'[g] = lookup[g]
    BY <1>3, <2>1 DEF TypeOK, Lookups
  <2>3. \A g \in Filters, e \in Extensions :
          cache'[g][e] = IF g = f /\ e = lookup[f].ext THEN answer
                                                      ELSE cache[g][e]
    BY <2>1, <2>2 DEF TypeOK, Ext
  <2>4. lookup[f].step \notin {"answered", "idle"}
    BY <1>3 DEF At, Lookups, Steps
  <2>5. CacheAgrees'
    <3> SUFFICES ASSUME NEW g \in Filters, lookup'[g] # Idle
                 PROVE  cache'[g][lookup'[g].ext] =
                          IF lookup'[g].step = "answered"
                            THEN lookup'[g].answer ELSE "unknown"
      BY DEF CacheAgrees, Ext, At
    <3>1. CASE g = f
      BY <2>2, <2>3, <3>1
    <3>2. CASE g # f
      <4>1. lookup'[g] = lookup[g] /\ lookup[g].ext \in Extensions
        BY <2>2, <3>2 DEF TypeOK, Lookups
      <4> QED
        BY <2>3, <3>2, <4>1 DEF CacheAgrees, Ext, At
    <3> QED
      BY <3>1, <3>2
  <2> QED
    BY <2>2, <2>3, <2>4, <2>5, <1>3 DEF CacheAgrees, Ext, At, Idle
<1>4. ASSUME NEW f \in Filters, FindClsid(f) PROVE CacheAgrees' /\ Kept
  <2> USE <1>4 DEF FindClsid, CheckIgnoreRegistered, ReadDirect,
          ReadObsolete, CheckIgnoreNull, ReadAddin, FallBack
  <2>1. lookup[f] \in Lookups /\ ~At(f, "answered")
    BY DEF TypeOK, At, Idle
  <2>2. \/ \E answer : Answer(f, answer)
        \/ \E step \in Steps \ {"answered"} : \E handler : GoTo(f, step, handler)
    BY DEF Steps
  <2> QED BY <1>2, <1>3, <2>1, <2>2
<1>5. ASSUME NEW f \in Filters, RunOther(f) \/ RunFilter(f) \/ FindClsidFails(f)
      PROVE  CacheAgrees' /\ Kept
  BY <1>0, <1>5 DEF RunOther, RunFilter, FindClsidFails, Ends, filters, TypeOK
<1>6. ASSUME NEW f \in Filters, Release(f) PROVE CacheAgrees' /\ Kept
  BY <1>6 DEF Release, Dropped, CacheAgrees, At, Ext, Idle, TypeOK, Filters
<1>7. CASE ChangeSetting \/ ChangeRegistration \/ UNCHANGED vars
  BY <1>0, <1>7 DEF ChangeSetting, ChangeRegistration, Change, filters, vars
<1> QED BY <1>1, <1>4, <1>5, <1>6, <1>7 DEF Next

\* A Filter does not change its mind about an extension: the cache is only
\* written where it was empty, and every later lookup answers from it.
THEOREM CacheIsFinal == Spec => SameExtensionSameFilter
<1>1. Spec => []CacheAgrees
  <2>1. TypeOK /\ TypeOK' /\ CacheAgrees /\ [Next]_vars => CacheAgrees'
    BY StepAgrees
  <2> QED BY <2>1, InitAgrees, TypeCorrect, PTL DEF Spec
<1>2. TypeOK /\ TypeOK' /\ CacheAgrees /\ [Next]_vars =>
        [\A f \in Filters, e \in Extensions :
           cache[f][e] # "unknown" /\ open' >= f =>
               /\ cache'[f][e] = cache[f][e]
               /\ (lookup'[f].step = "answered" /\ lookup'[f].ext = e) =>
                      lookup'[f].answer = cache[f][e]]_vars
  BY StepAgrees
<1> QED BY <1>1, <1>2, TypeCorrect, PTL DEF Spec, SameExtensionSameFilter
=============================================================================

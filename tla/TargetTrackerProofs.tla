------------------------- MODULE TargetTrackerProofs -------------------------
(***************************************************************************)
(* Proofs about the target tracker: whatever program runs and however      *)
(* commands, interrupts, resets and grants of the bus are interleaved with *)
(* its cycles, the tracker, the Z80 and the injected code stay in step     *)
(* (TrackerInv); what the debugger shows, pages and stops at follows from  *)
(* that.                                                                   *)
(*                                                                         *)
(* Two hypotheses.  PrefixesLead is about the program that runs, and what  *)
(* trackPrefixedInstructions takes for granted; MCTargetTracker assumes it *)
(* of the program of its run.  RulesKept is about the use of the tracker:  *)
(* the code does not enforce these rules (see Lax).                        *)
(***************************************************************************)
EXTENDS TargetTracker, SequenceTheorems, FiniteSetTheorems, TLAPS

-----------------------------------------------------------------------------
(* The tracker as a record                                                 *)

Fields == {"on", "hold", "acq", "mode", "setRegs", "pos", "second", "pfx", "disablePending", "resetPending",
           "outActive", "mirrorDue", "overPC", "copyPC", "known", "pagedOut", "pageInDue", "reading", "busrq",
           "code", "pos0"}
IsRec(s) == s = [f \in Fields |-> s[f]]

\* n is s but for the fields in X
Same(s, n, X) == \A f \in Fields \ X : n[f] = s[f]

\* Two changes, one after the other
LEMMA SameTrans ==
    ASSUME NEW s, NEW n, NEW m, NEW X, NEW Y, Same(s, n, X), Same(n, m, Y)
    PROVE  Same(s, m, X \cup Y)
BY DEF Same

\* What paging the target's memory back in changes (handlePagingIn)
LEMMA PageBackInDoes ==
    ASSUME NEW s, IsRec(s)
    PROVE  LET n == PageBackIn(s)
           IN  /\ IsRec(n) /\ Same(s, n, {"outActive", "pageInDue"})
               /\ n.outActive = FALSE /\ n.pageInDue = TRUE
<1>1. IsRec(PageBackIn(s)) /\ Same(s, PageBackIn(s), {"outActive", "pageInDue"})
    BY DEF PageBackIn, IsRec, Same
<1>2. PageBackIn(s).outActive = FALSE /\ PageBackIn(s).pageInDue = TRUE
    BY DEF PageBackIn, IsRec, Fields
<1> QED
    BY <1>1, <1>2

\* What the bus access layer changes when it pages the memory in at the next cycle (BusAccess::pageIn)
LEMMA DoPageInDoes ==
    ASSUME NEW s, IsRec(s)
    PROVE  LET n == DoPageIn(s)
           IN  /\ IsRec(n) /\ Same(s, n, {"pagedOut", "pageInDue"})
               /\ n.pagedOut = (IF s.pageInDue THEN FALSE ELSE s.pagedOut)
               /\ n.pageInDue = (IF s.pageInDue THEN FALSE ELSE s.pageInDue)
<1>1. IsRec(DoPageIn(s)) /\ Same(s, DoPageIn(s), {"pagedOut", "pageInDue"})
    BY DEF DoPageIn, IsRec, Same
<1>2. /\ DoPageIn(s).pagedOut = (IF s.pageInDue THEN FALSE ELSE s.pagedOut)
      /\ DoPageIn(s).pageInDue = (IF s.pageInDue THEN FALSE ELSE s.pageInDue)
    BY DEF DoPageIn, IsRec, Fields
<1> QED
    BY <1>1, <1>2

\* What paging it out changes
LEMMA PageOutDoes ==
    ASSUME NEW s, IsRec(s), s.outActive => s.pagedOut, s.outActive \in BOOLEAN, s.pagedOut \in BOOLEAN
    PROVE  LET n == PageOut(s)
           IN  /\ IsRec(n) /\ Same(s, n, {"outActive", "pagedOut"})
               /\ n.outActive = TRUE /\ n.pagedOut = TRUE
<1>1. IsRec(PageOut(s)) /\ Same(s, PageOut(s), {"outActive", "pagedOut"})
    BY DEF PageOut, IsRec, Same
<1>2. PageOut(s).outActive = TRUE /\ PageOut(s).pagedOut = TRUE
    BY DEF PageOut, IsRec, Fields
<1> QED
    BY <1>1, <1>2

\* The last byte of a snippet is out.
AtDone == {"outActive", "pageInDue", "pfx", "setRegs", "acq", "mode", "pos"}
IsDone(s, n) ==
    /\ n.outActive = FALSE /\ n.pageInDue = TRUE /\ n.pfx = FALSE /\ n.setRegs = FALSE
    /\ n.acq = "POST_INJECT" /\ n.pos = 0 /\ n.mode = IF s.mode = "INTO" THEN "PAUSED" ELSE s.mode

\* What the end of a snippet changes
LEMMA DoneDoes ==
    ASSUME NEW s, IsRec(s)
    PROVE  IsRec(Done(s)) /\ Same(s, Done(s), AtDone) /\ IsDone(s, Done(s))
<1> DEFINE b == PageBackIn(s)
<1>1. IsRec(b) /\ Same(s, b, {"outActive", "pageInDue"}) /\ b.outActive = FALSE /\ b.pageInDue = TRUE
    BY PageBackInDoes
<1>2. b.mode = s.mode
    BY <1>1 DEF Same, Fields
<1> DEFINE e == [b EXCEPT !.pfx = FALSE, !.setRegs = FALSE, !.acq = "POST_INJECT",
                          !.mode = IF @ = "INTO" THEN "PAUSED" ELSE @]
<1>3. Done(s) = [e EXCEPT !.pos = 0]
    BY DEF Done, Done_PosKept
<1> HIDE DEF b
<1>4. IsRec(e) /\ Same(b, e, {"pfx", "setRegs", "acq", "mode"})
    BY <1>1 DEF IsRec, Same
<1>5. /\ e.pfx = FALSE /\ e.setRegs = FALSE /\ e.acq = "POST_INJECT" /\ e.outActive = FALSE /\ e.pageInDue = TRUE
      /\ e.mode = IF s.mode = "INTO" THEN "PAUSED" ELSE s.mode
    BY <1>1, <1>2 DEF IsRec, Fields
<1> HIDE DEF e
<1>6. IsRec(Done(s)) /\ Same(e, Done(s), {"pos"})
    BY <1>3, <1>4 DEF IsRec, Same
<1>7. IsDone(s, Done(s))
    BY <1>3, <1>4, <1>5 DEF IsDone, IsRec, Fields
<1>8. Same(s, Done(s), AtDone)
    BY <1>1, <1>4, <1>6 DEF Same, AtDone
<1> QED
    BY <1>6, <1>7, <1>8

\* What the request for a copy of the memory changes
LEMMA GrabMemoryDoes ==
    ASSUME NEW s, IsRec(s), s.mirrorDue \in BOOLEAN
    PROVE  LET n == GrabMemory(s)
           IN  /\ IsRec(n) /\ Same(s, n, {"outActive", "pageInDue", "busrq", "mirrorDue"})
               /\ n.mirrorDue = FALSE
               /\ \/ n = s
                  \/ n.outActive = FALSE /\ n.pageInDue = TRUE /\ n.busrq = s.busrq \cup {"MIRROR"}
<1>1. CASE ~s.mirrorDue
  <2>1. GrabMemory(s) = s
      BY <1>1 DEF GrabMemory
  <2> QED
      BY <1>1, <2>1 DEF Same
<1>2. CASE s.mirrorDue
  <2> DEFINE b == PageBackIn(s)
  <2>1. IsRec(b) /\ Same(s, b, {"outActive", "pageInDue"}) /\ b.outActive = FALSE /\ b.pageInDue = TRUE
      BY PageBackInDoes
  <2>2. b.busrq = s.busrq
      BY <2>1 DEF Same, Fields
  <2>3. GrabMemory(s) = [b EXCEPT !.busrq = @ \cup {"MIRROR"}, !.mirrorDue = FALSE]
      BY <1>2 DEF GrabMemory
  <2> HIDE DEF b
  <2>4. IsRec(GrabMemory(s)) /\ Same(b, GrabMemory(s), {"busrq", "mirrorDue"})
      BY <2>1, <2>3 DEF IsRec, Same
  <2>5. /\ GrabMemory(s).outActive = FALSE /\ GrabMemory(s).pageInDue = TRUE
        /\ GrabMemory(s).busrq = s.busrq \cup {"MIRROR"} /\ GrabMemory(s).mirrorDue = FALSE
      BY <2>1, <2>2, <2>3 DEF IsRec, Fields
  <2>6. Same(s, GrabMemory(s), {"outActive", "pageInDue", "busrq", "mirrorDue"})
      BY <2>1, <2>4 DEF Same
  <2> QED
      BY <2>4, <2>5, <2>6
<1> QED
    BY <1>1, <1>2

-----------------------------------------------------------------------------
(* What the answer to a cycle makes of it                                  *)

\* What a byte of the snippet that sets registers changes
LEMMA SetAnswers ==
    ASSUME NEW s, IsRec(s), s.pos \in 0..(SetLen - 1)
    PROVE  LET n == HandleRegisterSet(s)
           IN  /\ IsRec(n) /\ n.code = "SET" /\ n.pos0 = s.pos
               /\ IF s.pos < SetLen - 1 THEN Same(s, n, {"code", "pos0", "pos"}) /\ n.pos = s.pos + 1
                  ELSE Same(s, n, {"code", "pos0"} \cup AtDone) /\ IsDone(s, n)
<1> DEFINE e == [s EXCEPT !.code = "SET", !.pos0 = s.pos, !.pos = @ + 1]
<1>1. IsRec(e) /\ Same(s, e, {"code", "pos0", "pos"})
    BY DEF IsRec, Same
<1>2. e.code = "SET" /\ e.pos0 = s.pos /\ e.pos = s.pos + 1 /\ e.mode = s.mode
    BY DEF IsRec, Fields
<1>3. HandleRegisterSet(s) = IF e.pos >= SetLen THEN Done(e) ELSE e
    BY DEF HandleRegisterSet
<1> HIDE DEF e
<1>4. e.pos >= SetLen <=> ~(s.pos < SetLen - 1)
    BY <1>2 DEF SetLen
<1>5. CASE s.pos < SetLen - 1
    BY <1>1, <1>2, <1>3, <1>4, <1>5
<1>6. CASE ~(s.pos < SetLen - 1)
  <2>1. HandleRegisterSet(s) = Done(e)
      BY <1>3, <1>4, <1>6
  <2>2. IsRec(Done(e)) /\ Same(e, Done(e), AtDone) /\ IsDone(e, Done(e))
      BY <1>1, DoneDoes
  <2>3. Done(e).code = "SET" /\ Done(e).pos0 = s.pos
      BY <1>2, <2>2 DEF Same, Fields, AtDone
  <2>4. Same(s, Done(e), {"code", "pos0"} \cup AtDone)
      BY <1>1, <2>2 DEF Same, AtDone
  <2>5. IsDone(s, Done(e))
      BY <1>2, <2>2 DEF IsDone
  <2> QED
      BY <1>6, <2>1, <2>2, <2>3, <2>4, <2>5
<1> QED
    BY <1>5, <1>6

\* What a write cycle of the snippet that shows them changes
LEMMA GetShows ==
    ASSUME NEW s, IsRec(s), NEW a, s.known \in SUBSET Registers, s.second \in BOOLEAN
    PROVE  LET n == HandleRegisterGet(s, "WR", a)
           IN  /\ IsRec(n) /\ Same(s, n, {"code", "pos0", "known", "second"})
               /\ n.code = "GET" /\ n.pos0 = -1 /\ n.second = (s.second \/ s.pos \in Pushes)
               /\ n.known = s.known \cup Captured(s.pos, s.second)
<1> DEFINE e == [s EXCEPT !.code = "GET", !.pos0 = -1,
                          !.known = @ \cup Captured(s.pos, s.second), !.second = @ \/ s.pos \in Pushes]
<1>1. HandleRegisterGet(s, "WR", a) = e
    BY DEF HandleRegisterGet
<1>2. IsRec(e) /\ Same(s, e, {"code", "pos0", "known", "second"})
    BY DEF IsRec, Same
<1>3. /\ e.code = "GET" /\ e.pos0 = -1 /\ e.second = (s.second \/ s.pos \in Pushes)
      /\ e.known = s.known \cup Captured(s.pos, s.second)
    BY DEF IsRec, Fields
<1> QED
    BY <1>1, <1>2, <1>3

AtGet  == {"code", "pos0", "pos", "second", "copyPC"}
AtGrab == {"outActive", "pageInDue", "busrq", "mirrorDue"}
Given(s, n, a) ==
    /\ IsRec(n) /\ n.code = "GET" /\ n.pos0 = s.pos /\ n.second = FALSE
    /\ n.copyPC = (IF s.pos = 0 THEN a ELSE s.copyPC)
    /\ s.pos = GetLen - 1 => Same(s, n, AtGet \cup AtDone) /\ IsDone(s, n)
    /\ s.pos < GetLen - 1 => n.pos = s.pos + 1 /\ Same(s, n, AtGet \cup AtGrab)
    /\ s.pos < GetLen - 1 =>
          \/ Same(s, n, AtGet \cup {"mirrorDue"}) /\ n.mirrorDue \in BOOLEAN
          \/ /\ s.pos + 1 = GrabPos /\ n.outActive = FALSE /\ n.pageInDue = TRUE
             /\ n.busrq = s.busrq \cup {"MIRROR"} /\ n.mirrorDue = FALSE
\* What a byte of that snippet changes
LEMMA GetGives ==
    ASSUME NEW s, IsRec(s), NEW k, k # "WR", NEW a, s.pos \in 0..(GetLen - 1), s.mirrorDue \in BOOLEAN
    PROVE  Given(s, HandleRegisterGet(s, k, a), a)
<1> DEFINE e == [s EXCEPT !.code = "GET", !.pos0 = s.pos, !.pos = @ + 1, !.second = FALSE,
                          !.copyPC = IF s.pos = 0 THEN a ELSE @]
           n == HandleRegisterGet(s, k, a)
<1>1. IsRec(e) /\ Same(s, e, AtGet)
    BY DEF IsRec, Same, AtGet
<1>2. /\ e.code = "GET" /\ e.pos0 = s.pos /\ e.pos = s.pos + 1 /\ e.mode = s.mode /\ e.second = FALSE
      /\ e.copyPC = (IF s.pos = 0 THEN a ELSE s.copyPC) /\ e.busrq = s.busrq /\ e.mirrorDue = s.mirrorDue
    BY DEF IsRec, Fields
<1>3. n = IF e.pos >= GetLen THEN Done(e) ELSE IF e.pos = GrabPos THEN GrabMemory(e) ELSE e
    BY DEF HandleRegisterGet
<1> HIDE DEF e, n
<1>4. e.pos >= GetLen <=> s.pos = GetLen - 1
    BY <1>2 DEF GetLen
<1>5. CASE s.pos = GetLen - 1
  <2>1. n = Done(e)
      BY <1>3, <1>4, <1>5
  <2>2. IsRec(n) /\ Same(e, n, AtDone) /\ IsDone(e, n)
      BY <1>1, <2>1, DoneDoes
  <2>3. n.code = "GET" /\ n.pos0 = s.pos /\ n.second = FALSE /\ n.copyPC = IF s.pos = 0 THEN a ELSE s.copyPC
      BY <1>2, <2>2 DEF Same, Fields, AtDone
  <2>4. Same(s, n, AtGet \cup AtDone)
      BY <1>1, <2>2 DEF Same
  <2>5. IsDone(s, n)
      BY <1>2, <2>2 DEF IsDone
  <2>6. ~(s.pos < GetLen - 1)
      BY <1>5 DEF GetLen
  <2> QED
      BY <2>2, <2>3, <2>4, <2>5, <2>6 DEF n, Given
<1>6. CASE s.pos # GetLen - 1 /\ e.pos = GrabPos
  <2>1. n = GrabMemory(e)
      BY <1>3, <1>4, <1>6
  <2>2. /\ IsRec(n) /\ Same(e, n, AtGrab) /\ n.mirrorDue = FALSE
        /\ n = e \/ (n.outActive = FALSE /\ n.pageInDue = TRUE /\ n.busrq = e.busrq \cup {"MIRROR"})
      BY <1>1, <1>2, <2>1, GrabMemoryDoes DEF AtGrab
  <2>3. /\ n.code = "GET" /\ n.pos0 = s.pos /\ n.second = FALSE /\ n.copyPC = (IF s.pos = 0 THEN a ELSE s.copyPC)
        /\ n.pos = s.pos + 1
      BY <1>2, <2>2 DEF Same, Fields, AtGrab
  <2>4. Same(s, n, AtGet \cup AtGrab)
      BY <1>1, <2>2 DEF Same
  <2>5. n = e => Same(s, n, AtGet \cup {"mirrorDue"})
      BY <1>1 DEF Same
  <2>6. s.pos + 1 = GrabPos
      BY <1>2, <1>6
  <2> QED
      BY <1>2, <1>6, <2>2, <2>3, <2>4, <2>5, <2>6 DEF n, Given
<1>7. CASE s.pos # GetLen - 1 /\ e.pos # GrabPos
  <2>1. n = e
      BY <1>3, <1>4, <1>7
  <2>2. Same(s, n, AtGet \cup AtGrab) /\ Same(s, n, AtGet \cup {"mirrorDue"})
      BY <1>1, <2>1 DEF Same
  <2> QED
      BY <1>1, <1>2, <1>7, <2>1, <2>2 DEF n, Given
<1> QED
    BY <1>5, <1>6, <1>7

-----------------------------------------------------------------------------
(* The cycles of the snippets                                              *)

\* The short sequences that instructions are
LEMMA Tails ==
    /\ \A a : Tail(<<a>>) = <<>> /\ Head(<<a>>) = a /\ <<a>> # <<>>
    /\ \A a, b : Tail(<<a, b>>) = <<b>> /\ Head(<<a, b>>) = a /\ <<a, b>> # <<>>
    /\ \A a, b, c : Tail(<<a, b, c>>) = <<b, c>> /\ Head(<<a, b, c>>) = a /\ <<a, b, c>> # <<>>
    /\ \A a, b, c, d : Tail(<<a, b, c, d>>) = <<b, c, d>> /\ Head(<<a, b, c, d>>) = a /\ <<a, b, c, d>> # <<>>
OBVIOUS

\* The cycles that an instruction of Get may have left when the tracker is at position p
GetLeaves(p, q) ==
    \/ p \in {1, 18, 23, 27} /\ q \in {<<"WR", "WR">>, <<"WR">>, <<>>}
    \/ p \in {4, 7, 10, 11, 13, 14, 15} /\ q \in {<<"WR">>, <<>>}
    \/ p \in {3, 6, 8, 9, 12, 16, 17, 19, 20, 21, 24, 25, 29, 31, 34} /\ q = <<>>
    \/ p \in {2, 5, 30} /\ q = <<"M1">>
    \/ p \in {22, 26} /\ q = <<"M1", "WR", "WR">>
    \/ p \in {28, 33, 35} /\ q = <<"RD">>
    \/ p = 32 /\ q = <<"RD", "RD">>

\* Positions at which nothing is shown, and what the tracker finds at the next one
Quiet == {2, 3, 5, 6, 8, 9, 12, 16, 17, 19, 20, 21, 22, 24, 25, 26, 28, 29, 30, 31, 32, 33, 34, 35}
Enters(p, q) == q = <<"WR", "WR">> \/ (q = <<"WR">> /\ p \notin Pushes) \/ p \in Quiet

\* Cycles left in Get are opcode bytes first and writes last.
LEMMA GetCycles ==
    ASSUME NEW p \in DOMAIN Get
    PROVE  \/ p \in {0, 17} /\ Get[p] = <<"M1", "WR", "WR">>
           \/ p \in {3, 6, 9, 10, 12, 13, 14} /\ Get[p] = <<"M1", "WR">>
           \/ p \in {7, 8, 11, 15, 16, 18, 19, 20, 23, 24} /\ Get[p] = <<"M1">>
           \/ p \in {1, 4, 29} /\ Get[p] = <<"PFX", "M1">>
           \/ p \in {21, 25} /\ Get[p] = <<"PFX", "M1", "WR", "WR">>
           \/ p \in {27, 34} /\ Get[p] = <<"M1", "RD">>
           \/ p = 31 /\ Get[p] = <<"M1", "RD", "RD">>
<1>1. p \in {0, 1, 3, 4, 6, 7, 8, 9, 10, 11, 12, 13, 14, 15, 16, 17, 18, 19, 20, 21, 23, 24, 25, 27, 29, 31, 34}
    BY DEF Get
<1>2. ASSUME p \in {0, 17} PROVE Get[p] = <<"M1", "WR", "WR">>
    BY <1>1, <1>2 DEF Get
<1>3. ASSUME p \in {3, 6, 9, 10, 12, 13, 14} PROVE Get[p] = <<"M1", "WR">>
    BY <1>1, <1>3 DEF Get
<1>4. ASSUME p \in {7, 8, 11, 15, 16, 18, 19, 20, 23, 24} PROVE Get[p] = <<"M1">>
    BY <1>1, <1>4 DEF Get
<1>5. ASSUME p \in {1, 4, 29} PROVE Get[p] = <<"PFX", "M1">>
    BY <1>1, <1>5 DEF Get
<1>6. ASSUME p \in {21, 25} PROVE Get[p] = <<"PFX", "M1", "WR", "WR">>
    BY <1>1, <1>6 DEF Get
<1>7. ASSUME p \in {27, 34} PROVE Get[p] = <<"M1", "RD">>
    BY <1>1, <1>7 DEF Get
<1>8. ASSUME p \in {31} PROVE Get[p] = <<"M1", "RD", "RD">>
    BY <1>1, <1>8 DEF Get
<1> QED
    BY <1>1, <1>2, <1>3, <1>4, <1>5, <1>6, <1>7, <1>8

\* An instruction of the snippet begins where the one before it has ended.
LEMMA GetBegins ==
    ASSUME NEW p \in 0..35, p = 0 \/ GetLeaves(p, <<>>)
    PROVE  /\ p \in DOMAIN Get /\ Get[p] \in Seq(Kind) \ {<<>>}
           /\ p + 1 \in 1..35 /\ GetLeaves(p + 1, Tail(Get[p])) /\ Enters(p + 1, Tail(Get[p]))
<1>1. p \in DOMAIN Get
    BY Tails DEF Get, GetLeaves
<1>2. CASE p \in {0, 17} /\ Get[p] = <<"M1", "WR", "WR">>
    BY <1>1, <1>2, Tails DEF Kind, GetLeaves, Enters, Quiet, Pushes
<1>3. CASE p \in {3, 6, 9, 10, 12, 13, 14} /\ Get[p] = <<"M1", "WR">>
    BY <1>1, <1>3, Tails DEF Kind, GetLeaves, Enters, Quiet, Pushes
<1>4. CASE p \in {7, 8, 11, 15, 16, 18, 19, 20, 23, 24} /\ Get[p] = <<"M1">>
    BY <1>1, <1>4, Tails DEF Kind, GetLeaves, Enters, Quiet, Pushes
<1>5. CASE p \in {1, 4, 29} /\ Get[p] = <<"PFX", "M1">>
    BY <1>1, <1>5, Tails DEF Kind, GetLeaves, Enters, Quiet, Pushes
<1>6. CASE p \in {21, 25} /\ Get[p] = <<"PFX", "M1", "WR", "WR">>
    BY <1>1, <1>6, Tails DEF Kind, GetLeaves, Enters, Quiet, Pushes
<1>7. CASE p \in {27, 34} /\ Get[p] = <<"M1", "RD">>
    BY <1>1, <1>7, Tails DEF Kind, GetLeaves, Enters, Quiet, Pushes
<1>8. CASE p = 31 /\ Get[p] = <<"M1", "RD", "RD">>
    BY <1>1, <1>8, Tails DEF Kind, GetLeaves, Enters, Quiet, Pushes
<1> QED
    BY <1>1, <1>2, <1>3, <1>4, <1>5, <1>6, <1>7, <1>8, GetCycles

\* A cycle of it that is no write takes the tracker one position further.
LEMMA GetGoesOn ==
    ASSUME NEW p \in 1..35, NEW q, GetLeaves(p, q), q # <<>>
    PROVE  /\ Head(q) = "WR" => GetLeaves(p, Tail(q))
           /\ Head(q) # "WR" => IF p = 35 THEN Tail(q) = <<>> ELSE GetLeaves(p + 1, Tail(q))
           /\ p = 33 => Tail(q) = <<>>
           /\ p = 35 => Head(q) # "WR"
           /\ Head(q) \in Kind
           /\ Head(q) = "WR" => q = <<"WR">> \/ (q = <<"WR", "WR">> /\ p \in Pushes)
           /\ Head(q) # "WR" /\ p # 35 => Enters(p + 1, Tail(q))
<1>0. \A i : GetLeaves(i, <<"WR">>) => GetLeaves(i, <<>>)
    BY Tails DEF GetLeaves
<1>1. CASE p \in {1, 18, 23, 27} /\ q = <<"WR", "WR">>
  <2>1. GetLeaves(p, <<"WR">>)
      BY <1>1 DEF GetLeaves
  <2>2. p \in Pushes
      BY <1>1 DEF Pushes
  <2> QED
      BY <1>1, <2>1, <2>2, Tails DEF Kind
<1>2. CASE p \in {1, 18, 23, 27} \cup {4, 7, 10, 11, 13, 14, 15} /\ q = <<"WR">>
  <2>1. p # 33 /\ p # 35
      BY <1>2
  <2> QED
      BY <1>0, <1>2, <2>1, Tails DEF Kind
<1>3. CASE p \in {2, 5, 30} /\ q = <<"M1">>
    BY <1>3, Tails DEF GetLeaves, Kind, Enters, Quiet, Pushes
<1>4. CASE p \in {22, 26} /\ q = <<"M1", "WR", "WR">>
    BY <1>4, Tails DEF GetLeaves, Kind, Enters, Quiet, Pushes
<1>5. CASE p \in {28, 33, 35} /\ q = <<"RD">>
    BY <1>5, Tails DEF GetLeaves, Kind, Enters, Quiet, Pushes
<1>6. CASE p = 32 /\ q = <<"RD", "RD">>
    BY <1>6, Tails DEF GetLeaves, Kind, Enters, Quiet, Pushes
<1> QED
    BY <1>1, <1>2, <1>3, <1>4, <1>5, <1>6 DEF GetLeaves

\* The same for the snippet that sets registers
SetLeaves(p, q) ==
    \/ p \in {1, 5, 9, 12, 15, 18, 19, 22, 25, 28, 31, 32, 35, 38, 40, 42, 44, 46, 48, 50, 51} /\ q = <<>>
    \/ p \in {2, 6} /\ q = <<"M1", "RD", "RD">>
    \/ p \in {3, 7, 10, 13, 16, 20, 23, 26, 29, 33, 36, 52} /\ q = <<"RD", "RD">>
    \/ p \in {4, 8, 11, 14, 17, 21, 24, 27, 30, 34, 37, 39, 43, 47, 53} /\ q = <<"RD">>
    \/ p \in {41, 45, 49} /\ q = <<"M1">>

\* No cycle of Set is a write.
LEMMA SetCycles ==
    ASSUME NEW p \in DOMAIN Set
    PROVE  \/ p \in {0, 18, 31, 50} /\ Set[p] = <<"M1">>
           \/ p \in {1, 5} /\ Set[p] = <<"PFX", "M1", "RD", "RD">>
           \/ p \in {9, 12, 15, 19, 22, 25, 28, 32, 35, 51} /\ Set[p] = <<"M1", "RD", "RD">>
           \/ p \in {38, 42, 46} /\ Set[p] = <<"M1", "RD">>
           \/ p \in {40, 44, 48} /\ Set[p] = <<"PFX", "M1">>
<1>1. p \in {0, 1, 5, 9, 12, 15, 18, 19, 22, 25, 28, 31, 32, 35, 38, 40, 42, 44, 46, 48, 50, 51}
    BY DEF Set
<1>2. ASSUME p \in {0, 18, 31, 50} PROVE Set[p] = <<"M1">>
    BY <1>1, <1>2 DEF Set
<1>3. ASSUME p \in {1, 5} PROVE Set[p] = <<"PFX", "M1", "RD", "RD">>
    BY <1>1, <1>3 DEF Set
<1>4. ASSUME p \in {9, 12, 15, 19, 22, 25, 28, 32, 35, 51} PROVE Set[p] = <<"M1", "RD", "RD">>
    BY <1>1, <1>4 DEF Set
<1>5. ASSUME p \in {38, 42, 46} PROVE Set[p] = <<"M1", "RD">>
    BY <1>1, <1>5 DEF Set
<1>6. ASSUME p \in {40, 44, 48} PROVE Set[p] = <<"PFX", "M1">>
    BY <1>1, <1>6 DEF Set
<1> QED
    BY <1>1, <1>2, <1>3, <1>4, <1>5, <1>6

\* An instruction of Set begins where the one before it has ended.
LEMMA SetBegins ==
    ASSUME NEW p \in 0..53, p = 0 \/ SetLeaves(p, <<>>)
    PROVE  /\ p \in DOMAIN Set /\ Set[p] \in Seq(Kind) \ {<<>>}
           /\ p + 1 \in 1..53 /\ SetLeaves(p + 1, Tail(Set[p]))
<1>1. p \in DOMAIN Set
  <2>1. <<>> # <<"M1", "RD", "RD">> /\ <<>> # <<"RD", "RD">> /\ <<>> # <<"RD">> /\ <<>> # <<"M1">>
      BY Tails
  <2>2. p \in {0, 1, 5, 9, 12, 15, 18, 19, 22, 25, 28, 31, 32,
              35, 38, 40, 42, 44, 46, 48, 50, 51}
      BY <2>1 DEF SetLeaves
  <2>3. DOMAIN Set = {0, 1, 5, 9, 12, 15, 18, 19, 22, 25, 28, 31, 32,
                      35, 38, 40, 42, 44, 46, 48, 50, 51}
      BY DEF Set
  <2> QED
      BY <2>2, <2>3
<1>2. CASE p \in {0, 18, 31, 50} /\ Set[p] = <<"M1">>
  <2>1. p + 1 \in {1, 19, 32, 51}
      BY <1>2
  <2>2. SetLeaves(p + 1, <<>>) /\ p + 1 \in 1..53
      BY <2>1 DEF SetLeaves
  <2> QED
      BY <1>1, <1>2, <2>2, Tails DEF Kind
<1>3. CASE p \in {1, 5} /\ Set[p] = <<"PFX", "M1", "RD", "RD">>
    BY <1>1, <1>3, Tails DEF Kind, SetLeaves
<1>4. CASE p \in {9, 12, 15, 19, 22, 25, 28, 32, 35, 51} /\ Set[p] = <<"M1", "RD", "RD">>
    BY <1>1, <1>4, Tails DEF Kind, SetLeaves
<1>5. CASE p \in {38, 42, 46} /\ Set[p] = <<"M1", "RD">>
    BY <1>1, <1>5, Tails DEF Kind, SetLeaves
<1>6. CASE p \in {40, 44, 48} /\ Set[p] = <<"PFX", "M1">>
    BY <1>1, <1>6, Tails DEF Kind, SetLeaves
<1>7. \/ p \in {0, 18, 31, 50} /\ Set[p] = <<"M1">>
      \/ p \in {1, 5} /\ Set[p] = <<"PFX", "M1", "RD", "RD">>
      \/ p \in {9, 12, 15, 19, 22, 25, 28, 32, 35, 51} /\ Set[p] = <<"M1", "RD", "RD">>
      \/ p \in {38, 42, 46} /\ Set[p] = <<"M1", "RD">>
      \/ p \in {40, 44, 48} /\ Set[p] = <<"PFX", "M1">>
    BY <1>1, SetCycles
<1> QED
    BY <1>2, <1>3, <1>4, <1>5, <1>6, <1>7, Zenon

\* A cycle of it takes the tracker one position further.
LEMMA SetGoesOn ==
    ASSUME NEW p \in 1..53, NEW q, SetLeaves(p, q), q # <<>>
    PROVE  /\ IF p = 53 THEN Tail(q) = <<>> ELSE SetLeaves(p + 1, Tail(q))
           /\ Head(q) \in Kind \ {"WR"}
<1>1. CASE p \in {2, 6} /\ q = <<"M1", "RD", "RD">>
    BY <1>1, Tails DEF SetLeaves, Kind
<1>2. CASE p \in {3, 7, 10, 13, 16, 20, 23, 26, 29, 33, 36, 52} /\ q = <<"RD", "RD">>
    BY <1>2, Tails DEF SetLeaves, Kind
<1>3. CASE p \in {4, 8, 11, 14, 17, 21, 24, 27, 30, 34, 37, 39, 43, 47, 53} /\ q = <<"RD">>
    BY <1>3, Tails DEF SetLeaves, Kind
<1>4. CASE p \in {41, 45, 49} /\ q = <<"M1">>
    BY <1>4, Tails DEF SetLeaves, Kind
<1> QED
    BY <1>1, <1>2, <1>3, <1>4 DEF SetLeaves

-----------------------------------------------------------------------------
(* What Get has shown                                                      *)

\* The registers shown up to position p
Shown(p) == UNION {Captured(i, FALSE) \cup Captured(i, TRUE) : i \in 1..p}

\* The next position adds what its write cycles show.
LEMMA ShownNext ==
    ASSUME NEW p \in Nat
    PROVE  /\ Shown(p + 1) = Shown(p) \cup Captured(p + 1, FALSE) \cup Captured(p + 1, TRUE)
           /\ Shown(0) = {}
<1> DEFINE C(i) == Captured(i, FALSE) \cup Captured(i, TRUE)
<1>1. 1..(p + 1) = 1..p \cup {p + 1} /\ 1..0 = {}
    OBVIOUS
<1>2. \A n : Shown(n) = UNION {C(i) : i \in 1..n}
    BY DEF Shown
<1> HIDE DEF C
<1>3. Shown(p + 1) = Shown(p) \cup C(p + 1) /\ Shown(0) = {}
    BY <1>1, <1>2
<1> QED
    BY <1>3 DEF C

\* What is shown are registers.
LEMMA CapturedAre ==
    ASSUME NEW p \in 0..35
    PROVE  /\ p \notin Pushes => Captured(p, TRUE) = Captured(p, FALSE)
           /\ Captured(p, TRUE) \cup Captured(p, FALSE) \subseteq Registers
<1>1. p \notin Pushes => Captured(p, TRUE) = Captured(p, FALSE)
    BY DEF Captured, Captured_NoIY, Pushes
<1>2. \A s \in BOOLEAN : Captured(p, s) \subseteq Registers
    BY DEF Captured, Captured_NoIY, Registers
<1> QED
    BY <1>1, <1>2

\* Nothing is shown at a quiet position.
LEMMA NoneCaptured ==
    ASSUME NEW p \in Quiet, NEW s \in BOOLEAN
    PROVE  Captured(p, s) = {}
BY DEF Quiet, Captured, Captured_NoIY

\* All registers are shown in the end.
LEMMA AllShown == Shown(35) = Registers
<1>1. ASSUME NEW p \in 1..35, NEW s \in BOOLEAN, NEW r \in Captured(p, s) PROVE r \in Shown(35)
  <2> DEFINE C(i) == Captured(i, FALSE) \cup Captured(i, TRUE)
  <2>1. r \in C(p)
      BY <1>1
  <2>2. Shown(35) = UNION {C(i) : i \in 1..35}
      BY DEF Shown
  <2> HIDE DEF C
  <2> QED
      BY <2>1, <2>2
<1>2. Shown(35) \subseteq Registers
  <2> DEFINE C(i) == Captured(i, FALSE) \cup Captured(i, TRUE)
  <2>1. \A i \in 1..35 : C(i) \subseteq Registers
    <3>1. SUFFICES ASSUME NEW i \in 1..35 PROVE C(i) \subseteq Registers
        OBVIOUS
    <3>2. i \in 0..35
        OBVIOUS
    <3>3. Captured(i, TRUE) \cup Captured(i, FALSE) \subseteq Registers
        BY <3>2, CapturedAre
    <3> QED
        BY <3>3
  <2>2. Shown(35) = UNION {C(i) : i \in 1..35}
      BY DEF Shown
  <2> HIDE DEF C
  <2> QED
      BY <2>1, <2>2
<1>3. /\ "SP" \in Captured(1, FALSE) /\ "AF" \in Captured(1, TRUE) /\ "HL" \in Captured(4, FALSE) /\ "R" \in Captured(4, FALSE)
      /\ "I" \in Captured(7, FALSE) /\ "DE" \in Captured(10, FALSE) /\ "BC" \in Captured(11, FALSE)
      /\ "HLDASH" \in Captured(13, FALSE) /\ "DEDASH" \in Captured(14, FALSE) /\ "BCDASH" \in Captured(15, FALSE)
      /\ "AFDASH" \in Captured(18, TRUE) /\ "IX" \in Captured(23, TRUE) /\ "IY" \in Captured(27, TRUE)
  <2>1. /\ "SP" \in Captured(1, FALSE) /\ "AF" \in Captured(1, TRUE)
        /\ "HL" \in Captured(4, FALSE) /\ "R" \in Captured(4, FALSE)
      BY DEF Captured, Captured_NoIY
  <2>2. "I" \in Captured(7, FALSE) /\ "DE" \in Captured(10, FALSE) /\ "BC" \in Captured(11, FALSE)
      BY DEF Captured, Captured_NoIY
  <2>3. "HLDASH" \in Captured(13, FALSE) /\ "DEDASH" \in Captured(14, FALSE) /\ "BCDASH" \in Captured(15, FALSE)
      BY DEF Captured, Captured_NoIY
  <2>4. "AFDASH" \in Captured(18, TRUE) /\ "IX" \in Captured(23, TRUE) /\ "IY" \in Captured(27, TRUE)
      BY DEF Captured, Captured_NoIY
  <2> QED
      BY <2>1, <2>2, <2>3, <2>4
<1>4. /\ 1 \in 1..35 /\ 4 \in 1..35 /\ 7 \in 1..35 /\ 10 \in 1..35 /\ 11 \in 1..35 /\ 13 \in 1..35
      /\ 14 \in 1..35 /\ 15 \in 1..35 /\ 18 \in 1..35 /\ 23 \in 1..35 /\ 27 \in 1..35
      /\ TRUE \in BOOLEAN /\ FALSE \in BOOLEAN
    OBVIOUS
<1>5. /\ "SP" \in Shown(35) /\ "AF" \in Shown(35) /\ "HL" \in Shown(35) /\ "R" \in Shown(35) /\ "I" \in Shown(35)
      /\ "DE" \in Shown(35) /\ "BC" \in Shown(35) /\ "HLDASH" \in Shown(35) /\ "DEDASH" \in Shown(35)
      /\ "BCDASH" \in Shown(35) /\ "AFDASH" \in Shown(35) /\ "IX" \in Shown(35) /\ "IY" \in Shown(35)
  <2>1. /\ "SP" \in Shown(35) /\ "AF" \in Shown(35) /\ "HL" \in Shown(35) /\ "R" \in Shown(35)
        /\ "I" \in Shown(35) /\ "DE" \in Shown(35) /\ "BC" \in Shown(35)
      BY <1>1, <1>3, <1>4, Zenon
  <2>2. /\ "HLDASH" \in Shown(35) /\ "DEDASH" \in Shown(35) /\ "BCDASH" \in Shown(35)
        /\ "AFDASH" \in Shown(35) /\ "IX" \in Shown(35) /\ "IY" \in Shown(35)
      BY <1>1, <1>3, <1>4, Zenon
  <2> QED
      BY <2>1, <2>2
<1> QED
    BY <1>2, <1>5 DEF Registers

-----------------------------------------------------------------------------
(* The instructions of the program                                         *)

\* What is left of a well-prefixed instruction after a byte is well-prefixed.
LEMMA RestOf ==
    ASSUME NEW q \in Seq(Kind), q # <<>>, WellPrefixed(q)
    PROVE  /\ Tail(q) \in Seq(Kind) /\ WellPrefixed(Tail(q)) /\ Head(q) \in Kind
           /\ Tail(q) # <<>> /\ IsM1(Head(Tail(q))) => Head(q) = "PFX"
           /\ Tail(q) = <<>> => Head(q) # "PFX"
<1>1. /\ Len(q) \in Nat \ {0} /\ Head(q) = q[1] /\ Head(q) \in Kind /\ Tail(q) \in Seq(Kind)
      /\ Len(Tail(q)) = Len(q) - 1 /\ \A i \in 1..(Len(q) - 1) : Tail(q)[i] = q[i + 1]
  <2>1. Len(q) \in Nat /\ Len(q) # 0
      BY EmptySeq
  <2>2. /\ Head(q) \in Kind /\ Tail(q) \in Seq(Kind) /\ Len(Tail(q)) = Len(q) - 1
        /\ \A i \in 1..(Len(q) - 1) : Tail(q)[i] = q[i + 1]
    <3>1. /\ Len(Tail(q)) = Len(q) - 1 /\ \A i \in 1..Len(Tail(q)) : Tail(q)[i] = q[i + 1]
          /\ Head(q) \in Kind /\ Tail(q) \in Seq(Kind)
        BY HeadTailProperties
    <3> QED
        BY <3>1
  <2>3. Head(q) = q[1]
      OBVIOUS
  <2> QED
      BY <2>1, <2>2, <2>3
<1>2. Tail(q) = <<>> <=> Len(q) = 1
  <2>1. Tail(q) = <<>> <=> Len(Tail(q)) = 0
      BY <1>1, EmptySeq
  <2> QED
      BY <1>1, <2>1
<1>3. ASSUME NEW i \in 1..Len(Tail(q)), i > 1, IsM1(Tail(q)[i]) PROVE Tail(q)[i - 1] = "PFX"
  <2>1. /\ i \in 1..(Len(q) - 1) /\ i - 1 \in 1..(Len(q) - 1) /\ i + 1 \in 1..Len(q) /\ i + 1 > 1
        /\ (i + 1) - 1 = i /\ (i - 1) + 1 = i
      BY <1>1, <1>3
  <2>2. Tail(q)[i] = q[i + 1] /\ Tail(q)[i - 1] = q[i]
      BY <1>1, <2>1
  <2> QED
      BY <1>3, <2>1, <2>2 DEF WellPrefixed
<1>4. ASSUME Tail(q) # <<>>
      PROVE  Tail(q)[Len(Tail(q))] # "PFX" /\ (IsM1(Head(Tail(q))) => Head(q) = "PFX")
  <2>1. Len(q) \in Nat /\ Len(q) > 1
      BY <1>1, <1>2, <1>4
  <2>2. Len(q) - 1 \in 1..(Len(q) - 1) /\ (Len(q) - 1) + 1 = Len(q) /\ 1 \in 1..(Len(q) - 1) /\ 2 \in 1..Len(q)
      BY <2>1
  <2>3. Tail(q)[Len(Tail(q))] = q[Len(q)] /\ Head(Tail(q)) = q[2]
    <3>1. Tail(q)[Len(q) - 1] = q[Len(q)] /\ Tail(q)[1] = q[2]
        BY <1>1, <2>2
    <3>2. Head(Tail(q)) = Tail(q)[1]
        BY <1>1, <1>4, HeadTailProperties
    <3> QED
        BY <1>1, <3>1, <3>2
  <2>4. q[Len(q)] # "PFX" /\ (IsM1(q[2]) => q[1] = "PFX")
      BY <2>2 DEF WellPrefixed
  <2> QED
      BY <1>1, <2>3, <2>4
<1>5. Tail(q) = <<>> => Head(q) # "PFX"
    BY <1>1, <1>2 DEF WellPrefixed
<1> QED
    BY <1>1, <1>3, <1>4, <1>5 DEF WellPrefixed

\* An instruction of the program begins with an opcode byte
LEMMA Instruction ==
    ASSUME NEW a \in Addr, PrefixesLead
    PROVE  /\ Program[a] \in Seq(Kind) \ {<<>>} /\ WellPrefixed(Program[a]) /\ IsM1(Head(Program[a]))
BY ProgramAssumption DEF PrefixesLead

\* What may be left of it when only writes follow
LEMMA WritesOnly ==
    /\ <<"WR", "WR">> \in Seq(Kind) /\ WellPrefixed(<<"WR", "WR">>) /\ Head(<<"WR", "WR">>) = "WR"
    /\ <<>> \in Seq(Kind) /\ WellPrefixed(<<>>)
<1>1. <<"WR", "WR">> \in Seq(Kind) /\ <<>> \in Seq(Kind)
    BY DEF Kind
<1>2. WellPrefixed(<<"WR", "WR">>) /\ WellPrefixed(<<>>)
    BY DEF WellPrefixed, IsM1
<1> QED
    BY <1>1, <1>2, Tails

-----------------------------------------------------------------------------
(* The inductive invariant. The Z80 takes a cycle in when it ends, the      *)
(* tracker has gone on when it begins: what they must agree on is what is   *)
(* left once the cycle in progress is over.                                 *)

\* The cycles left then, and of whose code
Eaten  == IF z.todo # <<>> THEN z.todo ELSE IF cyc.code = "PROG" THEN Program[z.pc] ELSE Snippet[cyc.code][cyc.pos]
Left   == IF cyc.busy THEN Tail(Eaten) ELSE z.todo
Eating == IF ~cyc.busy THEN z.code
          ELSE IF z.todo = <<>> THEN cyc.code
          ELSE IF z.code # "PROG" /\ LastByte THEN "PROG" ELSE z.code

\* Types
Typed(s) ==
    /\ s.on \in BOOLEAN /\ s.hold \in BOOLEAN /\ s.acq \in Acq /\ s.mode \in Mode /\ s.setRegs \in BOOLEAN
    /\ s.pos \in 0..(SetLen - 1) /\ (~s.setRegs => s.pos < GetLen) /\ s.second \in BOOLEAN /\ s.pfx \in BOOLEAN
    /\ s.disablePending \in BOOLEAN /\ s.resetPending \in BOOLEAN /\ s.outActive \in BOOLEAN
    /\ s.mirrorDue \in BOOLEAN /\ s.overPC \in Addr /\ s.copyPC \in Addr /\ s.known \in SUBSET Registers
    /\ s.pagedOut \in BOOLEAN /\ s.pageInDue \in BOOLEAN /\ s.reading \in BOOLEAN
    /\ s.busrq \in SUBSET {"MIRROR", "PROGRAM"} /\ s.code \in Code /\ s.pos0 \in -1..(SetLen - 1)
Z80Types == /\ z \in [pc : Addr, todo : Seq(Kind), code : Code]
            /\ cyc \in [busy : BOOLEAN, kind : Kind, code : Code, pos : -1..SetLen - 1]
            /\ z.code = "PROG" => WellPrefixed(z.todo)
Types == IsRec(t) /\ Typed(t) /\ Z80Types

\* The answer to a cycle fits what the Z80 makes of it, but for the first byte of the code
\* that sets registers, which the program's instruction may take for its last.
Absorbs == cyc.code = "SET" /\ cyc.pos = 0 /\ z.code = "PROG" /\ z.todo \in {<<"M1">>, <<"RD">>}
Fits == cyc.busy =>
    /\ cyc.kind = NextKind
    /\ \/ cyc.code = "PROG" /\ z.code = "PROG"
       \/ cyc.code # "PROG" /\ z.todo = <<>> /\ MayFetch
       \/ cyc.code # "PROG" /\ z.todo # <<>> /\ z.code = cyc.code
       \/ Absorbs

\* Where the tracker is in its snippet, and the Z80 with it
Off == Eating = "PROG" /\ ~t.setRegs /\ ~t.outActive /\ t.pos = 0
GetFrom0 == ~t.setRegs /\ t.pos = 0 /\ ~cyc.busy /\ Left = <<>> /\ Eating = "PROG" /\ ~t.outActive
GetOn    == ~t.setRegs /\ t.pos \in 1..35 /\ Eating = "GET" /\ GetLeaves(t.pos, Left) /\ t.copyPC = z.pc
SetFrom0 == /\ t.setRegs /\ t.pos = 0 /\ ~cyc.busy /\ Eating = "PROG" /\ ~t.outActive
            /\ Left \in {<<>>, <<"M1">>, <<"RD">>}
SetFrom1 == t.setRegs /\ t.pos = 1 /\ Eating = "PROG" /\ Left = <<>>
SetOn    == t.setRegs /\ t.pos \in 1..53 /\ Eating = "SET" /\ SetLeaves(t.pos, Left)
Place == IF t.acq = "INJECTING" THEN GetFrom0 \/ GetOn \/ SetFrom0 \/ SetFrom1 \/ SetOn ELSE Off

\* Behind a snippet, before the next cycle
Behind == t.acq = "POST_INJECT" /\ t.on =>
    /\ Left = <<>> /\ ~t.pfx
    /\ cyc.busy => cyc.code # "PROG" /\ LastByte
    /\ ShownIsTrue \/ (cyc.busy /\ cyc.code = "SET")

\* An injected cycle belongs to the snippet the tracker is in, or it is its last.
Answer == cyc.busy =>
    /\ cyc.code # "PROG" =>
          \/ t.acq = "INJECTING" /\ cyc.code = (IF t.setRegs THEN "SET" ELSE "GET") /\ ~LastByte
          \/ t.acq = "POST_INJECT" /\ LastByte /\ z.code = cyc.code /\ z.todo # <<>> /\ Left = <<>>
    /\ t.acq = "INJECTING" => cyc.code # "PROG"

\* What has been shown so far
Seen == t.acq = "INJECTING" /\ t.pos > 0 /\ ~t.setRegs =>
    /\ Shown(t.pos - 1) \subseteq t.known
    /\ Left \notin {<<"WR">>, <<"WR", "WR">>} => Shown(t.pos) \subseteq t.known
    /\ Left = <<"WR">> /\ t.pos \in Pushes => t.second /\ Captured(t.pos, FALSE) \subseteq t.known
    /\ Left = <<"WR", "WR">> => ~t.second

\* The prefix tracker
Prefix == /\ t.acq = "NONE" => ~t.pfx
          /\ t.on /\ t.acq \in {"NONE", "INJECT_IF_NEW_INSTR"} /\ Left # <<>> /\ IsM1(Head(Left)) => t.pfx

Switched == /\ ~t.on => t.acq # "INJECTING" /\ ~t.hold
            /\ t.disablePending => t.acq \in {"INJECTING", "POST_INJECT"}

AtStop == /\ cyc.busy /\ cyc.code = "PROG" /\ z.todo = <<>> /\ z.code = "PROG"
          /\ t.acq = "INJECT_IF_NEW_INSTR" /\ ShownIsTrue /\ (Left = <<>> => ~t.pfx)
Stopped == t.hold => AtStop

Paging ==
    /\ cyc.busy /\ cyc.code # "PROG" => t.pagedOut /\ (t.outActive \/ (t.pageInDue /\ cyc.kind # "WR"))
    /\ cyc.busy /\ cyc.code = "PROG" => ~t.pagedOut /\ ~t.outActive
    /\ ~cyc.busy => t.pagedOut = t.outActive
    /\ t.outActive => ~t.pageInDue

Requests ==
    /\ "MIRROR" \in t.busrq => t.acq = "INJECTING" /\ t.pos = GrabPos /\ ~t.setRegs /\ ~t.outActive
    /\ "PROGRAM" \in t.busrq => t.acq # "INJECTING" \/ (~t.setRegs /\ t.pos = 0)

\* A step: its instruction begins; goes on; and the registers are taken.
Stepping == stepping =>
    /\ t.on /\ ~t.disablePending
    /\ \/ t.hold /\ ran = 1
       \/ /\ ~t.hold /\ t.acq = "INJECT_IF_NEW_INSTR" /\ t.mode = "INTO" /\ (Left = <<>> => ~t.pfx)
          /\ ran = IF cyc.busy /\ z.todo = <<>> THEN 0 ELSE 1
       \/ ~t.hold /\ t.acq = "INJECTING" /\ t.mode \in {"INTO", "PAUSED"} /\ ran = 1
       \/ ~t.hold /\ t.acq = "POST_INJECT" /\ t.mode = "PAUSED" /\ ran = 1

TrackerInv == /\ Types /\ Fits /\ Place /\ Behind /\ Answer /\ Seen /\ Prefix /\ Switched /\ Stopped
              /\ Paging /\ Requests /\ Stepping

-----------------------------------------------------------------------------
(* One cycle of an injection                                               *)

\* Once the memory that was due is paged in again
Ready(s) == IsRec(s) /\ Typed(s) /\ (s.outActive => s.pagedOut) /\ ~s.pageInDue

\* With the memory paged out
LEMMA PagesOut ==
    ASSUME NEW s, Ready(s)
    PROVE  LET p == PageOut(s)
           IN  /\ IsRec(p) /\ Same(s, p, {"outActive", "pagedOut"}) /\ p.outActive = TRUE /\ p.pagedOut = TRUE
               /\ p.pos = s.pos /\ p.setRegs = s.setRegs /\ p.known = s.known /\ p.second = s.second
               /\ p.mirrorDue = s.mirrorDue /\ p.busrq = s.busrq /\ p.copyPC = s.copyPC /\ p.mode = s.mode
<1> DEFINE p == PageOut(s)
<1>1. IsRec(p) /\ Same(s, p, {"outActive", "pagedOut"}) /\ p.outActive = TRUE /\ p.pagedOut = TRUE
    BY PageOutDoes DEF Ready, Typed
<1> HIDE DEF p
<1>2. /\ p.pos = s.pos /\ p.setRegs = s.setRegs /\ p.known = s.known /\ p.second = s.second
      /\ p.mirrorDue = s.mirrorDue /\ p.busrq = s.busrq /\ p.copyPC = s.copyPC /\ p.mode = s.mode
    BY <1>1 DEF Same, Fields
<1> QED
    BY <1>1, <1>2 DEF p

SetByte(s, n) == /\ Same(s, n, {"code", "pos0", "pos", "outActive", "pagedOut"})
                 /\ n.code = "SET" /\ n.pos0 = s.pos /\ n.pos = s.pos + 1
                 /\ n.outActive = TRUE /\ n.pagedOut = TRUE
SetLast(s, n) == /\ Same(s, n, {"code", "pos0", "pagedOut"} \cup AtDone)
                 /\ n.code = "SET" /\ n.pos0 = s.pos /\ n.pagedOut = TRUE /\ IsDone(s, n)
\* The answer to a cycle of Set
LEMMA InjectsSet ==
    ASSUME NEW s, Ready(s), s.setRegs, NEW k, NEW a
    PROVE  LET n == HandleInjection(s, k, a)
           IN  IsRec(n) /\ IF s.pos < SetLen - 1 THEN SetByte(s, n) ELSE SetLast(s, n)
<1> DEFINE p == PageOut(s)
           n == HandleInjection(s, k, a)
<1>1. /\ IsRec(p) /\ Same(s, p, {"outActive", "pagedOut"}) /\ p.outActive = TRUE /\ p.pagedOut = TRUE
      /\ p.pos = s.pos /\ p.mode = s.mode
    BY PagesOut
<1>2. n = HandleRegisterSet(p)
    BY DEF HandleInjection
<1> HIDE DEF p, n
<1>3. p.pos \in 0..(SetLen - 1)
    BY <1>1 DEF Ready, Typed
<1>4. /\ IsRec(n) /\ n.code = "SET" /\ n.pos0 = s.pos
      /\ IF s.pos < SetLen - 1 THEN Same(p, n, {"code", "pos0", "pos"}) /\ n.pos = s.pos + 1
         ELSE Same(p, n, {"code", "pos0"} \cup AtDone) /\ IsDone(p, n)
    BY <1>1, <1>2, <1>3, SetAnswers
<1>5. CASE s.pos < SetLen - 1
  <2>1. n.outActive = TRUE /\ n.pagedOut = TRUE
      BY <1>1, <1>4, <1>5 DEF Same, Fields
  <2>2. Same(s, n, {"code", "pos0", "pos", "outActive", "pagedOut"})
      BY <1>1, <1>4, <1>5 DEF Same
  <2> QED
      BY <1>4, <1>5, <2>1, <2>2 DEF SetByte, n
<1>6. CASE ~(s.pos < SetLen - 1)
  <2>1. n.pagedOut = TRUE
      BY <1>1, <1>4, <1>6 DEF Same, Fields, AtDone
  <2>2. Same(s, n, {"code", "pos0", "pagedOut"} \cup AtDone)
      BY <1>1, <1>4, <1>6 DEF Same, AtDone
  <2>3. IsDone(s, n)
      BY <1>1, <1>4, <1>6 DEF IsDone
  <2> QED
      BY <1>4, <1>6, <2>1, <2>2, <2>3 DEF SetLast, n
<1> QED
    BY <1>5, <1>6

GetShow(s, n) == /\ Same(s, n, {"code", "pos0", "known", "second", "outActive", "pagedOut"})
                 /\ n.code = "GET" /\ n.pos0 = -1 /\ n.outActive = TRUE /\ n.pagedOut = TRUE
                 /\ n.second = (s.second \/ s.pos \in Pushes)
                 /\ n.known = s.known \cup Captured(s.pos, s.second)
\* The answer to a write cycle of Get
LEMMA InjectsShow ==
    ASSUME NEW s, Ready(s), ~s.setRegs, NEW a
    PROVE  IsRec(HandleInjection(s, "WR", a)) /\ GetShow(s, HandleInjection(s, "WR", a))
<1> DEFINE p == PageOut(s)
           n == HandleInjection(s, "WR", a)
<1>1. /\ IsRec(p) /\ Same(s, p, {"outActive", "pagedOut"}) /\ p.outActive = TRUE /\ p.pagedOut = TRUE
      /\ p.pos = s.pos /\ p.known = s.known /\ p.second = s.second
    BY PagesOut
<1>2. n = HandleRegisterGet(p, "WR", a)
    BY DEF HandleInjection
<1> HIDE DEF p, n
<1>3. p.known \in SUBSET Registers /\ p.second \in BOOLEAN
    BY <1>1 DEF Ready, Typed
<1>4. /\ IsRec(n) /\ Same(p, n, {"code", "pos0", "known", "second"})
      /\ n.code = "GET" /\ n.pos0 = -1 /\ n.second = (s.second \/ s.pos \in Pushes)
      /\ n.known = s.known \cup Captured(s.pos, s.second)
    BY <1>1, <1>2, <1>3, GetShows
<1>5. n.outActive = TRUE /\ n.pagedOut = TRUE
    BY <1>1, <1>4 DEF Same, Fields
<1>6. Same(s, n, {"code", "pos0", "known", "second", "outActive", "pagedOut"})
    BY <1>1, <1>4 DEF Same
<1> QED
    BY <1>4, <1>5, <1>6 DEF GetShow, n

\* At GrabPos the memory may be asked for.
GetByte(s, n, a) == /\ Same(s, n, AtGet \cup AtGrab \cup {"pagedOut"})
                    /\ n.code = "GET" /\ n.pos0 = s.pos /\ n.pos = s.pos + 1 /\ n.second = FALSE
                    /\ n.copyPC = (IF s.pos = 0 THEN a ELSE s.copyPC)
                    /\ n.pagedOut = TRUE /\ n.mirrorDue \in BOOLEAN
                    /\ \/ n.outActive = TRUE /\ n.pageInDue = FALSE /\ n.busrq = s.busrq
                       \/ /\ n.pos = GrabPos /\ n.outActive = FALSE /\ n.pageInDue = TRUE
                          /\ n.busrq = s.busrq \cup {"MIRROR"}
GetLast(s, n) == /\ Same(s, n, AtGet \cup AtDone \cup {"pagedOut"})
                 /\ n.code = "GET" /\ n.pos0 = s.pos /\ n.second = FALSE /\ n.copyPC = s.copyPC
                 /\ n.pagedOut = TRUE /\ IsDone(s, n)
\* The answer to any other cycle of Get
LEMMA InjectsGet ==
    ASSUME NEW s, Ready(s), ~s.setRegs, NEW k, k # "WR", NEW a
    PROVE  LET n == HandleInjection(s, k, a)
           IN  IsRec(n) /\ IF s.pos < GetLen - 1 THEN GetByte(s, n, a) ELSE GetLast(s, n)
<1> DEFINE p == PageOut(s)
           n == HandleInjection(s, k, a)
<1>1. /\ IsRec(p) /\ Same(s, p, {"outActive", "pagedOut"}) /\ p.outActive = TRUE /\ p.pagedOut = TRUE
      /\ p.pos = s.pos /\ p.mirrorDue = s.mirrorDue /\ p.busrq = s.busrq /\ p.copyPC = s.copyPC /\ p.mode = s.mode
    BY PagesOut
<1>2. n = HandleRegisterGet(p, k, a)
    BY DEF HandleInjection
<1>3. p.pageInDue = FALSE
  <2> HIDE DEF p
  <2> QED
      BY <1>1 DEF Same, Fields, Ready, Typed
<1> HIDE DEF p, n
<1>4. p.pos \in 0..(GetLen - 1) /\ p.mirrorDue \in BOOLEAN
    BY <1>1 DEF Ready, Typed, GetLen
<1>5. /\ IsRec(n) /\ n.code = "GET" /\ n.pos0 = s.pos /\ n.second = FALSE
      /\ n.copyPC = (IF s.pos = 0 THEN a ELSE s.copyPC)
      /\ s.pos = GetLen - 1 => Same(p, n, AtGet \cup AtDone) /\ IsDone(p, n)
      /\ s.pos < GetLen - 1 => n.pos = s.pos + 1 /\ Same(p, n, AtGet \cup AtGrab)
      /\ s.pos < GetLen - 1 =>
            \/ Same(p, n, AtGet \cup {"mirrorDue"}) /\ n.mirrorDue \in BOOLEAN
            \/ /\ s.pos + 1 = GrabPos /\ n.outActive = FALSE /\ n.pageInDue = TRUE
               /\ n.busrq = s.busrq \cup {"MIRROR"} /\ n.mirrorDue = FALSE
  <2>1. Given(p, n, a)
      BY <1>1, <1>2, <1>4, GetGives
  <2> QED
      BY <1>1, <2>1 DEF Given
<1>6. CASE s.pos < GetLen - 1
  <2>1. n.pagedOut = TRUE
      BY <1>1, <1>5, <1>6 DEF Same, Fields, AtGet, AtGrab
  <2>2. Same(s, n, AtGet \cup AtGrab \cup {"pagedOut"})
      BY <1>1, <1>5, <1>6 DEF Same, AtGrab
  <2>3. CASE Same(p, n, AtGet \cup {"mirrorDue"}) /\ n.mirrorDue \in BOOLEAN
    <3>1. n.outActive = TRUE /\ n.pageInDue = FALSE /\ n.busrq = s.busrq
        BY <1>1, <1>3, <2>3 DEF Same, Fields, AtGet
    <3> QED
        BY <1>5, <1>6, <2>1, <2>2, <2>3, <3>1 DEF GetByte, n
  <2>4. CASE ~(Same(p, n, AtGet \cup {"mirrorDue"}) /\ n.mirrorDue \in BOOLEAN)
      BY <1>5, <1>6, <2>1, <2>2, <2>4 DEF GetByte, n
  <2> QED
      BY <2>3, <2>4
<1>7. CASE ~(s.pos < GetLen - 1)
  <2>1. s.pos = GetLen - 1 /\ s.pos # 0
      BY <1>1, <1>4, <1>7 DEF GetLen
  <2>2. n.pagedOut = TRUE
      BY <1>1, <1>5, <2>1 DEF Same, Fields, AtGet, AtDone
  <2>3. Same(s, n, AtGet \cup AtDone \cup {"pagedOut"})
      BY <1>1, <1>5, <2>1 DEF Same, AtDone
  <2>4. IsDone(s, n)
      BY <1>1, <1>5, <2>1 DEF IsDone
  <2> QED
      BY <1>5, <1>7, <2>1, <2>2, <2>3, <2>4 DEF GetLast, n
<1> QED
    BY <1>6, <1>7

-----------------------------------------------------------------------------
(* A cycle begins                                                          *)

\* The program begins with the tracker switched off.
LEMMA InitInv == Init => TrackerInv
<1> SUFFICES ASSUME Init PROVE TrackerInv
    OBVIOUS
<1>1. PICK a \in Addr : z = [pc |-> a, todo |-> <<>>, code |-> "PROG"]
    BY DEF Init
<1>2. z.todo = <<>> /\ z.code = "PROG" /\ z.pc = a /\ ~cyc.busy /\ stepping = FALSE
    BY <1>1 DEF Init, Idle
<1>3. /\ t.on = FALSE /\ t.hold = FALSE /\ t.acq = "NONE" /\ t.mode = "PAUSED" /\ t.setRegs = FALSE
      /\ t.pos = 0 /\ t.second = FALSE /\ t.pfx = FALSE /\ t.disablePending = FALSE
      /\ t.resetPending = FALSE /\ t.outActive = FALSE /\ t.mirrorDue = TRUE
      /\ t.overPC = ResetAddr /\ t.copyPC = ResetAddr /\ t.known = {} /\ t.pagedOut = FALSE
      /\ t.pageInDue = FALSE /\ t.reading = FALSE /\ t.busrq = {} /\ t.code = "PROG" /\ t.pos0 = 0
    BY DEF Init
<1>4. IsRec(t)
    BY DEF Init, IsRec, Fields
<1>5. Typed(t)
  <2>1. /\ 0 \in 0..(SetLen - 1) /\ 0 \in -1..(SetLen - 1) /\ 0 < GetLen /\ "NONE" \in Acq /\ "PAUSED" \in Mode
        /\ "PROG" \in Code /\ TRUE \in BOOLEAN /\ FALSE \in BOOLEAN /\ ResetAddr \in Addr
        /\ {} \in SUBSET Registers /\ {} \in SUBSET {"MIRROR", "PROGRAM"}
      BY ProgramAssumption DEF Acq, Mode, Code, SetLen, GetLen
  <2> QED
      BY <1>3, <2>1 DEF Typed
<1>6. Z80Types
  <2>1. z \in [pc : Addr, todo : Seq(Kind), code : Code]
      BY <1>1, WritesOnly DEF Code
  <2>2. cyc \in [busy : BOOLEAN, kind : Kind, code : Code, pos : -1..SetLen - 1]
    <3>1. 0 \in -1..SetLen - 1 /\ "M1" \in Kind /\ "PROG" \in Code
        BY DEF Kind, Code, SetLen
    <3> QED
        BY <3>1 DEF Init, Idle
  <2> QED
      BY <1>2, <2>1, <2>2, WritesOnly DEF Z80Types
<1>7. Left = <<>> /\ Eating = "PROG"
    BY <1>2 DEF Left, Eating
<1>8. Fits /\ Place /\ Behind /\ Answer /\ Seen /\ Switched /\ Stopped /\ Stepping
  <2>1. Fits /\ Answer /\ Switched /\ Stopped /\ Stepping
      BY <1>2, <1>3 DEF Fits, Answer, Switched, Stopped, Stepping
  <2>2. Place
      BY <1>3, <1>7 DEF Place, Off
  <2>3. Behind /\ Seen
      BY <1>3 DEF Behind, Seen
  <2> QED
      BY <2>1, <2>2, <2>3
<1>9. Prefix /\ Paging /\ Requests
    BY <1>2, <1>3, <1>7 DEF Prefix, Paging, Requests
<1> QED
    BY <1>4, <1>5, <1>6, <1>8, <1>9 DEF TrackerInv, Types

\* The next cycle is an opcode byte, if it is the first of an instruction.
LEMMA NextKindIs ==
    ASSUME Types, PrefixesLead
    PROVE  /\ NextKind \in Kind
           /\ z.todo = <<>> => IsM1(NextKind) /\ NextKind # "WR" /\ NextKind = Head(Program[z.pc])
           /\ z.todo # <<>> => NextKind = Head(z.todo)
<1>1. z.pc \in Addr /\ z.todo \in Seq(Kind)
    BY DEF Types, Z80Types
<1>2. CASE z.todo = <<>>
  <2>1. Program[z.pc] \in Seq(Kind) \ {<<>>} /\ IsM1(Head(Program[z.pc])) /\ NextKind = Head(Program[z.pc])
      BY <1>1, <1>2, Instruction DEF NextKind
  <2>2. NextKind \in Kind
      BY <2>1, HeadTailProperties
  <2> QED
      BY <1>2, <2>1, <2>2 DEF IsM1
<1>3. CASE z.todo # <<>>
    BY <1>1, <1>3, HeadTailProperties DEF NextKind
<1> QED
    BY <1>2, <1>3

\* What is left of an instruction once the cycle is over
LEMMA Begins ==
    ASSUME Types, PrefixesLead, ~cyc.busy, z' = z, NEW c \in Code, NEW p \in -1..(SetLen - 1),
           cyc' = [busy |-> TRUE, kind |-> NextKind, code |-> c, pos |-> p]
    PROVE  /\ cyc'.busy = TRUE /\ cyc'.kind = NextKind /\ cyc'.code = c /\ cyc'.pos = p /\ NextKind' = NextKind
           /\ Left = z.todo /\ Eating = z.code
           /\ LastByte' <=> c # "PROG" /\ p + 1 = SnippetLen[c]
           /\ z.todo # <<>> => /\ Left' = Tail(z.todo)
                               /\ Eating' = IF z.code # "PROG" /\ LastByte' THEN "PROG" ELSE z.code
           /\ z.todo = <<>> /\ c = "PROG" => Left' = Tail(Program[z.pc]) /\ Eating' = "PROG"
           /\ z.todo = <<>> /\ c # "PROG" => Left' = Tail(Snippet[c][p]) /\ Eating' = c
<1>1. cyc'.busy = TRUE /\ cyc'.kind = NextKind /\ cyc'.code = c /\ cyc'.pos = p
    OBVIOUS
<1>2. NextKind' = NextKind /\ Left = z.todo /\ Eating = z.code
    BY DEF NextKind, Left, Eating
<1>3. LastByte' <=> c # "PROG" /\ p + 1 = SnippetLen[c]
    BY <1>1 DEF LastByte
<1>4. z.todo # <<>> => Left' = Tail(z.todo) /\ Eating' = IF z.code # "PROG" /\ LastByte' THEN "PROG" ELSE z.code
    BY <1>1 DEF Left, Eaten, Eating
<1>5. z.todo = <<>> => Eating' = c
    BY <1>1 DEF Eating
<1>6. z.todo = <<>> => Left' = IF c = "PROG" THEN Tail(Program[z.pc]) ELSE Tail(Snippet[c][p])
    BY <1>1 DEF Left, Eaten
<1> QED
    BY <1>1, <1>2, <1>3, <1>4, <1>5, <1>6

\* The tracker, when the cycle asks it
u == NoAnswer(DoPageIn(t))
\* It has paged in what was due.
LEMMA AskedIs ==
    ASSUME TrackerInv, ~cyc.busy
    PROVE  /\ Ready(u) /\ Same(t, u, {"pagedOut", "pageInDue", "code", "pos0"})
           /\ u.code = "PROG" /\ u.pos0 = 0 /\ u.pagedOut = t.outActive /\ u.pageInDue = FALSE
<1> DEFINE d == DoPageIn(t)
<1>1. IsRec(t) /\ Typed(t) /\ t.pagedOut = t.outActive /\ (t.outActive => ~t.pageInDue)
    BY DEF TrackerInv, Types, Paging
<1>2. /\ IsRec(d) /\ Same(t, d, {"pagedOut", "pageInDue"})
      /\ d.pagedOut = (IF t.pageInDue THEN FALSE ELSE t.pagedOut)
      /\ d.pageInDue = (IF t.pageInDue THEN FALSE ELSE t.pageInDue)
    BY <1>1, DoPageInDoes
<1>3. u = [d EXCEPT !.code = "PROG", !.pos0 = 0]
    BY DEF u, NoAnswer
<1> HIDE DEF d, u
<1>4. IsRec(u) /\ Same(d, u, {"code", "pos0"})
    BY <1>2, <1>3 DEF IsRec, Same
<1>5. u.code = "PROG" /\ u.pos0 = 0 /\ u.pagedOut = d.pagedOut /\ u.pageInDue = d.pageInDue
    BY <1>2, <1>3 DEF IsRec, Fields
<1>6. d.pagedOut = t.outActive /\ d.pageInDue = FALSE
    BY <1>1, <1>2 DEF Typed
<1>7. Same(t, u, {"pagedOut", "pageInDue", "code", "pos0"})
    BY <1>2, <1>4 DEF Same
<1>8. u.outActive = t.outActive
    BY <1>7 DEF Same, Fields
<1>9. Typed(u)
  <2>1. /\ u.on = t.on /\ u.hold = t.hold /\ u.acq = t.acq /\ u.mode = t.mode /\ u.setRegs = t.setRegs
        /\ u.pos = t.pos /\ u.second = t.second /\ u.pfx = t.pfx /\ u.disablePending = t.disablePending
        /\ u.resetPending = t.resetPending /\ u.outActive = t.outActive /\ u.mirrorDue = t.mirrorDue
        /\ u.overPC = t.overPC /\ u.copyPC = t.copyPC /\ u.known = t.known /\ u.reading = t.reading
        /\ u.busrq = t.busrq
      BY <1>7 DEF Same, Fields
  <2>2. u.code \in Code /\ u.pos0 \in -1..(SetLen - 1)
      BY <1>5 DEF Code, SetLen
  <2>3. u.pagedOut \in BOOLEAN /\ u.pageInDue \in BOOLEAN
      BY <1>1, <1>5, <1>6 DEF Typed
  <2> QED
      BY <1>1, <2>1, <2>2, <2>3, Zenon DEF Typed
<1> QED
    BY <1>4, <1>5, <1>6, <1>7, <1>8, <1>9 DEF Ready

-----------------------------------------------------------------------------
(* What the answer makes of the tracker                                    *)

\* trackPrefixedInstructions notes a prefix.
LEMMA TrackPrefixedDoes ==
    ASSUME NEW s, IsRec(s), NEW k
    PROVE  /\ IsRec(TrackPrefixed(s, k)) /\ Same(s, TrackPrefixed(s, k), {"pfx"})
           /\ TrackPrefixed(s, k).pfx = (k = "PFX")
<1>1. IsRec(TrackPrefixed(s, k)) /\ Same(s, TrackPrefixed(s, k), {"pfx"})
    BY DEF TrackPrefixed, IsRec, Same
<1>2. TrackPrefixed(s, k).pfx = (k = "PFX")
    BY DEF TrackPrefixed, IsRec, Fields
<1> QED
    BY <1>1, <1>2

Hit(s, k, a) == s.acq \notin {"INJECTING", "POST_INJECT"} /\ (StepOverHit(s, k, a) \/ BreakHit(k, a))
\* A breakpoint that is hit stops the target and begins an injection.
LEMMA StopAtHitDoes ==
    ASSUME NEW s, IsRec(s), NEW k, NEW a
    PROVE  LET n == StopAtHit(s, k, a)
           IN  /\ IsRec(n) /\ Same(s, n, {"acq", "mode"})
               /\ IF Hit(s, k, a) THEN n.acq = "INJECTING" /\ n.mode = "PAUSED" ELSE n = s
<1>1. CASE Hit(s, k, a)
  <2>1. StopAtHit(s, k, a) = [s EXCEPT !.acq = "INJECTING", !.mode = "PAUSED"]
      BY <1>1 DEF StopAtHit, Hit
  <2>2. IsRec(StopAtHit(s, k, a)) /\ Same(s, StopAtHit(s, k, a), {"acq", "mode"})
      BY <2>1 DEF IsRec, Same
  <2>3. StopAtHit(s, k, a).acq = "INJECTING" /\ StopAtHit(s, k, a).mode = "PAUSED"
      BY <2>1 DEF IsRec, Fields
  <2> QED
      BY <1>1, <2>2, <2>3
<1>2. CASE ~Hit(s, k, a)
  <2>1. StopAtHit(s, k, a) = s
      BY <1>2 DEF StopAtHit, Hit
  <2> QED
      BY <1>2, <2>1 DEF Same
<1> QED
    BY <1>1, <1>2

AtDisable == {"outActive", "pageInDue", "disablePending", "on", "hold"}
IsOff(s, n) == /\ IsRec(n) /\ Same(s, n, AtDisable) /\ n.outActive = FALSE /\ n.pageInDue = TRUE
               /\ n.disablePending = FALSE /\ n.on = FALSE /\ n.hold = FALSE
\* A pending disable switches the tracker off.
LEMMA HandlePendingDisableDoes ==
    ASSUME NEW s, IsRec(s)
    PROVE  IsOff(s, HandlePendingDisable(s))
<1> DEFINE b == PageBackIn(s)
           n == HandlePendingDisable(s)
<1>1. IsRec(b) /\ Same(s, b, {"outActive", "pageInDue"}) /\ b.outActive = FALSE /\ b.pageInDue = TRUE
    BY PageBackInDoes
<1>2. n = [b EXCEPT !.disablePending = FALSE, !.on = FALSE, !.hold = FALSE]
    BY DEF HandlePendingDisable
<1> HIDE DEF b, n
<1>3. IsRec(n) /\ Same(b, n, {"disablePending", "on", "hold"})
    BY <1>1, <1>2 DEF IsRec, Same
<1>4. /\ n.outActive = FALSE /\ n.pageInDue = TRUE
      /\ n.disablePending = FALSE /\ n.on = FALSE /\ n.hold = FALSE
    BY <1>1, <1>2 DEF IsRec, Fields
<1>5. Same(s, n, AtDisable)
    BY <1>1, <1>3 DEF Same, AtDisable
<1> QED
    BY <1>3, <1>4, <1>5 DEF n, IsOff

\* An injection opens with the first byte of an instruction
Opened(v) == /\ Ready(v) /\ Same(u, v, {"acq", "mode", "pfx", "setRegs", "pos"})
             /\ v.acq = "INJECTING" /\ v.setRegs = FALSE /\ v.pos = 0 /\ v.mode \in {"PAUSED", "INTO"}
Opens(n)    == z.todo = <<>> /\ \E v : Opened(v) /\ n = HandleInjection(v, NextKind, z.pc)
\* ... or not
Passes(n)   == /\ IsRec(n) /\ Same(u, n, {"pfx"}) /\ n.pfx = (NextKind = "PFX")
               /\ ~Hit(u, NextKind, z.pc) /\ (t.mode = "INTO" => ~IsM1(NextKind) \/ t.pfx)
\* The first instruction is waited for
Awaits(n)   == /\ IsRec(n) /\ Same(u, n, {"pfx", "acq", "mode"}) /\ n.pfx = (NextKind = "PFX")
               /\ n.acq = (IF IsM1(NextKind) THEN "INJECT_IF_NEW_INSTR" ELSE "NONE")
               /\ n.mode \in {t.mode, "PAUSED"}
\* The instruction behind an injection begins, and may be held; or the tracker goes off
Resumes(n)  == /\ IsRec(n) /\ Same(u, n, {"hold", "pfx", "acq"}) /\ n.pfx = (NextKind = "PFX")
               /\ n.acq = "INJECT_IF_NEW_INSTR" /\ n.hold = (t.mode = "PAUSED")
GoesOff(n)  == IsOff(u, n)

\* From INJECT_IF_NEW_INSTR the tracker begins an injection or lets the cycle pass.
LEMMA FromIfNew ==
    ASSUME TrackerInv, PrefixesLead, ~cyc.busy, t.on, t.acq = "INJECT_IF_NEW_INSTR", t' = Answered
    PROVE  Opens(t') \/ Passes(t')
<1> DEFINE k == NextKind
           a == z.pc
           b == StopAtHit(u, k, a)
           m == TrackPrefixed(b, k)
           n == IF FirstByteOfInstr(b, k) /\ b.mode = "INTO" THEN [m EXCEPT !.acq = "INJECTING"] ELSE m
           v == [n EXCEPT !.setRegs = FALSE, !.pos = 0]
<1>1. /\ Ready(u) /\ Same(t, u, {"pagedOut", "pageInDue", "code", "pos0"})
      /\ u.code = "PROG"
    BY AskedIs
<1>2. u.on = t.on /\ u.acq = t.acq /\ u.disablePending = t.disablePending /\ u.mode = t.mode /\ u.pfx = t.pfx
    BY <1>1 DEF Same, Fields
<1>3. ~u.disablePending
    BY <1>2 DEF TrackerInv, Switched
<1>4. t' = HandleWaitInterrupt(u, k, a)
    BY DEF Answered, u
<1> HIDE DEF k, a
<1>5. HandleWaitInterrupt(u, k, a) = InjectIfNew(u, k, a)
    BY <1>2 DEF HandleWaitInterrupt
<1>6. InjectIfNew(u, k, a) = IF n.acq = "INJECTING" THEN HandleInjection(v, k, a) ELSE n
    BY <1>3 DEF InjectIfNew, HandleStepOverBkpts
<1>7. /\ IsRec(b) /\ Same(u, b, {"acq", "mode"})
      /\ IF Hit(u, k, a) THEN b.acq = "INJECTING" /\ b.mode = "PAUSED" ELSE b = u
    BY <1>1, StopAtHitDoes DEF Ready
<1> HIDE DEF b
<1>8. IsRec(m) /\ Same(b, m, {"pfx"}) /\ m.pfx = (k = "PFX")
    BY <1>7, TrackPrefixedDoes
<1> HIDE DEF m
<1>9. m.acq = b.acq /\ m.mode = b.mode /\ b.pfx = u.pfx
    BY <1>7, <1>8 DEF Same, Fields
<1>10. IsRec(n) /\ Same(m, n, {"acq"}) /\ n.mode = m.mode
       /\ n.acq = IF FirstByteOfInstr(b, k) /\ b.mode = "INTO" THEN "INJECTING" ELSE b.acq
  <2>1. CASE FirstByteOfInstr(b, k) /\ b.mode = "INTO"
    <3>1. n = [m EXCEPT !.acq = "INJECTING"]
        BY <2>1
    <3> HIDE DEF n
    <3>2. IsRec(n) /\ Same(m, n, {"acq"})
        BY <1>8, <3>1 DEF IsRec, Same
    <3>3. n.acq = "INJECTING"
        BY <1>8, <3>1 DEF IsRec, Fields
    <3>4. n.mode = m.mode
        BY <3>2 DEF Same, Fields
    <3> QED
        BY <2>1, <3>2, <3>3, <3>4
  <2>2. CASE ~(FirstByteOfInstr(b, k) /\ b.mode = "INTO")
    <3>1. n = m
        BY <2>2
    <3> QED
        BY <1>8, <1>9, <2>2, <3>1 DEF Same
  <2> QED
      BY <2>1, <2>2
<1> HIDE DEF n
<1>11. FirstByteOfInstr(b, k) <=> IsM1(k) /\ ~t.pfx
    BY <1>2, <1>9 DEF FirstByteOfInstr
<1>12. CASE n.acq = "INJECTING"
  <2>1. t' = HandleInjection(v, k, a)
      BY <1>4, <1>5, <1>6, <1>12
  <2>2. IsRec(v) /\ Same(n, v, {"setRegs", "pos"})
      BY <1>10 DEF IsRec, Same
  <2>3. v.setRegs = FALSE /\ v.pos = 0 /\ v.acq = "INJECTING" /\ v.mode = b.mode /\ v.pfx = (k = "PFX")
    <3>1. v.setRegs = FALSE /\ v.pos = 0
        BY <1>10 DEF IsRec, Fields
    <3> HIDE DEF v
    <3>2. v.acq = n.acq /\ v.mode = n.mode /\ v.pfx = n.pfx /\ n.pfx = m.pfx
        BY <1>10, <2>2 DEF Same, Fields
    <3> QED
        BY <1>8, <1>9, <1>10, <1>12, <3>1, <3>2
  <2> HIDE DEF v
  <2>4. Same(u, v, {"acq", "mode", "pfx", "setRegs", "pos"})
      BY <1>7, <1>8, <1>10, <2>2 DEF Same
  <2>5. Hit(u, k, a) \/ (FirstByteOfInstr(b, k) /\ b.mode = "INTO")
      BY <1>2, <1>7, <1>10, <1>12
  <2>6. z.todo = <<>>
    <3>1. CASE Hit(u, k, a)
        BY <3>1 DEF Hit, StepOverHit, BreakHit
    <3>2. CASE FirstByteOfInstr(b, k) /\ z.todo # <<>>
      <4>1. Left = z.todo /\ k = Head(z.todo)
          BY <3>2, NextKindIs DEF Left, TrackerInv, k
      <4> QED
          BY <1>11, <3>2, <4>1 DEF TrackerInv, Prefix
    <3> QED
        BY <2>5, <3>1, <3>2
  <2>7. v.mode \in {"PAUSED", "INTO"}
      BY <1>7, <2>3, <2>5
  <2>8. Ready(v)
    <3>1. /\ v.on = u.on /\ v.hold = u.hold /\ v.second = u.second /\ v.disablePending = u.disablePending
          /\ v.resetPending = u.resetPending /\ v.outActive = u.outActive /\ v.mirrorDue = u.mirrorDue
          /\ v.overPC = u.overPC /\ v.copyPC = u.copyPC /\ v.known = u.known /\ v.pagedOut = u.pagedOut
          /\ v.pageInDue = u.pageInDue /\ v.reading = u.reading /\ v.busrq = u.busrq /\ v.code = u.code
          /\ v.pos0 = u.pos0
        BY <2>4 DEF Same, Fields
    <3>2. /\ v.acq \in Acq /\ v.mode \in Mode /\ v.setRegs \in BOOLEAN /\ v.pos \in 0..(SetLen - 1)
          /\ v.pos < GetLen
      <4>1. v.acq = "INJECTING" /\ v.setRegs = FALSE /\ v.pos = 0
          BY <2>3, Zenon
      <4>2. v.acq \in Acq /\ v.mode \in Mode
          BY <2>7, <4>1 DEF Acq, Mode
      <4>3. v.setRegs \in BOOLEAN
          BY <4>1, Zenon
      <4>4. v.pos \in 0..(SetLen - 1) /\ v.pos < GetLen
          BY <4>1 DEF SetLen, GetLen
      <4> QED
          BY <4>2, <4>3, <4>4
    <3>4. v.pfx \in BOOLEAN
        BY <2>3, Zenon
    <3>3. Typed(v)
        BY <1>1, <3>1, <3>2, <3>4, Zenon DEF Ready, Typed
    <3> QED
        BY <1>1, <2>2, <3>1, <3>3 DEF Ready
  <2> QED
      BY <2>1, <2>3, <2>4, <2>6, <2>7, <2>8 DEF Opens, Opened, k, a
<1>13. CASE n.acq # "INJECTING"
  <2>1. t' = n
      BY <1>4, <1>5, <1>6, <1>13
  <2>2. ~Hit(u, k, a) /\ ~(FirstByteOfInstr(b, k) /\ b.mode = "INTO") /\ b = u
      BY <1>7, <1>10, <1>13
  <2>3. n.acq = m.acq
      BY <1>9, <1>10, <2>2
  <2>4. Same(m, n, {})
      BY <1>10, <2>3 DEF Same
  <2>5. Same(u, n, {"pfx"})
      BY <1>8, <2>2, <2>4 DEF Same
  <2>6. n.pfx = (k = "PFX")
      BY <1>8, <2>4 DEF Same, Fields
  <2> QED
      BY <1>2, <1>10, <1>11, <2>1, <2>2, <2>5, <2>6 DEF Passes, k, a
<1> QED
    BY <1>12, <1>13

\* From NONE a cycle passes, and at most the next one is looked at.
LEMMA FromNone ==
    ASSUME TrackerInv, PrefixesLead, ~cyc.busy, t.on, t.acq = "NONE", t' = Answered
    PROVE  Awaits(t')
<1> DEFINE k == NextKind
           a == z.pc
           b == StopAtHit(u, k, a)
           m == TrackPrefixed(b, k)
<1>1. Ready(u) /\ Same(t, u, {"pagedOut", "pageInDue", "code", "pos0"}) /\ u.code = "PROG"
    BY AskedIs
<1>2. u.on = t.on /\ u.acq = t.acq /\ u.disablePending = t.disablePending /\ u.mode = t.mode /\ u.pfx = t.pfx
    BY <1>1 DEF Same, Fields
<1>3. ~u.disablePending /\ u.pfx = FALSE
    BY <1>1, <1>2 DEF TrackerInv, Switched, Prefix, Ready, Typed
<1>4. t' = HandleWaitInterrupt(u, k, a)
    BY DEF Answered, u
<1> HIDE DEF k, a
<1>5. HandleWaitInterrupt(u, k, a) = HandleTrackerIdle(b, k)
    BY <1>2 DEF HandleWaitInterrupt, HandleStepOverBkpts, PostInjectHold
<1>6. /\ IsRec(b) /\ Same(u, b, {"acq", "mode"})
      /\ IF Hit(u, k, a) THEN b.acq = "INJECTING" /\ b.mode = "PAUSED" ELSE b = u
    BY <1>1, StopAtHitDoes DEF Ready
<1> HIDE DEF b
<1>7. b.pfx = FALSE /\ ~b.disablePending
    BY <1>3, <1>6 DEF Same, Fields
<1>8. IsRec(m) /\ Same(b, m, {"pfx"}) /\ m.pfx = (k = "PFX")
    BY <1>6, TrackPrefixedDoes
<1>9. t' = [m EXCEPT !.acq = IF IsM1(k) THEN "INJECT_IF_NEW_INSTR" ELSE @]
    BY <1>4, <1>5, <1>7 DEF HandleTrackerIdle, FirstByteOfInstr
<1> HIDE DEF m
<1>10. IsRec(t') /\ Same(m, t', {"acq"})
    BY <1>8, <1>9 DEF IsRec, Same
<1>11. t'.acq = IF IsM1(k) THEN "INJECT_IF_NEW_INSTR" ELSE m.acq
    BY <1>8, <1>9 DEF IsRec, Fields
<1>12. t'.pfx = m.pfx /\ t'.mode = b.mode /\ m.acq = b.acq
    BY <1>8, <1>10 DEF Same, Fields
<1>13. Same(u, t', {"pfx", "acq", "mode"})
    BY <1>6, <1>8, <1>10 DEF Same
<1>14. Hit(u, k, a) => IsM1(k)
    BY DEF Hit, StepOverHit, BreakHit
<1> QED
    BY <1>2, <1>6, <1>8, <1>10, <1>11, <1>12, <1>13, <1>14 DEF Awaits, k, a

\* Behind an injection the mode says whether there is another one.
LEMMA FromPostInject ==
    ASSUME TrackerInv, PrefixesLead, ~cyc.busy, t.on, t.acq = "POST_INJECT", t' = Answered
    PROVE  /\ z.todo = <<>> /\ (IF t.disablePending THEN GoesOff(t') ELSE Resumes(t'))
<1> DEFINE k == NextKind
           a == z.pc
           b == PostInjectHold(u)
           m == TrackPrefixed(b, k)
<1>1. Ready(u) /\ Same(t, u, {"pagedOut", "pageInDue", "code", "pos0"}) /\ u.code = "PROG"
    BY AskedIs
<1>2. /\ u.on = t.on /\ u.acq = t.acq /\ u.disablePending = t.disablePending /\ u.mode = t.mode /\ u.pfx = t.pfx
      /\ u.hold = t.hold
    BY <1>1 DEF Same, Fields
<1>3. z.todo = <<>> /\ ~u.pfx
    BY <1>2 DEF TrackerInv, Behind, Left
<1>4. t' = HandleWaitInterrupt(u, k, a) /\ IsM1(k)
    BY <1>3, NextKindIs DEF Answered, u, TrackerInv
<1>0. t.hold = FALSE
    BY DEF TrackerInv, Types, Typed, Stopped, AtStop
<1> HIDE DEF k, a
<1>5. b = IF t.mode = "PAUSED" THEN [u EXCEPT !.hold = TRUE] ELSE u
    BY <1>2 DEF PostInjectHold
<1> HIDE DEF b
<1>6. IsRec(b) /\ Same(u, b, {"hold"}) /\ b.hold = (t.mode = "PAUSED")
  <2>1. CASE t.mode = "PAUSED"
    <3>1. IsRec(b) /\ Same(u, b, {"hold"})
        BY <1>1, <1>5, <2>1 DEF IsRec, Same, Ready
    <3>2. b.hold = TRUE
        BY <1>1, <1>5, <2>1 DEF IsRec, Fields, Ready
    <3> QED
        BY <2>1, <3>1, <3>2
  <2>2. CASE t.mode # "PAUSED"
      BY <1>0, <1>1, <1>2, <1>5, <2>2 DEF Same, Ready
  <2> QED
      BY <2>1, <2>2
<1>7. b.acq = "POST_INJECT" /\ b.disablePending = t.disablePending /\ ~b.pfx
    BY <1>2, <1>3, <1>6 DEF Same, Fields
<1>8. HandleWaitInterrupt(u, k, a) = HandleTrackerIdle(b, k)
  <2>1. HandleStepOverBkpts(b, k, a) = b
      BY <1>7 DEF HandleStepOverBkpts, StopAtHit
  <2> QED
      BY <1>2, <2>1 DEF HandleWaitInterrupt, b
<1>9. CASE t.disablePending
  <2>1. t' = HandlePendingDisable(b)
      BY <1>4, <1>7, <1>8, <1>9 DEF HandleTrackerIdle
  <2>2. IsOff(b, t')
      BY <1>6, <2>1, HandlePendingDisableDoes
  <2>3. Same(u, t', AtDisable)
      BY <1>6, <2>2 DEF Same, AtDisable, IsOff
  <2> QED
      BY <1>3, <1>9, <2>2, <2>3 DEF GoesOff, IsOff
<1>10. CASE ~t.disablePending
  <2>1. IsRec(m) /\ Same(b, m, {"pfx"}) /\ m.pfx = (k = "PFX")
      BY <1>6, TrackPrefixedDoes
  <2>2. t' = [m EXCEPT !.acq = "INJECT_IF_NEW_INSTR"]
      BY <1>4, <1>7, <1>8, <1>10 DEF HandleTrackerIdle, FirstByteOfInstr
  <2> HIDE DEF m
  <2>3. IsRec(t') /\ Same(m, t', {"acq"})
      BY <2>1, <2>2 DEF IsRec, Same
  <2>4. t'.acq = "INJECT_IF_NEW_INSTR"
      BY <2>1, <2>2 DEF IsRec, Fields
  <2>5. t'.pfx = m.pfx /\ t'.hold = b.hold
      BY <2>1, <2>3 DEF Same, Fields
  <2>6. Same(u, t', {"hold", "pfx", "acq"})
      BY <1>6, <2>1, <2>3 DEF Same
  <2> QED
      BY <1>3, <1>6, <1>10, <2>1, <2>3, <2>4, <2>5, <2>6 DEF Resumes, k
<1> QED
    BY <1>9, <1>10

-----------------------------------------------------------------------------
(* Types of the answers                                                    *)

SetKept(s, n) ==
    /\ Typed(n)
    /\ n.on = s.on /\ n.hold = s.hold /\ n.acq = s.acq /\ n.mode = s.mode /\ n.setRegs = s.setRegs
    /\ n.disablePending = s.disablePending /\ n.pageInDue = s.pageInDue /\ n.busrq = s.busrq
\* A byte of Set keeps the types.
LEMMA SetByteTypes ==
    ASSUME NEW s, NEW n, Typed(s), s.setRegs, s.pos < SetLen - 1, SetByte(s, n)
    PROVE  SetKept(s, n)
<1>1. /\ n.on = s.on /\ n.hold = s.hold /\ n.acq = s.acq /\ n.mode = s.mode /\ n.setRegs = s.setRegs
      /\ n.second = s.second /\ n.pfx = s.pfx /\ n.disablePending = s.disablePending
      /\ n.resetPending = s.resetPending /\ n.mirrorDue = s.mirrorDue /\ n.overPC = s.overPC
      /\ n.copyPC = s.copyPC /\ n.known = s.known /\ n.pageInDue = s.pageInDue /\ n.reading = s.reading
      /\ n.busrq = s.busrq
    BY DEF SetByte, Same, Fields
<1>2. /\ n.pos \in 0..(SetLen - 1) /\ n.pos0 \in -1..(SetLen - 1)
  <2>1. s.pos \in 0..53 /\ s.pos < 53 /\ n.pos = s.pos + 1 /\ n.pos0 = s.pos
      BY DEF SetByte, Typed, SetLen
  <2> QED
      BY <2>1 DEF SetLen
<1>3. n.code \in Code /\ n.outActive \in BOOLEAN /\ n.pagedOut \in BOOLEAN /\ n.setRegs
    BY <1>1, Zenon DEF SetByte, Code
<1> QED
    BY <1>1, <1>2, <1>3, Zenon DEF Typed, SetKept

ShowKept(s, n) ==
    /\ Typed(n)
    /\ n.on = s.on /\ n.hold = s.hold /\ n.acq = s.acq /\ n.mode = s.mode /\ n.setRegs = s.setRegs
    /\ n.disablePending = s.disablePending /\ n.pageInDue = s.pageInDue /\ n.busrq = s.busrq
    /\ n.pos = s.pos /\ n.copyPC = s.copyPC
\* A write cycle of Get keeps the types.
LEMMA GetShowTypes ==
    ASSUME NEW s, NEW n, Typed(s), ~s.setRegs, GetShow(s, n)
    PROVE  ShowKept(s, n)
<1>1. /\ n.on = s.on /\ n.hold = s.hold /\ n.acq = s.acq /\ n.mode = s.mode /\ n.setRegs = s.setRegs
      /\ n.pos = s.pos /\ n.pfx = s.pfx /\ n.disablePending = s.disablePending
      /\ n.resetPending = s.resetPending /\ n.mirrorDue = s.mirrorDue /\ n.overPC = s.overPC
      /\ n.copyPC = s.copyPC /\ n.pageInDue = s.pageInDue /\ n.reading = s.reading
      /\ n.busrq = s.busrq
    BY DEF GetShow, Same, Fields
<1>2. n.pos0 \in -1..(SetLen - 1)
    BY DEF GetShow, SetLen
<1>3. n.code \in Code /\ n.outActive \in BOOLEAN /\ n.pagedOut \in BOOLEAN
    BY DEF GetShow, Code
<1>4. n.second \in BOOLEAN
    BY Zenon DEF GetShow
<1>5. n.known \in SUBSET Registers
  <2>1. s.second \in BOOLEAN /\ s.known \in SUBSET Registers /\ n.known = s.known \cup Captured(s.pos, s.second)
      BY DEF Typed, GetShow
  <2>2. s.pos \in 0..35
      BY DEF Typed, SetLen, GetLen
  <2>3. Captured(s.pos, s.second) \subseteq Registers
    <3>1. Captured(s.pos, TRUE) \cup Captured(s.pos, FALSE) \subseteq Registers
        BY <2>2, CapturedAre
    <3>2. s.second = TRUE \/ s.second = FALSE
        BY <2>1
    <3> QED
        BY <3>1, <3>2, Zenon
  <2> QED
      BY <2>1, <2>3
<1> QED
    BY <1>1, <1>2, <1>3, <1>4, <1>5, Zenon DEF Typed, ShowKept

GetKept(s, n) ==
    /\ Typed(n)
    /\ n.on = s.on /\ n.hold = s.hold /\ n.acq = s.acq /\ n.mode = s.mode /\ n.setRegs = s.setRegs
    /\ n.disablePending = s.disablePending /\ n.known = s.known
\* Another byte of Get keeps the types.
LEMMA GetByteTypes ==
    ASSUME NEW s, NEW n, NEW a \in Addr, Typed(s), ~s.setRegs, s.pos < GetLen - 1, GetByte(s, n, a)
    PROVE  GetKept(s, n)
<1>1. /\ n.on = s.on /\ n.hold = s.hold /\ n.acq = s.acq /\ n.mode = s.mode /\ n.setRegs = s.setRegs
      /\ n.pfx = s.pfx /\ n.disablePending = s.disablePending
      /\ n.resetPending = s.resetPending /\ n.overPC = s.overPC /\ n.known = s.known /\ n.reading = s.reading
    BY DEF GetByte, Same, Fields, AtGet, AtGrab
<1>2. n.pos \in 0..(SetLen - 1) /\ n.pos < GetLen /\ n.pos0 \in -1..(SetLen - 1)
  <2>1. s.pos \in 0..53 /\ s.pos < 35 /\ n.pos = s.pos + 1 /\ n.pos0 = s.pos
      BY DEF GetByte, Typed, SetLen, GetLen
  <2> QED
      BY <2>1 DEF SetLen, GetLen
<1>3. n.code \in Code /\ n.pagedOut \in BOOLEAN /\ n.second \in BOOLEAN /\ n.mirrorDue \in BOOLEAN
    BY Zenon DEF GetByte, Code
<1>4. n.outActive \in BOOLEAN /\ n.pageInDue \in BOOLEAN
    BY Zenon DEF GetByte
<1>5. n.busrq \in SUBSET {"MIRROR", "PROGRAM"}
    BY DEF GetByte, Typed
<1>6. n.copyPC \in Addr
    BY DEF GetByte, Typed
<1> QED
    BY <1>1, <1>2, <1>3, <1>4, <1>5, <1>6, Zenon DEF Typed, GetKept

\* The last answer of a snippet
LastOf(s, n, c) == /\ Same(s, n, AtGet \cup AtDone \cup {"pagedOut"}) /\ IsDone(s, n)
                   /\ n.code = c /\ n.pos0 = s.pos /\ n.pagedOut = TRUE
                   /\ n.copyPC = s.copyPC /\ n.second \in BOOLEAN
\* Both snippets end like this.
LEMMA Lasts ==
    ASSUME NEW s, NEW n, Typed(s)
    PROVE  /\ GetLast(s, n) => LastOf(s, n, "GET")
           /\ SetLast(s, n) => LastOf(s, n, "SET")
<1>1. GetLast(s, n) => LastOf(s, n, "GET")
    BY DEF GetLast, LastOf
<1>2. ASSUME SetLast(s, n) PROVE LastOf(s, n, "SET")
  <2>1. Same(s, n, AtGet \cup AtDone \cup {"pagedOut"})
      BY <1>2 DEF SetLast, Same, AtGet
  <2>2. n.copyPC = s.copyPC /\ n.second = s.second
      BY <1>2 DEF SetLast, Same, Fields, AtDone
  <2> QED
      BY <1>2, <2>1, <2>2 DEF SetLast, LastOf, Typed
<1> QED
    BY <1>1, <1>2

LastKept(s, n) ==
    /\ Typed(n)
    /\ n.on = s.on /\ n.hold = s.hold /\ n.disablePending = s.disablePending /\ n.busrq = s.busrq
    /\ n.known = s.known /\ n.pos = 0 /\ n.setRegs = FALSE
\* The last answer of a snippet keeps the types.
LEMMA LastTypes ==
    ASSUME NEW s, NEW n, NEW c \in {"GET", "SET"}, Typed(s), LastOf(s, n, c)
    PROVE  LastKept(s, n)
<1>1. /\ n.on = s.on /\ n.hold = s.hold /\ n.disablePending = s.disablePending
      /\ n.resetPending = s.resetPending /\ n.mirrorDue = s.mirrorDue /\ n.overPC = s.overPC
      /\ n.known = s.known /\ n.reading = s.reading /\ n.busrq = s.busrq
    BY DEF LastOf, Same, Fields, AtGet, AtDone
<1>2. n.pos0 \in -1..(SetLen - 1)
  <2>1. s.pos \in 0..53 /\ n.pos0 = s.pos
      BY DEF LastOf, Typed, SetLen
  <2> QED
      BY <2>1 DEF SetLen
<1>3. n.pos = 0 /\ n.pos \in 0..(SetLen - 1) /\ n.pos < GetLen
    BY DEF LastOf, IsDone, SetLen, GetLen
<1>4. n.acq \in Acq /\ n.mode \in Mode
    BY DEF LastOf, IsDone, Acq, Mode, Typed
<1>5. n.setRegs = FALSE /\ n.pfx \in BOOLEAN /\ n.outActive \in BOOLEAN /\ n.pageInDue \in BOOLEAN
      /\ n.pagedOut \in BOOLEAN /\ n.second \in BOOLEAN
    BY Zenon DEF LastOf, IsDone
<1>6. n.code \in Code /\ n.copyPC \in Addr
    BY DEF LastOf, Code, Typed
<1>7. n.setRegs \in BOOLEAN
    BY <1>5, Zenon
<1> QED
    BY <1>1, <1>2, <1>3, <1>4, <1>5, <1>6, <1>7, Zenon DEF Typed, LastKept

-----------------------------------------------------------------------------
(* A cycle begins and the tracker is asked                                 *)

Starts == /\ TrackerInv /\ PrefixesLead /\ ~cyc.busy /\ ~BusMayBeGranted
          /\ cyc' = [busy |-> TRUE, kind |-> NextKind, code |-> t'.code, pos |-> t'.pos0]
          /\ z' = z /\ stepping' = stepping /\ ran' = ran

\* A step under way is in mode INTO, or just begun.
LEMMA StepsAre ==
    ASSUME TrackerInv, ~cyc.busy, stepping
    PROVE  /\ t.on /\ ~t.disablePending /\ ran = 1 /\ ~t.hold
           /\ \/ t.acq = "INJECT_IF_NEW_INSTR" /\ t.mode = "INTO" /\ (Left = <<>> => ~t.pfx)
              \/ t.acq = "INJECTING" /\ t.mode \in {"INTO", "PAUSED"}
              \/ t.acq = "POST_INJECT" /\ t.mode = "PAUSED"
<1>1. ~t.hold
    BY DEF TrackerInv, Stopped, AtStop
<1>2. Stepping
    BY DEF TrackerInv
<1> QED
    BY <1>1, <1>2 DEF Stepping

\* The types when a cycle begins
LEMMA StartTypes ==
    ASSUME Starts, IsRec(t'), Typed(t')
    PROVE  /\ Types'
           /\ cyc'.busy = TRUE /\ cyc'.kind = NextKind /\ cyc'.code = t'.code /\ cyc'.pos = t'.pos0
           /\ NextKind' = NextKind /\ Left = z.todo /\ Eating = z.code
           /\ LastByte' <=> t'.code # "PROG" /\ t'.pos0 + 1 = SnippetLen[t'.code]
           /\ z.todo # <<>> => /\ Left' = Tail(z.todo)
                               /\ Eating' = IF z.code # "PROG" /\ LastByte' THEN "PROG" ELSE z.code
           /\ z.todo = <<>> /\ t'.code = "PROG" => Left' = Tail(Program[z.pc]) /\ Eating' = "PROG"
           /\ z.todo = <<>> /\ t'.code # "PROG" => Left' = Tail(Snippet[t'.code][t'.pos0]) /\ Eating' = t'.code
<1>1. Types /\ PrefixesLead /\ ~cyc.busy /\ z' = z
    BY DEF Starts, TrackerInv
<1>2. t'.code \in Code /\ t'.pos0 \in -1..(SetLen - 1)
    BY DEF Typed
<1>3. cyc' = [busy |-> TRUE, kind |-> NextKind, code |-> t'.code, pos |-> t'.pos0]
    BY DEF Starts
<1>4. NextKind \in Kind
    BY <1>1, NextKindIs
<1>5. Z80Types'
  <2>1. cyc' \in [busy : BOOLEAN, kind : Kind, code : Code, pos : -1..SetLen - 1]
      BY <1>2, <1>3, <1>4
  <2>2. z' \in [pc : Addr, todo : Seq(Kind), code : Code] /\ (z'.code = "PROG" => WellPrefixed(z'.todo))
      BY <1>1 DEF Types, Z80Types
  <2> QED
      BY <2>1, <2>2 DEF Z80Types
<1>6. Types'
    BY <1>5 DEF Types
<1> QED
    BY <1>1, <1>2, <1>3, <1>6, Begins

\* The answer leaves the tracker in its snippet
GoesOn(s) == /\ s.acq = "INJECTING" /\ s.code = (IF s.setRegs THEN "SET" ELSE "GET") /\ s.on /\ ~s.hold
             /\ s.disablePending = t.disablePending
             /\ s.pagedOut /\ (s.outActive \/ (s.pageInDue /\ NextKind # "WR")) /\ (s.outActive => ~s.pageInDue)
             /\ \/ s.busrq = {}
                \/ s.busrq = {"MIRROR"} /\ s.pos = GrabPos /\ ~s.setRegs /\ ~s.outActive
             /\ s.pos0 + 1 # SnippetLen[s.code]
             /\ stepping => s.mode \in {"INTO", "PAUSED"}
\* The tracker in its snippet, with the cycle it has answered under way
LEMMA InjectionGoesOn ==
    ASSUME Starts, IsRec(t'), Typed(t'), GoesOn(t')
    PROVE  Behind' /\ Answer' /\ Prefix' /\ Switched' /\ Stopped' /\ Paging' /\ Requests' /\ Stepping'
<1>1. /\ cyc'.busy = TRUE /\ cyc'.kind = NextKind /\ cyc'.code = t'.code
      /\ ~LastByte'
    BY StartTypes DEF GoesOn
<1>2. t'.acq = "INJECTING" /\ t'.on /\ ~t'.hold /\ t'.code # "PROG"
    BY DEF GoesOn
<1>3. Behind' /\ Prefix' /\ Switched' /\ Stopped'
    BY <1>2 DEF Behind, Prefix, Switched, Stopped
<1>4. Answer'
    BY <1>1, <1>2 DEF Answer, GoesOn
<1>5. Paging'
    BY <1>1, <1>2 DEF Paging, GoesOn
<1>6. Requests'
  <2>1. "PROGRAM" \notin t'.busrq
      BY DEF GoesOn
  <2> QED
      BY <1>2, <2>1 DEF Requests, GoesOn
<1>7. Stepping'
  <2>1. stepping => ran = 1 /\ ~t.disablePending
      BY StepsAre DEF Starts
  <2>2. stepping' = stepping /\ ran' = ran
      BY DEF Starts
  <2>3. stepping => t'.mode \in {"INTO", "PAUSED"} /\ ~t'.disablePending
      BY <2>1 DEF GoesOn
  <2> QED
      BY <1>2, <2>1, <2>2, <2>3 DEF Stepping
<1> QED
    BY <1>3, <1>4, <1>5, <1>6, <1>7

\* What the tracker is when it answers with a byte of its own
Base(s) == /\ Ready(s) /\ s.acq = "INJECTING" /\ s.on /\ ~s.hold /\ s.busrq = {}
           /\ s.disablePending = t.disablePending /\ s.known = t.known /\ s.second = t.second /\ s.copyPC = t.copyPC
           /\ stepping => s.mode \in {"INTO", "PAUSED"}

\* Positions, one further
LEMMA NextPos ==
    /\ \A p \in 0..53 : p < 53 => p + 1 # 54 /\ p + 1 \in 1..53
    /\ \A p \in 0..35 : p < 35 => p + 1 # 36 /\ p + 1 \in 1..35 /\ p + 1 > 0 /\ (p + 1) - 1 = p
OBVIOUS

\* The last positions, as numbers
LEMMA LastPos ==
    /\ \A p \in 0..53 : (~(p < 53) => p = 53) /\ (p < 36 => p \in 0..35)
    /\ \A p \in 0..35 : ~(p < 35) => p = 35
    /\ \A p \in 1..35 : p > 0
    /\ 0 \in 0..35 /\ 0 < 35 /\ 35 # 0
OBVIOUS

\* Set goes on: the Z80 reads the byte it asks for.
LEMMA SetGoes ==
    ASSUME Starts, NEW s, Base(s), s.setRegs, s.pos < SetLen - 1, t' = HandleInjection(s, NextKind, z.pc),
           \/ s.pos = 0 /\ z.code = "PROG" /\ z.todo \in {<<>>, <<"M1">>, <<"RD">>}
           \/ s.pos = 1 /\ z.code = "PROG" /\ z.todo = <<>>
           \/ s.pos \in 1..53 /\ z.code = "SET" /\ SetLeaves(s.pos, z.todo)
    PROVE  TrackerInv'
<1>1. IsRec(t') /\ SetByte(s, t')
    BY InjectsSet DEF Base
<1>2. /\ Typed(t')
      /\ t'.on = s.on /\ t'.hold = s.hold /\ t'.acq = s.acq /\ t'.mode = s.mode /\ t'.setRegs = s.setRegs
      /\ t'.disablePending = s.disablePending /\ t'.pageInDue = s.pageInDue /\ t'.busrq = s.busrq
  <2>1. SetKept(s, t')
      BY <1>1, SetByteTypes DEF Base, Ready
  <2> QED
      BY <2>1 DEF SetKept
<1>3. /\ t'.code = "SET" /\ t'.pos0 = s.pos /\ t'.pos = s.pos + 1 /\ t'.outActive = TRUE /\ t'.pagedOut = TRUE
      /\ s.pos \in 0..53 /\ s.pos < 53
    BY <1>1 DEF SetByte, Base, Ready, Typed, SetLen
<1>4. SnippetLen["SET"] = 54 /\ t'.pos0 + 1 # 54 /\ t'.pos \in 1..53
  <2>1. s.pos + 1 # 54 /\ s.pos + 1 \in 1..53
    <3>1. s.pos \in 0..53 /\ s.pos < 53
        BY <1>3
    <3> QED
        BY <3>1, NextPos
  <2>2. SnippetLen["SET"] = 54
      BY DEF SnippetLen, SetLen
  <2> QED
      BY <1>3, <2>1, <2>2
<1>5. GoesOn(t')
    BY <1>2, <1>3, <1>4 DEF GoesOn, Base, Ready
<1>6. /\ Types'
      /\ cyc'.busy = TRUE /\ cyc'.kind = NextKind /\ cyc'.code = "SET" /\ cyc'.pos = s.pos
      /\ NextKind' = NextKind /\ Left = z.todo /\ Eating = z.code /\ ~LastByte'
      /\ z.todo # <<>> => Left' = Tail(z.todo) /\ Eating' = z.code
      /\ z.todo = <<>> => Left' = Tail(Snippet["SET"][s.pos]) /\ Eating' = "SET"
  <2>1. IsRec(t') /\ Typed(t')
      BY <1>1, <1>2 DEF SetByte
  <2>2. t'.code = "SET" /\ t'.pos0 = s.pos /\ "SET" # "PROG"
      BY <1>3
  <2>3. ~LastByte'
      BY <1>4, <2>1, <2>2, StartTypes
  <2> QED
      BY <2>1, <2>2, <2>3, StartTypes
<1>7. z' = z /\ Snippet["SET"] = Set
    BY DEF Starts, Snippet
<1>8. t'.acq = "INJECTING" /\ t'.setRegs
    BY <1>2 DEF Base
<1>9. Seen'
    BY <1>8 DEF Seen
<1>10. Fits' /\ Place'
  <2>1. CASE z.todo = <<>>
    <3>1. s.pos = 0 \/ SetLeaves(s.pos, <<>>)
        BY <2>1, Tails DEF SetLeaves
    <3>2. s.pos \in DOMAIN Set /\ s.pos + 1 \in 1..53 /\ SetLeaves(s.pos + 1, Tail(Set[s.pos]))
        BY <1>3, <3>1, SetBegins
    <3>3. MayFetch'
        BY <1>6, <1>7, <3>2 DEF MayFetch
    <3>4. Fits'
        BY <1>6, <1>7, <2>1, <3>3 DEF Fits
    <3>5. SetOn'
      <4>1. t'.pos \in 1..53 /\ SetLeaves(t'.pos, Left')
          BY <1>3, <1>4, <1>6, <1>7, <2>1, <3>2
      <4> QED
          BY <1>6, <1>8, <2>1, <4>1 DEF SetOn
    <3> QED
        BY <1>8, <3>4, <3>5 DEF Place
  <2>2. CASE z.todo # <<>> /\ z.code = "PROG"
    <3>1. s.pos = 0 /\ z.todo \in {<<"M1">>, <<"RD">>}
        BY <2>2
    <3>2. Left' = <<>> /\ Eating' = "PROG" /\ t'.pos = 1
      <4>1. t'.pos = 1
          BY <1>3, <3>1
      <4>2. Tail(z.todo) = <<>>
          BY <3>1, Tails
      <4> QED
          BY <1>6, <2>2, <4>1, <4>2
    <3>3. Absorbs'
        BY <1>6, <1>7, <2>2, <3>1 DEF Absorbs
    <3>4. Fits'
        BY <1>6, <3>3 DEF Fits
    <3>5. SetFrom1'
        BY <1>8, <3>2 DEF SetFrom1
    <3> QED
        BY <1>8, <3>4, <3>5 DEF Place
  <2>3. CASE z.todo # <<>> /\ z.code # "PROG"
    <3>1. s.pos \in 1..53 /\ z.code = "SET" /\ SetLeaves(s.pos, z.todo)
        BY <2>3
    <3>2. SetLeaves(s.pos + 1, Tail(z.todo))
      <4>1. s.pos # 53
          BY <1>3
      <4> QED
          BY <2>3, <3>1, <4>1, SetGoesOn
    <3>3. Fits'
        BY <1>6, <1>7, <2>3, <3>1 DEF Fits
    <3>4. SetOn'
      <4>1. t'.pos \in 1..53 /\ SetLeaves(t'.pos, Left')
          BY <1>3, <1>4, <1>6, <2>3, <3>2
      <4> QED
          BY <1>6, <1>8, <2>3, <3>1, <4>1 DEF SetOn
    <3> QED
        BY <1>8, <3>3, <3>4 DEF Place
  <2> QED
      BY <2>1, <2>2, <2>3
<1> QED
    BY <1>1, <1>2, <1>5, <1>6, <1>9, <1>10, InjectionGoesOn DEF TrackerInv

\* What is shown when a position is entered or left
Shows(p, q, sec, known) ==
    /\ Shown(p - 1) \subseteq known
    /\ q \notin {<<"WR">>, <<"WR", "WR">>} => Shown(p) \subseteq known
    /\ q = <<"WR">> /\ p \in Pushes => sec /\ Captured(p, FALSE) \subseteq known
    /\ q = <<"WR", "WR">> => ~sec

\* The next position of Get has shown what was noted.
LEMMA ShowsOn ==
    ASSUME NEW p \in 1..35, NEW q, NEW known, Shown(p - 1) \subseteq known, Enters(p, q)
    PROVE  Shows(p, q, FALSE, known)
<1>1. q # <<"WR", "WR">> /\ q # <<"WR">> => Shown(p) \subseteq known
  <2>1. SUFFICES ASSUME q # <<"WR", "WR">>, q # <<"WR">> PROVE Shown(p) \subseteq known
      OBVIOUS
  <2>2. p \in Quiet
      BY <2>1 DEF Enters
  <2>3. Captured(p, FALSE) = {} /\ Captured(p, TRUE) = {}
      BY <2>2, NoneCaptured
  <2>4. p - 1 \in Nat /\ (p - 1) + 1 = p
      OBVIOUS
  <2>5. Shown(p) = Shown(p - 1) \cup Captured(p, FALSE) \cup Captured(p, TRUE)
      BY <2>4, ShownNext
  <2> QED
      BY <2>3, <2>5
<1>2. q = <<"WR">> => p \notin Pushes
  <2>1. p \in Quiet => p \notin Pushes
      BY DEF Quiet, Pushes
  <2>2. <<"WR">> # <<"WR", "WR">>
      OBVIOUS
  <2> QED
      BY <2>1, <2>2 DEF Enters
<1> QED
    BY <1>1, <1>2 DEF Shows

\* A write cycle shows as much as it says.
LEMMA ShowsMore ==
    ASSUME NEW p \in 1..35, NEW q, q = <<"WR">> \/ (q = <<"WR", "WR">> /\ p \in Pushes),
           NEW sec \in BOOLEAN, NEW known, Shows(p, q, sec, known)
    PROVE  Shows(p, Tail(q), sec \/ p \in Pushes, known \cup Captured(p, sec))
<1> DEFINE sec2 == (sec \/ p \in Pushes)
           known2 == known \cup Captured(p, sec)
<1>1. Shown(p - 1) \subseteq known2
    BY DEF Shows
<1>2. Shown(p) = Shown(p - 1) \cup Captured(p, FALSE) \cup Captured(p, TRUE)
  <2>1. p - 1 \in Nat /\ (p - 1) + 1 = p
      OBVIOUS
  <2> QED
      BY <2>1, ShownNext
<1>3. CASE q = <<"WR">>
  <2>1. Tail(q) = <<>>
      BY <1>3, Tails
  <2>2. Shown(p) \subseteq known2
    <3>1. CASE p \in Pushes
      <4>1. sec = TRUE /\ Captured(p, FALSE) \subseteq known
          BY <1>3, <3>1 DEF Shows
      <4> QED
          BY <1>1, <1>2, <4>1
    <3>2. CASE p \notin Pushes
      <4>1. Captured(p, FALSE) = Captured(p, TRUE)
        <5>1. p \in 0..35
            OBVIOUS
        <5> QED
            BY <3>2, <5>1, CapturedAre
      <4>2. sec = TRUE \/ sec = FALSE
          OBVIOUS
      <4> QED
          BY <1>1, <1>2, <4>1, <4>2
    <3> QED
        BY <3>1, <3>2
  <2> QED
      BY <1>1, <2>1, <2>2, Tails DEF Shows
<1>4. CASE q = <<"WR", "WR">> /\ p \in Pushes
  <2>1. Tail(q) = <<"WR">> /\ sec = FALSE
      BY <1>4, Tails DEF Shows
  <2>2. <<"WR">> # <<"WR", "WR">>
      OBVIOUS
  <2> QED
      BY <1>1, <1>4, <2>1, <2>2 DEF Shows
<1> QED
    BY <1>3, <1>4

\* The registers seen so far, said of the record
LEMMA SeenIs == Seen <=> (t.acq = "INJECTING" /\ t.pos > 0 /\ ~t.setRegs => Shows(t.pos, Left, t.second, t.known))
BY DEF Seen, Shows

-----------------------------------------------------------------------------
\* The lengths, as numbers
LEMMA LensAre == SnippetLen["GET"] = 36 /\ SnippetLen["SET"] = 54 /\ SetLen - 1 = 53 /\ GetLen - 1 = 35
BY DEF SnippetLen, SetLen, GetLen

\* Where Get may be: not begun, or in it
InGet(s) == s.pos \in 1..35 /\ z.code = "GET" /\ GetLeaves(s.pos, z.todo) /\ s.copyPC = z.pc
            /\ Shows(s.pos, z.todo, s.second, s.known)

\* Get goes on with a write cycle.
LEMMA ShowGoes ==
    ASSUME Starts, NEW s, Base(s), ~s.setRegs, NextKind = "WR", t' = HandleInjection(s, NextKind, z.pc), InGet(s)
    PROVE  TrackerInv'
<1>0. IsRec(t') /\ GetShow(s, t')
    BY InjectsShow DEF Base
<1>1. /\ t'.code = "GET" /\ t'.pos0 = -1 /\ t'.outActive = TRUE /\ t'.pagedOut = TRUE
      /\ t'.second = (s.second \/ s.pos \in Pushes) /\ t'.known = s.known \cup Captured(s.pos, s.second)
    BY <1>0 DEF GetShow
<1>2. ShowKept(s, t')
    BY <1>0, GetShowTypes DEF Base, Ready
<1>3. t'.pos0 + 1 # SnippetLen["GET"]
    BY <1>1, LensAre
<1>4. GoesOn(t')
  <2>1. t'.acq = "INJECTING" /\ t'.on /\ ~t'.hold /\ t'.disablePending = t.disablePending /\ t'.busrq = {}
        /\ ~t'.setRegs /\ ~t'.pageInDue /\ (stepping => t'.mode \in {"INTO", "PAUSED"})
      BY <1>2 DEF ShowKept, Base, Ready
  <2> QED
      BY <1>1, <1>3, <2>1 DEF GoesOn
<1>5. s.pos \in 1..35 /\ z.code = "GET" /\ GetLeaves(s.pos, z.todo) /\ s.copyPC = z.pc
    BY DEF InGet
<1>6. z.todo # <<>> /\ NextKind = Head(z.todo)
    BY NextKindIs DEF Starts, TrackerInv
<1>7. /\ Types'
      /\ cyc'.busy = TRUE /\ cyc'.kind = NextKind /\ cyc'.code = "GET" /\ NextKind' = NextKind
      /\ Left' = Tail(z.todo) /\ Eating' = "GET"
    BY <1>0, <1>1, <1>2, <1>3, <1>5, <1>6, StartTypes DEF ShowKept
<1>8. z' = z
    BY DEF Starts
<1>9. Fits'
    BY <1>5, <1>6, <1>7, <1>8 DEF Fits
<1>10. t'.acq = "INJECTING" /\ ~t'.setRegs /\ t'.pos = s.pos /\ t'.copyPC = s.copyPC
    BY <1>2 DEF ShowKept, Base
<1>11. Place'
  <2>1. GetLeaves(s.pos, Tail(z.todo))
      BY <1>5, <1>6, GetGoesOn
  <2>2. GetOn'
      BY <1>5, <1>7, <1>8, <1>10, <2>1 DEF GetOn
  <2> QED
      BY <1>10, <2>2 DEF Place
<1>12. Seen'
  <2>1. z.todo = <<"WR">> \/ (z.todo = <<"WR", "WR">> /\ s.pos \in Pushes)
      BY <1>5, <1>6, GetGoesOn
  <2>2. Shows(s.pos, z.todo, s.second, s.known) /\ s.second \in BOOLEAN
      BY DEF InGet, Base, Ready, Typed
  <2>3. Shows(s.pos, Tail(z.todo), (s.second \/ s.pos \in Pushes), s.known \cup Captured(s.pos, s.second))
      BY <1>5, <2>1, <2>2, ShowsMore
  <2>4. Shows(t'.pos, Left', t'.second, t'.known)
      BY <1>1, <1>7, <1>10, <2>3
  <2> QED
      BY <2>4 DEF Seen, Shows
<1> QED
    BY <1>0, <1>2, <1>4, <1>7, <1>9, <1>11, <1>12, InjectionGoesOn DEF TrackerInv, ShowKept

\* Get goes on with any other cycle.
LEMMA GetGoes ==
    ASSUME Starts, NEW s, Base(s), ~s.setRegs, NextKind # "WR", s.pos \in 0..35, s.pos < 35,
           t' = HandleInjection(s, NextKind, z.pc),
           (s.pos = 0 /\ z.code = "PROG" /\ z.todo = <<>>) \/ InGet(s)
    PROVE  TrackerInv'
<1>a. Types /\ z.pc \in Addr /\ ~cyc.busy /\ z' = z
    BY DEF Starts, TrackerInv, Types, Z80Types
<1>0. IsRec(t') /\ GetByte(s, t', z.pc)
    BY LensAre, InjectsGet DEF Base
<1>1. /\ t'.code = "GET" /\ t'.pos0 = s.pos /\ t'.pos = s.pos + 1 /\ t'.pagedOut = TRUE /\ t'.second = FALSE
      /\ t'.copyPC = (IF s.pos = 0 THEN z.pc ELSE s.copyPC)
    BY <1>0 DEF GetByte
<1>2. GetKept(s, t')
    BY <1>0, <1>a, LensAre, GetByteTypes DEF Base, Ready
<1>3. s.pos + 1 # 36 /\ s.pos + 1 \in 1..35 /\ s.pos + 1 > 0 /\ (s.pos + 1) - 1 = s.pos
    BY NextPos
<1>4. GoesOn(t')
  <2>1. /\ t'.acq = "INJECTING" /\ t'.on /\ ~t'.hold /\ t'.disablePending = t.disablePending
        /\ ~t'.setRegs /\ (stepping => t'.mode \in {"INTO", "PAUSED"}) /\ s.busrq = {}
      BY <1>2 DEF GetKept, Base
  <2>2. \/ t'.outActive /\ ~t'.pageInDue /\ t'.busrq = {}
        \/ t'.pos = GrabPos /\ ~t'.outActive /\ t'.pageInDue /\ t'.busrq = {"MIRROR"}
      BY <1>0, <2>1 DEF GetByte
  <2>3. t'.pos0 + 1 # SnippetLen[t'.code]
      BY <1>1, <1>3, LensAre
  <2> QED
      BY <1>1, <2>1, <2>2, <2>3 DEF GoesOn
<1>5. /\ Types'
      /\ cyc'.busy = TRUE /\ cyc'.kind = NextKind /\ cyc'.code = "GET" /\ cyc'.pos = s.pos /\ NextKind' = NextKind
      /\ Left = z.todo /\ ~LastByte'
      /\ z.todo # <<>> => Left' = Tail(z.todo) /\ Eating' = z.code
      /\ z.todo = <<>> => Left' = Tail(Snippet["GET"][s.pos]) /\ Eating' = "GET"
  <2>1. Typed(t') /\ SnippetLen["GET"] = 36
      BY <1>2, LensAre DEF GetKept
  <2>2. t'.pos0 + 1 # 36
      BY <1>1, <1>3
  <2>3. ~LastByte'
      BY <1>0, <1>1, <2>1, <2>2, StartTypes
  <2>4. t'.code = "GET" /\ t'.code # "PROG" /\ t'.pos0 = s.pos
      BY <1>1
  <2> QED
      BY <1>0, <2>1, <2>3, <2>4, StartTypes
<1>6. t'.acq = "INJECTING" /\ ~t'.setRegs /\ t'.known = s.known
    BY <1>2 DEF GetKept, Base
<1>7. t'.copyPC = z.pc
    BY <1>1 DEF InGet
<1>8. Snippet["GET"] = Get
    BY DEF Snippet
<1>9. Fits' /\ Eating' = "GET" /\ GetLeaves(s.pos + 1, Left') /\ Enters(s.pos + 1, Left')
  <2>1. CASE z.todo = <<>>
    <3>1. s.pos = 0 \/ GetLeaves(s.pos, <<>>)
        BY <2>1 DEF InGet
    <3>2. s.pos \in DOMAIN Get /\ GetLeaves(s.pos + 1, Tail(Get[s.pos])) /\ Enters(s.pos + 1, Tail(Get[s.pos]))
        BY <3>1, GetBegins
    <3>3. MayFetch'
        BY <1>5, <1>8, <1>a, <3>2 DEF MayFetch, InGet
    <3> QED
        BY <1>5, <1>8, <1>a, <2>1, <3>2, <3>3 DEF Fits
  <2>2. CASE z.todo # <<>>
    <3>1. InGet(s)
        BY <2>2
    <3>2. s.pos \in 1..35 /\ GetLeaves(s.pos, z.todo) /\ z.code = "GET" /\ s.pos # 35
        BY <3>1 DEF InGet
    <3>3. NextKind = Head(z.todo)
        BY <1>a, <2>2, NextKindIs DEF Starts
    <3>4. GetLeaves(s.pos + 1, Tail(z.todo)) /\ Enters(s.pos + 1, Tail(z.todo))
        BY <2>2, <3>2, <3>3, GetGoesOn
    <3> QED
        BY <1>5, <1>a, <2>2, <3>2, <3>4 DEF Fits
  <2> QED
      BY <2>1, <2>2
<1>10. Place'
  <2>1. t'.pos \in 1..35 /\ GetLeaves(t'.pos, Left')
      BY <1>1, <1>3, <1>9
  <2>2. GetOn'
      BY <1>6, <1>7, <1>9, <1>a, <2>1 DEF GetOn
  <2> QED
      BY <1>6, <2>2 DEF Place
<1>11. Seen'
  <2>1. Shown(s.pos) \subseteq s.known
    <3>1. CASE s.pos = 0
        BY <3>1, ShownNext
    <3>2. CASE InGet(s)
      <4>1. z.todo # <<"WR">> /\ z.todo # <<"WR", "WR">>
        <5>1. CASE z.todo = <<>>
            BY <5>1
        <5>2. CASE z.todo # <<>>
          <6>1. Head(z.todo) # "WR"
              BY <1>a, <5>2, NextKindIs DEF Starts
          <6> QED
              BY <6>1, Tails
        <5> QED
            BY <5>1, <5>2
      <4> QED
          BY <3>2, <4>1 DEF InGet, Shows
    <3> QED
        BY <3>1, <3>2
  <2>2. Shows(s.pos + 1, Left', FALSE, s.known)
      BY <1>3, <1>9, <2>1, ShowsOn
  <2>3. Shows(t'.pos, Left', t'.second, t'.known)
      BY <1>1, <1>6, <2>2
  <2> QED
      BY <2>3 DEF Seen, Shows
<1> QED
    BY <1>0, <1>2, <1>4, <1>5, <1>9, <1>10, <1>11, InjectionGoesOn DEF TrackerInv, GetKept

\* The last cycle of a snippet
LEMMA Ends ==
    ASSUME Starts, NEW s, Base(s), NEW c \in {"GET", "SET"}, IsRec(t'), LastOf(s, t', c), s.pos + 1 = SnippetLen[c],
           z.code = c, z.todo # <<>>, Tail(z.todo) = <<>>, NextKind # "WR",
           c = "GET" => s.known = Registers /\ s.copyPC = z.pc
    PROVE  TrackerInv'
<1>1. LastKept(s, t')
    BY LastTypes DEF Base, Ready
<1>2. /\ t'.code = c /\ t'.pos0 = s.pos /\ t'.pagedOut = TRUE /\ t'.copyPC = s.copyPC
      /\ t'.outActive = FALSE /\ t'.pageInDue = TRUE /\ t'.pfx = FALSE /\ t'.setRegs = FALSE
      /\ t'.acq = "POST_INJECT" /\ t'.pos = 0 /\ t'.mode = (IF s.mode = "INTO" THEN "PAUSED" ELSE s.mode)
    BY DEF LastOf, IsDone
<1>3. /\ t'.on /\ ~t'.hold /\ t'.disablePending = t.disablePending /\ t'.busrq = {} /\ t'.known = s.known
      /\ stepping => t'.mode = "PAUSED"
    BY <1>1, <1>2 DEF LastKept, Base
<1>4. /\ Types'
      /\ cyc'.busy = TRUE /\ cyc'.kind = NextKind /\ cyc'.code = c /\ NextKind' = NextKind
      /\ LastByte' /\ Left' = <<>> /\ Eating' = "PROG"
    BY <1>1, <1>2, StartTypes DEF LastKept
<1>5. z' = z
    BY DEF Starts
<1>6. Fits'
    BY <1>4, <1>5 DEF Fits
<1>7. Place'
  <2>1. Off'
      BY <1>2, <1>4 DEF Off
  <2> QED
      BY <1>2, <2>1 DEF Place
<1>8. Behind'
    BY <1>2, <1>3, <1>4, <1>5 DEF Behind, ShownIsTrue
<1>9. Answer' /\ Seen' /\ Prefix'
    BY <1>2, <1>4, <1>5 DEF Answer, Seen, Prefix
<1>10. Switched' /\ Stopped'
    BY <1>2, <1>3 DEF Switched, Stopped
<1>11. Paging' /\ Requests'
    BY <1>2, <1>3, <1>4 DEF Paging, Requests
<1>12. Stepping'
  <2>1. stepping => ran = 1 /\ ~t.disablePending
      BY StepsAre DEF Starts
  <2>2. stepping' = stepping /\ ran' = ran
      BY DEF Starts
  <2> QED
      BY <1>2, <1>3, <2>1, <2>2 DEF Stepping
<1> QED
    BY <1>4, <1>6, <1>7, <1>8, <1>9, <1>10, <1>11, <1>12 DEF TrackerInv

-----------------------------------------------------------------------------
\* A cycle that begins in an injection keeps the invariant.
LEMMA AskInjecting ==
    ASSUME Starts, t.on, t.acq = "INJECTING", t' = Answered
    PROVE  TrackerInv'
<1>1. TrackerInv /\ ~cyc.busy /\ PrefixesLead /\ Types
    BY DEF Starts, TrackerInv
<1>2. /\ Ready(u) /\ Same(t, u, {"pagedOut", "pageInDue", "code", "pos0"})
    BY <1>1, AskedIs
<1>3. /\ u.on = t.on /\ u.hold = t.hold /\ u.acq = t.acq /\ u.mode = t.mode /\ u.setRegs = t.setRegs
      /\ u.pos = t.pos /\ u.second = t.second /\ u.disablePending = t.disablePending
      /\ u.copyPC = t.copyPC /\ u.known = t.known /\ u.busrq = t.busrq
    BY <1>2 DEF Same, Fields
<1>4. t' = HandleInjection(u, NextKind, z.pc)
    BY <1>3 DEF Answered, HandleWaitInterrupt, u
<1>5. Place /\ Requests /\ ~t.hold /\ Left = z.todo /\ Eating = z.code /\ Seen
    BY <1>1 DEF TrackerInv, Stopped, AtStop, Left, Eating
<1>6. t.busrq = {}
  <2>1. CASE t.setRegs \/ t.pos # 0
    <3>1. "PROGRAM" \notin t.busrq
        BY <1>5, <2>1 DEF Requests
    <3> QED
        BY <3>1 DEF Starts, BusMayBeGranted
  <2>2. CASE ~t.setRegs /\ t.pos = 0
    <3>1. GetFrom0
        BY <1>5, <2>2 DEF Place, GetOn, SetFrom0, SetFrom1, SetOn
    <3>2. AtItsEnd
        BY <1>5, <3>1 DEF GetFrom0, AtItsEnd
    <3> QED
        BY <3>2 DEF Starts, BusMayBeGranted
  <2> QED
      BY <2>1, <2>2
<1>7. stepping => t.mode \in {"INTO", "PAUSED"}
    BY <1>1, StepsAre
<1>8. Base(u)
    BY <1>2, <1>3, <1>5, <1>6, <1>7 DEF Base
<1>9. CASE t.setRegs
  <2>1. /\ u.pos \in 0..53
        /\ \/ u.pos = 0 /\ z.code = "PROG" /\ z.todo \in {<<>>, <<"M1">>, <<"RD">>}
           \/ u.pos = 1 /\ z.code = "PROG" /\ z.todo = <<>>
           \/ u.pos \in 1..53 /\ z.code = "SET" /\ SetLeaves(u.pos, z.todo)
    <3>1. SetFrom0 \/ SetFrom1 \/ SetOn
        BY <1>5, <1>9 DEF Place, GetFrom0, GetOn
    <3>2. u.pos \in 0..53
        BY <1>2, LensAre DEF Ready, Typed
    <3> QED
        BY <1>3, <1>5, <3>1, <3>2 DEF SetFrom0, SetFrom1, SetOn
  <2>2. CASE u.pos < SetLen - 1
      BY <1>3, <1>4, <1>8, <1>9, <2>1, <2>2, SetGoes
  <2>3. CASE ~(u.pos < SetLen - 1)
    <3>1. u.pos = 53
      <4>1. u.pos \in 0..53 /\ ~(u.pos < 53)
          BY <2>1, <2>3, LensAre
      <4> QED
          BY <4>1, LastPos
    <3>2. z.code = "SET" /\ SetLeaves(53, z.todo)
        BY <2>1, <3>1
    <3>3. z.todo # <<>>
      <4>1. z.todo = <<"RD">>
          BY <3>2 DEF SetLeaves
      <4> QED
          BY <4>1, Tails
    <3>4. Tail(z.todo) = <<>> /\ Head(z.todo) # "WR"
        BY <3>2, <3>3, SetGoesOn
    <3>5. NextKind # "WR"
        BY <1>1, <3>3, <3>4, NextKindIs
    <3>6. IsRec(t') /\ SetLast(u, t')
        BY <1>2, <1>3, <1>4, <1>9, <2>3, InjectsSet
    <3>7. LastOf(u, t', "SET")
        BY <1>2, <3>6, Lasts DEF Ready
    <3>8. u.pos + 1 = SnippetLen["SET"]
      <4>1. 53 + 1 = 54
          OBVIOUS
      <4> QED
          BY <3>1, <4>1, LensAre
    <3> QED
        BY <1>8, <3>2, <3>3, <3>4, <3>5, <3>6, <3>7, <3>8, Ends
  <2> QED
      BY <2>2, <2>3
<1>10. CASE ~t.setRegs
  <2>1. (u.pos = 0 /\ z.code = "PROG" /\ z.todo = <<>>) \/ InGet(u)
    <3>1. GetFrom0 \/ GetOn
        BY <1>5, <1>10 DEF Place, SetFrom0, SetFrom1, SetOn
    <3>2. CASE GetFrom0
        BY <1>3, <1>5, <3>2 DEF GetFrom0
    <3>3. CASE GetOn
      <4>1. t.pos \in 1..35 /\ t.pos > 0
        <5>1. t.pos \in 1..35
            BY <3>3 DEF GetOn
        <5> QED
            BY <5>1, LastPos
      <4>2. Shows(t.pos, z.todo, t.second, t.known)
          BY <1>5, <1>10, <4>1 DEF Seen, Shows
      <4> QED
          BY <1>3, <1>5, <3>3, <4>2 DEF GetOn, InGet
    <3> QED
        BY <3>1, <3>2, <3>3
  <2>2. u.pos \in 0..35
    <3>1. u.pos \in 0..53 /\ u.pos < 36
        BY <1>2, <1>3, <1>10, LensAre DEF Ready, Typed, GetLen
    <3> QED
        BY <3>1, LastPos
  <2>3. ~u.setRegs
      BY <1>3, <1>10
  <2>4. CASE NextKind = "WR"
    <3>1. InGet(u)
      <4>1. z.todo # <<>>
          BY <1>1, <2>4, NextKindIs
      <4> QED
          BY <2>1, <4>1
    <3> QED
        BY <1>4, <1>8, <2>3, <2>4, <3>1, ShowGoes
  <2>5. CASE NextKind # "WR" /\ u.pos < 35
      BY <1>4, <1>8, <2>1, <2>2, <2>3, <2>5, GetGoes
  <2>6. CASE NextKind # "WR" /\ ~(u.pos < 35)
    <3>1. u.pos = 35
        BY <2>2, <2>6, LastPos
    <3>2. InGet(u)
        BY <2>1, <3>1, LastPos
    <3>3. z.code = "GET" /\ GetLeaves(35, z.todo) /\ u.copyPC = z.pc /\ Shows(35, z.todo, u.second, u.known)
        BY <3>1, <3>2 DEF InGet
    <3>4. z.todo # <<>>
        BY <3>3, Tails DEF GetLeaves
    <3>5. Tail(z.todo) = <<>> /\ Head(z.todo) # "WR"
      <4>1. 35 \in 1..35
          OBVIOUS
      <4> QED
          BY <3>3, <3>4, <4>1, GetGoesOn
    <3>6. u.known = Registers
      <4>1. z.todo # <<"WR">> /\ z.todo # <<"WR", "WR">>
          BY <3>5, Tails
      <4>2. Shown(35) \subseteq u.known
          BY <3>3, <4>1 DEF Shows
      <4>3. u.known \in SUBSET Registers
          BY <1>2 DEF Ready, Typed
      <4> QED
          BY <4>2, <4>3, AllShown
    <3>7. ~(u.pos < GetLen - 1)
        BY <2>6, LensAre
    <3>8. IsRec(t') /\ GetLast(u, t')
        BY <1>2, <1>4, <2>3, <2>6, <3>7, InjectsGet
    <3>9. LastOf(u, t', "GET")
        BY <1>2, <3>8, Lasts DEF Ready
    <3>10. u.pos + 1 = SnippetLen["GET"]
      <4>1. 35 + 1 = 36
          OBVIOUS
      <4> QED
          BY <3>1, <4>1, LensAre
    <3> QED
        BY <1>8, <2>6, <3>3, <3>4, <3>5, <3>6, <3>8, <3>9, <3>10, Ends
  <2> QED
      BY <2>4, <2>5, <2>6
<1> QED
    BY <1>9, <1>10

\* A cycle that an injection begins with keeps the invariant.
LEMMA AskOpens ==
    ASSUME Starts, t.on, t.acq = "INJECT_IF_NEW_INSTR", Opens(t')
    PROVE  TrackerInv'
<1>1. TrackerInv /\ ~cyc.busy /\ PrefixesLead /\ Types
    BY DEF Starts, TrackerInv
<1>2. /\ Ready(u) /\ Same(t, u, {"pagedOut", "pageInDue", "code", "pos0"})
    BY <1>1, AskedIs
<1>3. z.todo = <<>>
    BY DEF Opens
<1>4. PICK v : Opened(v) /\ t' = HandleInjection(v, NextKind, z.pc)
    BY DEF Opens
<1>5. /\ v.on = t.on /\ v.hold = t.hold /\ v.second = t.second /\ v.disablePending = t.disablePending
      /\ v.copyPC = t.copyPC /\ v.known = t.known /\ v.busrq = t.busrq
    BY <1>2, <1>4 DEF Opened, Same, Fields
<1>6. t.busrq = {}
    BY <1>3 DEF Starts, BusMayBeGranted, AtItsEnd
<1>7. ~t.hold /\ z.code = "PROG"
    BY <1>1 DEF TrackerInv, Stopped, AtStop, Place, Off, Eating
<1>8. Base(v)
    BY <1>4, <1>5, <1>6, <1>7 DEF Base, Opened
<1>9. NextKind # "WR"
    BY <1>1, <1>3, NextKindIs
<1>10. ~v.setRegs /\ v.pos = 0
    BY <1>4 DEF Opened
<1>11. v.pos \in 0..35 /\ v.pos < 35
    BY <1>10, LastPos
<1> QED
    BY <1>3, <1>4, <1>7, <1>8, <1>9, <1>10, <1>11, GetGoes

\* The answer leaves the cycle to the program
LEMMA Rest ==
    ASSUME Starts, z.code = "PROG", IsRec(t'), Typed(t'), t'.code = "PROG"
    PROVE  /\ NextKind = "PFX" \/ ~(Left' # <<>> /\ IsM1(Head(Left')))
           /\ Left' = <<>> => NextKind # "PFX"
           /\ Types' /\ cyc'.busy = TRUE /\ cyc'.code = "PROG" /\ cyc'.kind = NextKind /\ NextKind' = NextKind
           /\ Eating' = "PROG" /\ Left = z.todo
<1>1. Types /\ PrefixesLead /\ z.pc \in Addr /\ z.todo \in Seq(Kind) /\ WellPrefixed(z.todo)
    BY DEF Starts, TrackerInv, Types, Z80Types
<1>2. /\ Types' /\ cyc'.busy = TRUE /\ cyc'.code = "PROG" /\ cyc'.kind = NextKind /\ NextKind' = NextKind
      /\ Eating' = "PROG" /\ Left = z.todo
      /\ z.todo # <<>> => Left' = Tail(z.todo)
      /\ z.todo = <<>> => Left' = Tail(Program[z.pc])
    BY StartTypes
<1>3. PICK q \in Seq(Kind) : q # <<>> /\ WellPrefixed(q) /\ Left' = Tail(q) /\ NextKind = Head(q)
  <2>1. CASE z.todo = <<>>
      BY <1>1, <1>2, <2>1, Instruction, NextKindIs
  <2>2. CASE z.todo # <<>>
      BY <1>1, <1>2, <2>2, NextKindIs
  <2> QED
      BY <2>1, <2>2
<1>4. /\ Tail(q) # <<>> /\ IsM1(Head(Tail(q))) => Head(q) = "PFX"
      /\ Tail(q) = <<>> => Head(q) # "PFX"
    BY <1>3, RestOf
<1> QED
    BY <1>2, <1>3, <1>4

Plain(n) == /\ n.code = "PROG" /\ ~n.pagedOut /\ ~n.outActive /\ ~n.setRegs /\ n.pos = 0
            /\ n.acq # "INJECTING" /\ (n.acq = "POST_INJECT" => ~n.on) /\ "MIRROR" \notin n.busrq
\* The types of a cycle that passes
LEMMA Plainly ==
    ASSUME Starts, z.code = "PROG", IsRec(t'), Typed(t'), Plain(t')
    PROVE  Fits' /\ Place' /\ Behind' /\ Answer' /\ Seen' /\ Paging' /\ Requests'
<1>1. /\ cyc'.busy = TRUE /\ cyc'.code = "PROG" /\ cyc'.kind = NextKind /\ NextKind' = NextKind /\ Eating' = "PROG"
    BY Rest DEF Plain
<1>2. z' = z
    BY DEF Starts
<1>3. Fits'
    BY <1>1, <1>2 DEF Fits
<1>4. Place' /\ Behind' /\ Answer' /\ Seen'
    BY <1>1 DEF Plain, Place, Off, Behind, Answer, Seen
<1>5. Paging' /\ Requests'
    BY <1>1 DEF Plain, Paging, Requests
<1> QED
    BY <1>3, <1>4, <1>5

-----------------------------------------------------------------------------
\* Outside an injection the Z80 runs the program, with its memory paged in.
LEMMA OutsideIs ==
    ASSUME TrackerInv, ~cyc.busy, t.acq # "INJECTING"
    PROVE  /\ z.code = "PROG" /\ ~t.setRegs /\ ~t.outActive /\ t.pos = 0 /\ ~t.hold
           /\ "MIRROR" \notin t.busrq /\ ~t.pagedOut /\ Left = z.todo
BY DEF TrackerInv, Place, Off, Eating, Stopped, AtStop, Requests, Paging, Left, Types, Typed

\* Fields that an answer of the program's own leaves alone
LEMMA AskPasses ==
    ASSUME Starts, t.on, t.acq = "INJECT_IF_NEW_INSTR", Passes(t')
    PROVE  TrackerInv'
<1>1. TrackerInv /\ ~cyc.busy /\ PrefixesLead /\ Types
    BY DEF Starts, TrackerInv
<1>2. /\ Ready(u) /\ Same(t, u, {"pagedOut", "pageInDue", "code", "pos0"})
      /\ u.code = "PROG" /\ u.pos0 = 0 /\ u.pagedOut = t.outActive
    BY <1>1, AskedIs
<1>3. /\ z.code = "PROG" /\ ~t.setRegs /\ ~t.outActive /\ t.pos = 0 /\ ~t.hold
      /\ "MIRROR" \notin t.busrq
    BY <1>1, OutsideIs
<1>4. IsRec(t') /\ Same(u, t', {"pfx"}) /\ t'.pfx = (NextKind = "PFX") /\ (t.mode = "INTO" => ~IsM1(NextKind) \/ t.pfx)
    BY DEF Passes
<1>5. /\ t'.on = t.on /\ t'.hold = t.hold /\ t'.acq = t.acq /\ t'.mode = t.mode /\ t'.setRegs = t.setRegs
      /\ t'.pos = t.pos /\ t'.second = t.second /\ t'.disablePending = t.disablePending
      /\ t'.resetPending = t.resetPending /\ t'.outActive = t.outActive /\ t'.mirrorDue = t.mirrorDue
      /\ t'.overPC = t.overPC /\ t'.copyPC = t.copyPC /\ t'.known = t.known /\ t'.reading = t.reading
      /\ t'.busrq = t.busrq
  <2>1. \A f \in Fields \ {"pagedOut", "pageInDue", "code", "pos0", "pfx"} : t'[f] = t[f]
      BY <1>2, <1>4 DEF Same
  <2>2. t'.on = t.on /\ t'.hold = t.hold /\ t'.acq = t.acq /\ t'.mode = t.mode /\ t'.setRegs = t.setRegs
      BY <2>1 DEF Fields
  <2>3. /\ t'.pos = t.pos /\ t'.second = t.second /\ t'.disablePending = t.disablePending
        /\ t'.resetPending = t.resetPending /\ t'.outActive = t.outActive /\ t'.mirrorDue = t.mirrorDue
      BY <2>1 DEF Fields
  <2>4. /\ t'.overPC = t.overPC /\ t'.copyPC = t.copyPC /\ t'.known = t.known /\ t'.reading = t.reading
        /\ t'.busrq = t.busrq
      BY <2>1 DEF Fields
  <2> QED
      BY <2>2, <2>3, <2>4
<1>6. t'.code = "PROG" /\ t'.pos0 = 0 /\ t'.pagedOut = u.pagedOut /\ t'.pageInDue = u.pageInDue
    BY <1>2, <1>4 DEF Same, Fields
<1>7. Typed(t')
  <2>1. t'.pfx \in BOOLEAN
      BY <1>4, Zenon
  <2>2. t'.code = u.code /\ t'.pos0 = u.pos0
      BY <1>2, <1>6
  <2>3. /\ u.code \in Code /\ u.pos0 \in -1..(SetLen - 1) /\ u.pagedOut \in BOOLEAN /\ u.pageInDue \in BOOLEAN
      BY <1>2 DEF Ready, Typed
  <2>4. Typed(t)
      BY <1>1 DEF Types
  <2> QED
      BY <1>5, <1>6, <2>1, <2>2, <2>3, <2>4, Zenon DEF Typed
<1>8. Plain(t')
    BY <1>2, <1>3, <1>5, <1>6 DEF Plain
<1>9. /\ NextKind = "PFX" \/ ~(Left' # <<>> /\ IsM1(Head(Left')))
      /\ Left' = <<>> => NextKind # "PFX"
      /\ Types' /\ cyc'.busy = TRUE /\ Left = z.todo
    BY <1>3, <1>4, <1>6, <1>7, Rest
<1>10. Prefix'
    BY <1>4, <1>5, <1>9 DEF Prefix
<1>11. Switched' /\ Stopped'
    BY <1>1, <1>3, <1>5 DEF Switched, Stopped, TrackerInv
<1>12. Stepping'
  <2>1. SUFFICES ASSUME stepping PROVE Stepping'
      BY DEF Stepping, Starts
  <2>2. ran = 1 /\ ~t.disablePending /\ t.mode = "INTO" /\ (Left = <<>> => ~t.pfx)
      BY <1>1, <2>1, StepsAre
  <2>3. z.todo # <<>>
    <3>1. z.todo = <<>> => IsM1(NextKind)
        BY <1>1, NextKindIs
    <3> QED
        BY <1>4, <1>9, <2>2, <3>1
  <2>4. z'.todo # <<>> /\ ran' = ran
      BY <2>3 DEF Starts
  <2> QED
      BY <1>3, <1>4, <1>5, <1>9, <2>2, <2>4 DEF Stepping
<1> QED
    BY <1>3, <1>4, <1>7, <1>8, <1>9, <1>10, <1>11, <1>12, Plainly DEF TrackerInv

\* A cycle that passes with a look at the next one keeps the invariant.
LEMMA AskAwaits ==
    ASSUME Starts, t.on, t.acq = "NONE", Awaits(t')
    PROVE  TrackerInv'
<1>1. TrackerInv /\ ~cyc.busy /\ PrefixesLead /\ Types
    BY DEF Starts, TrackerInv
<1>2. /\ Ready(u) /\ Same(t, u, {"pagedOut", "pageInDue", "code", "pos0"})
      /\ u.code = "PROG" /\ u.pos0 = 0 /\ u.pagedOut = t.outActive
    BY <1>1, AskedIs
<1>3. /\ z.code = "PROG" /\ ~t.setRegs /\ ~t.outActive /\ t.pos = 0 /\ ~t.hold
      /\ "MIRROR" \notin t.busrq
    BY <1>1, OutsideIs
<1>4. /\ IsRec(t') /\ Same(u, t', {"pfx", "acq", "mode"}) /\ t'.pfx = (NextKind = "PFX")
      /\ t'.acq = (IF IsM1(NextKind) THEN "INJECT_IF_NEW_INSTR" ELSE "NONE")
      /\ t'.mode \in {t.mode, "PAUSED"}
    BY DEF Awaits
<1>5. /\ t'.on = t.on /\ t'.hold = t.hold /\ t'.setRegs = t.setRegs
      /\ t'.pos = t.pos /\ t'.second = t.second /\ t'.disablePending = t.disablePending
      /\ t'.resetPending = t.resetPending /\ t'.outActive = t.outActive /\ t'.mirrorDue = t.mirrorDue
      /\ t'.overPC = t.overPC /\ t'.copyPC = t.copyPC /\ t'.known = t.known /\ t'.reading = t.reading
      /\ t'.busrq = t.busrq
  <2>1. \A f \in Fields \ {"pagedOut", "pageInDue", "code", "pos0", "pfx", "acq", "mode"} : t'[f] = t[f]
      BY <1>2, <1>4 DEF Same
  <2>2. t'.on = t.on /\ t'.hold = t.hold /\ t'.setRegs = t.setRegs
      BY <2>1 DEF Fields
  <2>3. /\ t'.pos = t.pos /\ t'.second = t.second /\ t'.disablePending = t.disablePending
        /\ t'.resetPending = t.resetPending /\ t'.outActive = t.outActive /\ t'.mirrorDue = t.mirrorDue
      BY <2>1 DEF Fields
  <2>4. /\ t'.overPC = t.overPC /\ t'.copyPC = t.copyPC /\ t'.known = t.known /\ t'.reading = t.reading
        /\ t'.busrq = t.busrq
      BY <2>1 DEF Fields
  <2> QED
      BY <2>2, <2>3, <2>4
<1>6. t'.code = "PROG" /\ t'.pos0 = 0 /\ t'.pagedOut = u.pagedOut /\ t'.pageInDue = u.pageInDue
    BY <1>2, <1>4 DEF Same, Fields
<1>7. Typed(t')
  <2>1. t'.pfx \in BOOLEAN
      BY <1>4, Zenon
  <2>2. t'.code = u.code /\ t'.pos0 = u.pos0
      BY <1>2, <1>6
  <2>3. /\ u.code \in Code /\ u.pos0 \in -1..(SetLen - 1) /\ u.pagedOut \in BOOLEAN /\ u.pageInDue \in BOOLEAN
      BY <1>2 DEF Ready, Typed
  <2>4. Typed(t)
      BY <1>1 DEF Types
  <2>5. t'.acq \in Acq
      BY <1>4 DEF Acq
  <2>6. t'.mode \in Mode
      BY <1>4, <2>4 DEF Typed, Mode
  <2> QED
      BY <1>5, <1>6, <2>1, <2>2, <2>3, <2>4, <2>5, <2>6, Zenon DEF Typed
<1>8. Plain(t')
    BY <1>2, <1>3, <1>4, <1>5, <1>6 DEF Plain
<1>9. /\ NextKind = "PFX" \/ ~(Left' # <<>> /\ IsM1(Head(Left')))
      /\ Left' = <<>> => NextKind # "PFX"
      /\ Types' /\ cyc'.busy = TRUE /\ Left = z.todo
    BY <1>3, <1>4, <1>6, <1>7, Rest
<1>10. Prefix'
    BY <1>4, <1>5, <1>9 DEF Prefix, IsM1
<1>11. Switched' /\ Stopped'
    BY <1>1, <1>3, <1>5 DEF Switched, Stopped, TrackerInv
<1>12. Stepping'
    BY <1>1, StepsAre DEF Starts, Stepping
<1> QED
    BY <1>3, <1>4, <1>7, <1>8, <1>9, <1>10, <1>11, <1>12, Plainly DEF TrackerInv

\* The first cycle behind an injection keeps the invariant.
LEMMA AskBehind ==
    ASSUME Starts, t.on, t.acq = "POST_INJECT", z.todo = <<>>, IF t.disablePending THEN GoesOff(t') ELSE Resumes(t')
    PROVE  TrackerInv'
<1>1. TrackerInv /\ ~cyc.busy /\ PrefixesLead /\ Types
    BY DEF Starts, TrackerInv
<1>2. /\ Ready(u) /\ Same(t, u, {"pagedOut", "pageInDue", "code", "pos0"})
      /\ u.code = "PROG" /\ u.pos0 = 0 /\ u.pagedOut = t.outActive
    BY <1>1, AskedIs
<1>3. /\ z.code = "PROG" /\ ~t.setRegs /\ ~t.outActive /\ t.pos = 0 /\ ~t.hold
      /\ "MIRROR" \notin t.busrq
    BY <1>1, OutsideIs
<1>4. IsRec(t') /\ Same(u, t', AtDisable \cup {"pfx", "acq"})
    BY DEF GoesOff, IsOff, Resumes, Same, AtDisable
<1>5. /\ t'.mode = t.mode /\ t'.setRegs = t.setRegs
      /\ t'.pos = t.pos /\ t'.second = t.second
      /\ t'.resetPending = t.resetPending /\ t'.mirrorDue = t.mirrorDue
      /\ t'.overPC = t.overPC /\ t'.copyPC = t.copyPC /\ t'.known = t.known /\ t'.reading = t.reading
      /\ t'.busrq = t.busrq
    BY <1>2, <1>4 DEF Same, Fields, AtDisable
<1>6. t'.code = "PROG" /\ t'.pos0 = 0 /\ t'.pagedOut = u.pagedOut
    BY <1>2, <1>4 DEF Same, Fields, AtDisable
<1>7. CASE t.disablePending
  <2>1. /\ t'.outActive = FALSE /\ t'.pageInDue = TRUE
        /\ t'.disablePending = FALSE /\ t'.on = FALSE /\ t'.hold = FALSE
      BY <1>7 DEF GoesOff, IsOff
  <2>2. t'.acq = t.acq /\ t'.pfx = t.pfx
      BY <1>2, <1>7 DEF GoesOff, IsOff, Same, Fields, AtDisable
  <2>3. Typed(t')
    <3>1. /\ t'.outActive \in BOOLEAN /\ t'.pageInDue \in BOOLEAN
          /\ t'.disablePending \in BOOLEAN /\ t'.on \in BOOLEAN /\ t'.hold \in BOOLEAN
        BY <2>1, Zenon
    <3>2. t'.code = u.code /\ t'.pos0 = u.pos0
        BY <1>2, <1>6
    <3>3. u.code \in Code /\ u.pos0 \in -1..(SetLen - 1) /\ u.pagedOut \in BOOLEAN
        BY <1>2 DEF Ready, Typed
    <3>4. Typed(t)
        BY <1>1 DEF Types
    <3> QED
        BY <1>5, <1>6, <2>2, <3>1, <3>2, <3>3, <3>4, Zenon DEF Typed
  <2>4. Plain(t')
      BY <1>2, <1>3, <1>5, <1>6, <2>1, <2>2 DEF Plain
  <2>5. Types'
      BY <1>3, <1>4, <1>6, <2>3, Rest
  <2>6. Prefix' /\ Switched' /\ Stopped'
      BY <2>1, <2>2 DEF Prefix, Switched, Stopped
  <2>7. Stepping'
      BY <1>1, <1>7, StepsAre DEF Starts, Stepping
  <2> QED
      BY <1>3, <1>4, <2>3, <2>4, <2>5, <2>6, <2>7, Plainly DEF TrackerInv
<1>8. CASE ~t.disablePending
  <2>1. t'.pfx = (NextKind = "PFX") /\ t'.acq = "INJECT_IF_NEW_INSTR" /\ t'.hold = (t.mode = "PAUSED")
      BY <1>8 DEF Resumes
  <2>2. /\ t'.on = t.on /\ t'.disablePending = t.disablePending /\ t'.outActive = t.outActive
        /\ t'.pageInDue = u.pageInDue
      BY <1>2, <1>8 DEF Resumes, Same, Fields
  <2>3. Typed(t')
    <3>1. t'.pfx \in BOOLEAN /\ t'.hold \in BOOLEAN
        BY <2>1, Zenon
    <3>2. t'.code = u.code /\ t'.pos0 = u.pos0
        BY <1>2, <1>6
    <3>3. u.code \in Code /\ u.pos0 \in -1..(SetLen - 1) /\ u.pagedOut \in BOOLEAN /\ u.pageInDue \in BOOLEAN
        BY <1>2 DEF Ready, Typed
    <3>4. Typed(t)
        BY <1>1 DEF Types
    <3>5. t'.acq \in Acq
        BY <2>1 DEF Acq
    <3> QED
        BY <1>5, <1>6, <2>2, <3>1, <3>2, <3>3, <3>4, <3>5, Zenon DEF Typed
  <2>4. Plain(t')
      BY <1>2, <1>3, <1>5, <1>6, <2>1, <2>2 DEF Plain
  <2>5. /\ NextKind = "PFX" \/ ~(Left' # <<>> /\ IsM1(Head(Left')))
        /\ Left' = <<>> => NextKind # "PFX"
        /\ Types' /\ cyc'.busy = TRUE /\ cyc'.code = "PROG" /\ Left = z.todo
      BY <1>3, <1>4, <1>6, <2>3, Rest
  <2>6. z' = z
      BY DEF Starts
  <2>7. Prefix'
      BY <2>1, <2>5 DEF Prefix
  <2>8. Switched'
      BY <1>8, <2>2 DEF Switched
  <2>9. AtStop'
    <3>1. ShownIsTrue
        BY <1>1 DEF TrackerInv, Behind
    <3>2. ShownIsTrue'
        BY <1>5, <2>6, <3>1 DEF ShownIsTrue
    <3> QED
        BY <1>3, <2>1, <2>5, <2>6, <3>2 DEF AtStop
  <2>10. Stopped'
      BY <2>9 DEF Stopped
  <2>11. Stepping'
    <3>1. SUFFICES ASSUME stepping PROVE Stepping'
        BY DEF Stepping, Starts
    <3>2. ran = 1 /\ ~t.disablePending /\ t.mode = "PAUSED"
        BY <1>1, <3>1, StepsAre
    <3>3. ran' = ran /\ t'.hold
        BY <2>1, <3>2 DEF Starts
    <3> QED
        BY <2>2, <3>2, <3>3 DEF Stepping
  <2> QED
      BY <1>3, <1>4, <2>3, <2>4, <2>5, <2>7, <2>8, <2>10, <2>11, Plainly DEF TrackerInv
<1> QED
    BY <1>7, <1>8

\* A cycle while the tracker is off keeps the invariant.
LEMMA NotAsked ==
    ASSUME Starts, ~t.on, t' = NoAnswer(t)
    PROVE  TrackerInv'
<1>1. TrackerInv /\ ~cyc.busy /\ PrefixesLead /\ Types /\ IsRec(t) /\ Typed(t)
    BY DEF Starts, TrackerInv, Types
<1>2. t.acq # "INJECTING"
    BY <1>1 DEF TrackerInv, Switched
<1>3. /\ z.code = "PROG" /\ ~t.setRegs /\ ~t.outActive /\ t.pos = 0 /\ ~t.hold /\ ~t.pagedOut
      /\ "MIRROR" \notin t.busrq
    BY <1>1, <1>2, OutsideIs
<1>4. t' = [t EXCEPT !.code = "PROG", !.pos0 = 0]
    BY DEF NoAnswer
<1>5. IsRec(t') /\ Same(t, t', {"code", "pos0"})
    BY <1>1, <1>4 DEF IsRec, Same
<1>6. t'.code = "PROG" /\ t'.pos0 = 0
    BY <1>1, <1>4 DEF IsRec, Fields
<1>7. /\ t'.on = t.on /\ t'.hold = t.hold /\ t'.acq = t.acq /\ t'.mode = t.mode /\ t'.setRegs = t.setRegs
      /\ t'.pos = t.pos /\ t'.second = t.second /\ t'.pfx = t.pfx /\ t'.disablePending = t.disablePending
      /\ t'.resetPending = t.resetPending /\ t'.outActive = t.outActive /\ t'.mirrorDue = t.mirrorDue
      /\ t'.overPC = t.overPC /\ t'.copyPC = t.copyPC /\ t'.known = t.known /\ t'.pagedOut = t.pagedOut
      /\ t'.pageInDue = t.pageInDue /\ t'.reading = t.reading /\ t'.busrq = t.busrq
    BY <1>5 DEF Same, Fields
<1>8. Typed(t')
  <2>1. t'.code \in Code /\ t'.pos0 \in -1..(SetLen - 1)
      BY <1>6 DEF Code, SetLen
  <2> QED
      BY <1>1, <1>7, <2>1, Zenon DEF Typed
<1>9. Plain(t')
    BY <1>2, <1>3, <1>6, <1>7 DEF Plain
<1>10. Types'
    BY <1>3, <1>5, <1>6, <1>8, Rest
<1>11. Prefix' /\ Switched' /\ Stopped'
    BY <1>1, <1>2, <1>3, <1>7 DEF Prefix, Switched, Stopped, TrackerInv
<1>12. Stepping'
    BY <1>1, StepsAre DEF Starts, Stepping
<1> QED
    BY <1>3, <1>5, <1>8, <1>9, <1>10, <1>11, <1>12, Plainly DEF TrackerInv

\* However a cycle begins, it keeps the invariant.
LEMMA StartCycleInv ==
    ASSUME TrackerInv, PrefixesLead, StartCycle
    PROVE  TrackerInv'
<1>1. Starts /\ t' = Answered
    BY DEF Starts, StartCycle
<1>2. CASE ~t.on
    BY <1>1, <1>2, NotAsked DEF Answered
<1>3. CASE t.on
  <2>1. t.acq \in Acq /\ ~cyc.busy
      BY <1>1 DEF Starts, TrackerInv, Types, Typed
  <2>2. CASE t.acq = "INJECTING"
      BY <1>1, <1>3, <2>2, AskInjecting
  <2>3. CASE t.acq = "INJECT_IF_NEW_INSTR"
      BY <1>1, <1>3, <2>1, <2>3, FromIfNew, AskOpens, AskPasses
  <2>4. CASE t.acq = "NONE"
      BY <1>1, <1>3, <2>1, <2>4, FromNone, AskAwaits
  <2>5. CASE t.acq = "POST_INJECT"
      BY <1>1, <1>3, <2>1, <2>5, FromPostInject, AskBehind
  <2> QED
      BY <2>1, <2>2, <2>3, <2>4, <2>5 DEF Acq
<1> QED
    BY <1>2, <1>3

-----------------------------------------------------------------------------
(* A cycle ends                                                            *)

\* What the end of a read cycle pages in
LEMMA ReadReleasedDoes ==
    ASSUME NEW s, IsRec(s), s.reading \in BOOLEAN
    PROVE  LET n == ReadReleased(s)
           IN  /\ IsRec(n) /\ Same(s, n, {"reading", "pagedOut", "pageInDue"})
               /\ n.reading = (s.reading \/ (cyc.code # "PROG" /\ cyc.kind # "WR"))
               /\ IF n.reading /\ s.pageInDue THEN n.pagedOut = FALSE /\ n.pageInDue = FALSE
                  ELSE n.pagedOut = s.pagedOut /\ n.pageInDue = s.pageInDue
<1> DEFINE r == [s EXCEPT !.reading = @ \/ (cyc.code # "PROG" /\ cyc.kind # "WR")]
           n == ReadReleased(s)
<1>1. IsRec(r) /\ Same(s, r, {"reading"})
    BY DEF IsRec, Same
<1>2. r.reading = (s.reading \/ (cyc.code # "PROG" /\ cyc.kind # "WR"))
    BY DEF IsRec, Fields
<1>3. n = IF r.reading THEN DoPageIn(r) ELSE r
    BY DEF ReadReleased
<1> HIDE DEF r, n
<1>4. r.pagedOut = s.pagedOut /\ r.pageInDue = s.pageInDue
    BY <1>1 DEF Same, Fields
<1>5. CASE r.reading
  <2>1. /\ IsRec(n) /\ Same(r, n, {"pagedOut", "pageInDue"})
        /\ n.pagedOut = (IF r.pageInDue THEN FALSE ELSE r.pagedOut)
        /\ n.pageInDue = (IF r.pageInDue THEN FALSE ELSE r.pageInDue)
      BY <1>1, <1>3, <1>5, DoPageInDoes
  <2>2. n.reading = r.reading
      BY <2>1 DEF Same, Fields
  <2>3. Same(s, n, {"reading", "pagedOut", "pageInDue"})
      BY <1>1, <2>1 DEF Same
  <2>4. n.reading = (s.reading \/ (cyc.code # "PROG" /\ cyc.kind # "WR"))
      BY <1>2, <2>2, Zenon
  <2>5. IF n.reading /\ s.pageInDue THEN n.pagedOut = FALSE /\ n.pageInDue = FALSE
        ELSE n.pagedOut = s.pagedOut /\ n.pageInDue = s.pageInDue
      BY <1>4, <1>5, <2>1, <2>2
  <2> QED
      BY <2>1, <2>3, <2>4, <2>5, Zenon DEF n
<1>6. CASE ~r.reading
  <2>1. n = r
      BY <1>3, <1>6
  <2>2. Same(s, n, {"reading", "pagedOut", "pageInDue"})
      BY <1>1, <2>1 DEF Same
  <2> QED
      BY <1>1, <1>2, <1>4, <1>6, <2>1, <2>2, Zenon DEF n
<1> QED
    BY <1>5, <1>6

\* The end of a cycle but for what the Z80 makes of it
Finishes == TrackerInv /\ PrefixesLead /\ Released /\ cyc' = Idle /\ stepping' = stepping

\* The kinds of cycles that are left
LEMMA RestKinds ==
    /\ \A p \in DOMAIN Get : Tail(Get[p]) \in Seq(Kind)
    /\ \A p \in DOMAIN Set : Tail(Set[p]) \in Seq(Kind)
<1>1. /\ <<>> \in Seq(Kind) /\ <<"WR">> \in Seq(Kind) /\ <<"WR", "WR">> \in Seq(Kind) /\ <<"M1">> \in Seq(Kind)
      /\ <<"M1", "WR", "WR">> \in Seq(Kind) /\ <<"RD">> \in Seq(Kind) /\ <<"RD", "RD">> \in Seq(Kind)
      /\ <<"M1", "RD", "RD">> \in Seq(Kind)
    BY DEF Kind
<1>2. ASSUME NEW p \in DOMAIN Get PROVE Tail(Get[p]) \in Seq(Kind)
  <2>1. CASE Get[p] = <<"M1", "WR", "WR">>
      BY <1>1, <2>1, Tails
  <2>2. CASE Get[p] = <<"M1", "WR">>
      BY <1>1, <2>2, Tails
  <2>3. CASE Get[p] = <<"M1">>
      BY <1>1, <2>3, Tails
  <2>4. CASE Get[p] = <<"PFX", "M1">>
      BY <1>1, <2>4, Tails
  <2>5. CASE Get[p] = <<"PFX", "M1", "WR", "WR">>
      BY <1>1, <2>5, Tails
  <2>6. CASE Get[p] = <<"M1", "RD">>
      BY <1>1, <2>6, Tails
  <2>7. CASE Get[p] = <<"M1", "RD", "RD">>
      BY <1>1, <2>7, Tails
  <2> QED
      BY <2>1, <2>2, <2>3, <2>4, <2>5, <2>6, <2>7, GetCycles
<1>3. ASSUME NEW p \in DOMAIN Set PROVE Tail(Set[p]) \in Seq(Kind)
  <2>1. CASE Set[p] = <<"M1">>
      BY <1>1, <2>1, Tails
  <2>2. CASE Set[p] = <<"PFX", "M1", "RD", "RD">>
      BY <1>1, <2>2, Tails
  <2>3. CASE Set[p] = <<"M1", "RD", "RD">>
      BY <1>1, <2>3, Tails
  <2>4. CASE Set[p] = <<"M1", "RD">>
      BY <1>1, <2>4, Tails
  <2>5. CASE Set[p] = <<"PFX", "M1">>
      BY <1>1, <2>5, Tails
  <2> QED
      BY <2>1, <2>2, <2>3, <2>4, <2>5, SetCycles
<1> QED
    BY <1>2, <1>3

\* The Z80 takes the cycle in as the tracker takes for granted.
Taken == /\ z'.todo = Left /\ z'.code = Eating
         /\ z' \in [pc : Addr, todo : Seq(Kind), code : Code] /\ (z'.code = "PROG" => WellPrefixed(z'.todo))
         /\ \/ z.todo = <<>> /\ cyc.code = "PROG" /\ z.code = "PROG" /\ ran' = (IF ran < 2 THEN ran + 1 ELSE 2)
               /\ t' = [ReadReleased(t) EXCEPT !.known = {}]
            \/ ran' = ran /\ t' = ReadReleased(t) /\ z'.pc = z.pc
               /\ ~(z.todo = <<>> /\ cyc.code = "PROG") /\ ~(z.code = "SET" /\ LastByte /\ cyc.code = "SET")
            \/ ran' = ran /\ t' = [ReadReleased(t) EXCEPT !.known = Registers] /\ z'.pc = t.copyPC
               /\ z.code = "SET" /\ LastByte /\ cyc.code = "SET" /\ z.todo # <<>>

\* How the Z80 takes the cycle in: every byte as what it was meant to be
LEMMA Takes ==
    ASSUME Finishes, OwnFetch \/ OwnCycle \/ InjectedFetch \/ InjectedCycle \/ Misfit
    PROVE  Taken
<1>1. /\ cyc.busy /\ Types /\ PrefixesLead /\ IsRec(t) /\ Typed(t) /\ Fits /\ Answer
    BY DEF Finishes, TrackerInv, Types, Released
<1>2. /\ z \in [pc : Addr, todo : Seq(Kind), code : Code] /\ cyc.code \in Code
      /\ (z.code = "PROG" => WellPrefixed(z.todo))
    BY <1>1 DEF Types, Z80Types
<1>3. Left = Tail(Eaten)
    BY <1>1 DEF Left
<1>4. CASE cyc.code = "PROG" /\ z.code = "PROG" /\ z.todo = <<>>
  <2>1. OwnFetch
      BY <1>4 DEF OwnCycle, InjectedFetch, InjectedCycle, Misfit
  <2>2. PICK a \in Succ[z.pc] : z' = [z EXCEPT !.pc = a, !.todo = Tail(Program[z.pc])]
      BY <2>1 DEF OwnFetch
  <2>3. a \in Addr
      BY <1>2, ProgramAssumption
  <2>4. Tail(Program[z.pc]) \in Seq(Kind) /\ WellPrefixed(Tail(Program[z.pc]))
      BY <1>1, <1>2, Instruction, RestOf
  <2>5. Left = Tail(Program[z.pc]) /\ Eating = "PROG"
      BY <1>1, <1>3, <1>4 DEF Eaten, Eating
  <2>6. z'.todo = Tail(Program[z.pc]) /\ z'.code = z.code /\ z' \in [pc : Addr, todo : Seq(Kind), code : Code]
      BY <1>2, <2>2, <2>3, <2>4
  <2> QED
      BY <1>4, <2>1, <2>4, <2>5, <2>6 DEF Taken, OwnFetch
<1>5. CASE cyc.code = "PROG" /\ z.code = "PROG" /\ z.todo # <<>>
  <2>1. OwnCycle
      BY <1>5 DEF OwnFetch, InjectedFetch, InjectedCycle, Misfit
  <2>2. z' = [z EXCEPT !.todo = Tail(@)] /\ t' = ReadReleased(t) /\ ran' = ran
      BY <2>1 DEF OwnCycle
  <2>3. Tail(z.todo) \in Seq(Kind) /\ WellPrefixed(Tail(z.todo))
      BY <1>2, <1>5, RestOf
  <2>4. Left = Tail(z.todo) /\ Eating = "PROG"
      BY <1>1, <1>3, <1>5 DEF Eaten, Eating
  <2>5. /\ z'.todo = Tail(z.todo) /\ z'.code = z.code /\ z'.pc = z.pc
        /\ z' \in [pc : Addr, todo : Seq(Kind), code : Code]
      BY <1>2, <2>2, <2>3
  <2> QED
      BY <1>5, <2>2, <2>3, <2>4, <2>5 DEF Taken
<1>6. CASE cyc.code # "PROG" /\ z.todo = <<>>
  <2>0. MayFetch
      BY <1>1, <1>6, Tails DEF Fits, Absorbs
  <2>1. InjectedFetch
      BY <1>6, <2>0 DEF OwnFetch, OwnCycle, InjectedCycle, Misfit
  <2>2. /\ z' = [z EXCEPT !.todo = Tail(Snippet[cyc.code][cyc.pos]), !.code = cyc.code]
        /\ t' = ReadReleased(t) /\ ran' = ran
      BY <2>1 DEF InjectedFetch
  <2>3. Tail(Snippet[cyc.code][cyc.pos]) \in Seq(Kind)
    <3>1. CASE cyc.code = "GET"
      <4>1. cyc.pos \in DOMAIN Get /\ Snippet[cyc.code] = Get
          BY <2>0, <3>1 DEF MayFetch, Snippet
      <4> QED
          BY <4>1, RestKinds
    <3>2. CASE cyc.code = "SET"
      <4>1. cyc.pos \in DOMAIN Set /\ Snippet[cyc.code] = Set
          BY <2>0, <3>2 DEF MayFetch, Snippet
      <4> QED
          BY <4>1, RestKinds
    <3> QED
        BY <1>2, <1>6, <3>1, <3>2 DEF Code
  <2>4. Left = Tail(Snippet[cyc.code][cyc.pos]) /\ Eating = cyc.code
      BY <1>1, <1>3, <1>6 DEF Eaten, Eating
  <2>5. /\ z'.todo = Tail(Snippet[cyc.code][cyc.pos]) /\ z'.code = cyc.code /\ z'.pc = z.pc
        /\ z' \in [pc : Addr, todo : Seq(Kind), code : Code]
      BY <1>2, <2>2, <2>3
  <2>6. ~LastByte
      BY <1>1, <1>6 DEF Answer
  <2> QED
      BY <1>6, <2>2, <2>4, <2>5, <2>6 DEF Taken
<1>7. CASE cyc.code # "PROG" /\ z.todo # <<>> /\ z.code = cyc.code
  <2>1. InjectedCycle
      BY <1>7 DEF OwnFetch, OwnCycle, InjectedFetch, Misfit
  <2>2. /\ z' = [pc   |-> IF LastByte /\ cyc.code = "SET" THEN t.copyPC ELSE z.pc,
                 todo |-> Tail(z.todo), code |-> IF LastByte THEN "PROG" ELSE z.code]
        /\ t' = [ReadReleased(t) EXCEPT !.known = IF LastByte /\ cyc.code = "SET" THEN Registers ELSE @]
        /\ ran' = ran
      BY <2>1 DEF InjectedCycle
  <2>3. /\ z'.pc = (IF LastByte /\ cyc.code = "SET" THEN t.copyPC ELSE z.pc) /\ z'.todo = Tail(z.todo)
        /\ z'.code = (IF LastByte THEN "PROG" ELSE z.code)
      BY <2>2
  <2>4. Left = Tail(z.todo) /\ Eating = z'.code
      BY <1>1, <1>3, <1>7, <2>3 DEF Eaten, Eating
  <2>5. Tail(z.todo) \in Seq(Kind)
      BY <1>2, <1>7, HeadTailProperties
  <2>6. z'.pc \in Addr
      BY <1>1, <1>2, <2>3 DEF Typed
  <2>7. z' \in [pc : Addr, todo : Seq(Kind), code : Code]
    <3>1. z'.code \in Code
        BY <1>2, <2>3 DEF Code
    <3> QED
        BY <2>2, <2>3, <2>5, <2>6, <3>1
  <2>8. z'.code = "PROG" => WellPrefixed(z'.todo)
    <3>1. LastByte => Left = <<>>
        BY <1>1, <1>7 DEF Answer
    <3> QED
        BY <1>7, <2>3, <2>4, <3>1, WritesOnly
  <2>9. CASE LastByte /\ cyc.code = "SET"
      BY <1>7, <2>2, <2>3, <2>4, <2>7, <2>8, <2>9 DEF Taken
  <2>10. CASE ~(LastByte /\ cyc.code = "SET")
    <3>1. t' = ReadReleased(t)
      <4>1. IsRec(ReadReleased(t))
          BY <1>1, ReadReleasedDoes DEF Typed
      <4>2. t' = [ReadReleased(t) EXCEPT !.known = @]
          BY <2>2, <2>10
      <4> QED
          BY <4>1, <4>2 DEF IsRec
    <3> QED
        BY <1>7, <2>2, <2>3, <2>4, <2>7, <2>8, <2>10, <3>1 DEF Taken
  <2> QED
      BY <2>9, <2>10
<1>8. CASE Absorbs
  <2>1. z.todo \in {<<"M1">>, <<"RD">>} /\ cyc.code = "SET" /\ cyc.pos = 0 /\ z.code = "PROG" /\ z.todo # <<>>
      BY <1>8, Tails DEF Absorbs
  <2>2. Misfit
      BY <2>1 DEF OwnFetch, OwnCycle, InjectedFetch, InjectedCycle
  <2>3. MayAbsorb
      BY <2>1 DEF MayAbsorb
  <2>4. Tail(z.todo) = <<>>
      BY <2>1, Tails
  <2>5. z' = [z EXCEPT !.todo = <<>>] /\ t' = ReadReleased(t) /\ ran' = ran
    <3>1. (IF IsM1(cyc.kind) THEN <<>> ELSE Tail(z.todo)) = <<>>
        BY <2>4
    <3> QED
        BY <2>2, <2>3, <3>1 DEF Misfit
  <2>6. Left = <<>> /\ Eating = "PROG"
      BY <1>1, <1>3, <2>1, <2>4 DEF Eaten, Eating
  <2>7. /\ z'.todo = <<>> /\ z'.code = "PROG" /\ z'.pc = z.pc
        /\ z' \in [pc : Addr, todo : Seq(Kind), code : Code]
      BY <1>2, <2>1, <2>5, WritesOnly
  <2> QED
      BY <2>1, <2>5, <2>6, <2>7, WritesOnly DEF Taken
<1> QED
    BY <1>1, <1>4, <1>5, <1>6, <1>7, <1>8 DEF Fits

-----------------------------------------------------------------------------
\* What the tracker makes of it
LEMMA TakenTracker ==
    ASSUME Finishes, Taken
    PROVE  /\ IsRec(t') /\ Typed(t')
           /\ t'.on = t.on /\ ~t'.hold /\ t'.acq = t.acq /\ t'.mode = t.mode /\ t'.setRegs = t.setRegs
           /\ t'.pos = t.pos /\ t'.second = t.second /\ t'.pfx = t.pfx /\ t'.disablePending = t.disablePending
           /\ t'.outActive = t.outActive /\ t'.copyPC = t.copyPC /\ t'.busrq = t.busrq
           /\ t'.pagedOut = t'.outActive /\ (t'.outActive => ~t'.pageInDue)
           /\ \/ z.todo = <<>> /\ cyc.code = "PROG" /\ z.code = "PROG"
              \/ t'.known = t.known /\ z'.pc = z.pc
              \/ /\ t'.known = Registers /\ z'.pc = t.copyPC
                 /\ z.code = "SET" /\ LastByte /\ cyc.code = "SET" /\ z.todo # <<>>
           /\ z.code = "GET" => z'.pc = z.pc
<1> DEFINE r == ReadReleased(t)
<1>1. /\ cyc.busy /\ ~t.hold /\ IsRec(t) /\ Typed(t) /\ Paging /\ cyc.code \in Code
    BY DEF Finishes, TrackerInv, Types, Z80Types, Released
<1>2. /\ IsRec(r) /\ Same(t, r, {"reading", "pagedOut", "pageInDue"})
      /\ r.reading = (t.reading \/ (cyc.code # "PROG" /\ cyc.kind # "WR"))
      /\ IF r.reading /\ t.pageInDue THEN r.pagedOut = FALSE /\ r.pageInDue = FALSE
         ELSE r.pagedOut = t.pagedOut /\ r.pageInDue = t.pageInDue
  <2>1. t.reading \in BOOLEAN
      BY <1>1 DEF Typed
  <2> QED
      BY <1>1, <2>1, ReadReleasedDoes, Zenon
<1> HIDE DEF r
<1>3. t' \in {r, [r EXCEPT !.known = {}], [r EXCEPT !.known = Registers]}
    BY DEF Taken, r
<1>4. IsRec(t') /\ Same(r, t', {"known"})
    BY <1>2, <1>3 DEF IsRec, Same
<1>5. Same(t, t', {"reading", "pagedOut", "pageInDue", "known"})
    BY <1>2, <1>4 DEF Same
<1>6. /\ t'.on = t.on /\ t'.hold = t.hold /\ t'.acq = t.acq /\ t'.mode = t.mode /\ t'.setRegs = t.setRegs
      /\ t'.pos = t.pos /\ t'.second = t.second /\ t'.pfx = t.pfx /\ t'.disablePending = t.disablePending
      /\ t'.resetPending = t.resetPending /\ t'.outActive = t.outActive /\ t'.mirrorDue = t.mirrorDue
      /\ t'.overPC = t.overPC /\ t'.copyPC = t.copyPC /\ t'.busrq = t.busrq /\ t'.code = t.code /\ t'.pos0 = t.pos0
    BY <1>5 DEF Same, Fields
<1>7. t'.reading = r.reading /\ t'.pagedOut = r.pagedOut /\ t'.pageInDue = r.pageInDue
    BY <1>4 DEF Same, Fields
<1>8. r.known = t.known
    BY <1>2 DEF Same, Fields
<1>9. t'.known \in {t.known, {}, Registers}
    BY <1>2, <1>3, <1>8 DEF IsRec, Fields
<1>10. Typed(t')
  <2>1. t'.reading \in BOOLEAN
      BY <1>1, <1>2, <1>7, Zenon DEF Typed
  <2>2. t'.pagedOut \in BOOLEAN /\ t'.pageInDue \in BOOLEAN
      BY <1>1, <1>2, <1>7, Zenon DEF Typed
  <2>3. t'.known \in SUBSET Registers
      BY <1>1, <1>9 DEF Typed
  <2> QED
      BY <1>1, <1>6, <2>1, <2>2, <2>3, Zenon DEF Typed
<1>11. t'.pagedOut = t'.outActive /\ (t'.outActive => ~t'.pageInDue)
  <2>1. /\ t.outActive \in BOOLEAN /\ t.pagedOut \in BOOLEAN /\ t.pageInDue \in BOOLEAN
      BY <1>1 DEF Typed
  <2>2. /\ cyc.code # "PROG" => t.pagedOut /\ (t.outActive \/ (t.pageInDue /\ cyc.kind # "WR"))
        /\ cyc.code = "PROG" => ~t.pagedOut /\ ~t.outActive
        /\ t.outActive => ~t.pageInDue
      BY <1>1 DEF Paging
  <2>3. cyc.code # "PROG" /\ ~t.outActive => r.reading /\ t.pageInDue
      BY <1>2, <2>2, Zenon
  <2>4. r.pagedOut = t.outActive /\ (t.outActive => ~r.pageInDue)
      BY <1>2, <2>1, <2>2, <2>3, Zenon
  <2> QED
      BY <1>6, <1>7, <2>4, Zenon
<1>12. t' = r => t'.known = t.known
    BY <1>8
<1>13. t' = [r EXCEPT !.known = Registers] => t'.known = Registers
    BY <1>2 DEF IsRec, Fields
<1>14. \/ z.todo = <<>> /\ cyc.code = "PROG" /\ z.code = "PROG"
       \/ t'.known = t.known /\ z'.pc = z.pc
       \/ /\ t'.known = Registers /\ z'.pc = t.copyPC
          /\ z.code = "SET" /\ LastByte /\ cyc.code = "SET" /\ z.todo # <<>>
    BY <1>12, <1>13 DEF Taken, r
<1>15. z.code = "GET" => z'.pc = z.pc
    BY DEF Taken
<1> QED
    BY <1>1, <1>4, <1>6, <1>10, <1>11, <1>14, <1>15

\* However a cycle ends, it keeps the invariant.
LEMMA EndCycleInv ==
    ASSUME TrackerInv, PrefixesLead, EndCycle
    PROVE  TrackerInv'
<1>1. Finishes
    BY DEF Finishes, EndCycle
<1>2. Taken
    BY <1>1, Takes DEF EndCycle
<1>3. /\ IsRec(t') /\ Typed(t')
      /\ t'.on = t.on /\ ~t'.hold /\ t'.acq = t.acq /\ t'.mode = t.mode /\ t'.setRegs = t.setRegs
      /\ t'.pos = t.pos /\ t'.second = t.second /\ t'.pfx = t.pfx /\ t'.disablePending = t.disablePending
      /\ t'.outActive = t.outActive /\ t'.copyPC = t.copyPC /\ t'.busrq = t.busrq
      /\ t'.pagedOut = t'.outActive /\ (t'.outActive => ~t'.pageInDue)
    BY <1>1, <1>2, TakenTracker
<1>4. /\ \/ z.todo = <<>> /\ cyc.code = "PROG" /\ z.code = "PROG"
         \/ t'.known = t.known /\ z'.pc = z.pc
         \/ /\ t'.known = Registers /\ z'.pc = t.copyPC
            /\ z.code = "SET" /\ LastByte /\ cyc.code = "SET" /\ z.todo # <<>>
      /\ z.code = "GET" => z'.pc = z.pc
    BY <1>1, <1>2, TakenTracker
<1>5. cyc.busy /\ ~t.hold /\ ~cyc'.busy /\ Left' = Left /\ Eating' = Eating
    BY <1>1, <1>2 DEF Finishes, Released, Idle, Taken, Left, Eating
<1>6. Types'
  <2>1. cyc' \in [busy : BOOLEAN, kind : Kind, code : Code, pos : -1..SetLen - 1]
    <3>1. 0 \in -1..SetLen - 1 /\ "M1" \in Kind /\ "PROG" \in Code
        BY DEF Kind, Code, SetLen
    <3> QED
        BY <1>1, <3>1 DEF Finishes, Idle
  <2> QED
      BY <1>2, <1>3, <2>1 DEF Types, Z80Types, Taken
<1>7. Fits' /\ Answer'
    BY <1>5 DEF Fits, Answer
\* The program's own opcode fetch is not that of an injection.
<1>8. z.todo = <<>> /\ cyc.code = "PROG" /\ z.code = "PROG" => t.acq # "INJECTING" /\ Eating = "PROG"
    BY <1>5 DEF TrackerInv, Answer, Eating
<1>9. t.acq = "INJECTING" => GetOn \/ SetFrom1 \/ SetOn
    BY <1>5 DEF TrackerInv, Place, GetFrom0, SetFrom0
<1>10. GetOn => z'.pc = z.pc /\ t'.known = t.known
  <2>1. SUFFICES ASSUME GetOn PROVE z'.pc = z.pc /\ t'.known = t.known
      OBVIOUS
  <2>2. Eating = "GET"
      BY <2>1 DEF GetOn
  <2>3. ~(z.todo = <<>> /\ cyc.code = "PROG" /\ z.code = "PROG")
      BY <1>8, <2>2
  <2>4. ~(z.code = "SET" /\ LastByte /\ z.todo # <<>>)
      BY <1>5, <2>2 DEF Eating
  <2> QED
      BY <1>4, <2>3, <2>4
<1>11. Place'
  <2>1. CASE t.acq = "INJECTING"
    <3>1. CASE GetOn
      <4>1. GetOn'
          BY <1>3, <1>5, <1>10, <3>1 DEF GetOn
      <4> QED
          BY <1>3, <2>1, <4>1 DEF Place
    <3>2. CASE SetFrom1
      <4>1. SetFrom1'
          BY <1>3, <1>5, <3>2 DEF SetFrom1
      <4> QED
          BY <1>3, <2>1, <4>1 DEF Place
    <3>3. CASE SetOn
      <4>1. SetOn'
          BY <1>3, <1>5, <3>3 DEF SetOn
      <4> QED
          BY <1>3, <2>1, <4>1 DEF Place
    <3> QED
        BY <1>9, <2>1, <3>1, <3>2, <3>3
  <2>2. CASE t.acq # "INJECTING"
    <3>1. Off'
        BY <1>3, <1>5, <2>2 DEF TrackerInv, Place, Off
    <3> QED
        BY <1>3, <2>2, <3>1 DEF Place
  <2> QED
      BY <2>1, <2>2
<1>12. Behind'
  <2>1. SUFFICES ASSUME t.acq = "POST_INJECT", t.on PROVE Behind'
      BY <1>3 DEF Behind
  <2>2. /\ Left = <<>> /\ ~t.pfx /\ cyc.code # "PROG" /\ LastByte
        /\ ShownIsTrue \/ cyc.code = "SET"
      BY <1>5, <2>1 DEF TrackerInv, Behind
  <2>3. z.code = cyc.code /\ z.todo # <<>>
      BY <1>5, <2>1, <2>2 DEF TrackerInv, Answer
  <2>4. ShownIsTrue'
    <3>1. CASE cyc.code = "SET"
      <4>1. t'.known = Registers /\ z'.pc = t.copyPC
        <5>1. ~(z.todo = <<>> /\ cyc.code = "PROG")
            BY <2>3
        <5>2. t' = [ReadReleased(t) EXCEPT !.known = Registers] /\ z'.pc = t.copyPC
            BY <1>2, <2>2, <2>3, <3>1 DEF Taken
        <5>3. IsRec(ReadReleased(t))
            BY ReadReleasedDoes DEF TrackerInv, Types, Typed
        <5>4. t'.known = Registers
            BY <5>2, <5>3 DEF IsRec, Fields
        <5> QED
            BY <5>2, <5>4
      <4> QED
          BY <1>3, <4>1 DEF ShownIsTrue
    <3>2. CASE cyc.code # "SET"
        BY <1>3, <1>4, <2>2, <2>3, <3>2 DEF ShownIsTrue
    <3> QED
        BY <3>1, <3>2
  <2> QED
      BY <1>3, <1>5, <2>2, <2>4 DEF Behind
<1>13. Seen'
  <2>1. SUFFICES ASSUME t.acq = "INJECTING", t.pos > 0, ~t.setRegs PROVE Shows(t.pos, Left, t.second, t'.known)
      BY <1>3, <1>5 DEF Seen, Shows
  <2>2. GetOn
      BY <1>9, <2>1 DEF SetFrom1, SetOn
  <2> QED
      BY <1>10, <2>1, <2>2 DEF TrackerInv, Seen, Shows
<1>14. Prefix' /\ Switched' /\ Stopped'
    BY <1>3, <1>5 DEF TrackerInv, Prefix, Switched, Stopped
<1>15. Paging' /\ Requests'
    BY <1>3, <1>5 DEF TrackerInv, Paging, Requests
<1>16. Stepping'
  <2>1. SUFFICES ASSUME stepping PROVE Stepping'
      BY <1>1 DEF Finishes, Stepping
  <2>2. /\ t.on /\ ~t.disablePending
        /\ \/ /\ t.acq = "INJECT_IF_NEW_INSTR" /\ t.mode = "INTO" /\ (Left = <<>> => ~t.pfx)
              /\ ran = IF z.todo = <<>> THEN 0 ELSE 1
           \/ t.acq = "INJECTING" /\ t.mode \in {"INTO", "PAUSED"} /\ ran = 1
           \/ t.acq = "POST_INJECT" /\ t.mode = "PAUSED" /\ ran = 1
      BY <1>5, <2>1 DEF TrackerInv, Stepping
  <2>3. CASE t.acq = "INJECT_IF_NEW_INSTR"
    <3>1. cyc.code = "PROG" /\ z.code = "PROG"
        BY <1>5, <2>3 DEF TrackerInv, Answer, Fits, Absorbs
    <3>2. ran' = 1
        BY <1>2, <2>2, <2>3, <3>1 DEF Taken
    <3> QED
        BY <1>3, <1>5, <2>2, <2>3, <3>2 DEF Stepping
  <2>4. CASE t.acq # "INJECT_IF_NEW_INSTR"
    <3>1. cyc.code # "PROG"
        BY <1>5, <2>2, <2>4 DEF TrackerInv, Answer, Behind
    <3>2. ran' = ran
        BY <1>2, <3>1 DEF Taken
    <3> QED
        BY <1>3, <2>2, <2>4, <3>2 DEF Stepping
  <2> QED
      BY <2>3, <2>4
<1> QED
    BY <1>6, <1>7, <1>11, <1>12, <1>13, <1>14, <1>15, <1>16 DEF TrackerInv

-----------------------------------------------------------------------------
(* Commands, and what else comes in between                                *)

\* Nothing of the cycle in progress changes with a command.
LEMMA StillThere ==
    ASSUME TrackerInv, z' = z, cyc' = cyc
    PROVE  Left' = Left /\ Eating' = Eating /\ (LastByte' <=> LastByte) /\ Fits' /\ Z80Types'
<1>1. Left' = Left /\ (LastByte' <=> LastByte)
    BY DEF Left, Eaten, LastByte
<1>2. Eating' = Eating
    BY <1>1 DEF Eating
<1>3. Fits'
    BY DEF TrackerInv, Fits, NextKind, MayFetch, Absorbs
<1>4. Z80Types'
    BY DEF TrackerInv, Types, Z80Types
<1> QED
    BY <1>1, <1>2, <1>3, <1>4

\* What a command does not change keeps what depends on it alone.
AtCommand == {"mode", "hold", "overPC", "mirrorDue", "resetPending", "busrq", "disablePending"}
LEMMA CommandKeeps ==
    ASSUME TrackerInv, z' = z, cyc' = cyc, IsRec(t'), Typed(t'), Same(t, t', AtCommand)
    PROVE  /\ Types' /\ Fits' /\ Place' /\ Behind' /\ Answer' /\ Seen' /\ Prefix' /\ Paging'
           /\ t'.on = t.on /\ t'.acq = t.acq /\ t'.pfx = t.pfx /\ t'.setRegs = t.setRegs /\ t'.pos = t.pos
           /\ t'.outActive = t.outActive /\ t'.known = t.known /\ t'.copyPC = t.copyPC
           /\ Left' = Left
<1>1. Left' = Left /\ Eating' = Eating /\ (LastByte' <=> LastByte) /\ Fits' /\ Z80Types'
    BY StillThere
<1>2. /\ t'.on = t.on /\ t'.acq = t.acq /\ t'.setRegs = t.setRegs /\ t'.pos = t.pos /\ t'.second = t.second
      /\ t'.pfx = t.pfx /\ t'.outActive = t.outActive /\ t'.copyPC = t.copyPC /\ t'.known = t.known
      /\ t'.pagedOut = t.pagedOut /\ t'.pageInDue = t.pageInDue
    BY DEF Same, Fields, AtCommand
<1>3. Place'
    BY <1>1, <1>2 DEF TrackerInv, Place, GetFrom0, GetOn, SetFrom0, SetFrom1, SetOn, Off
<1>4. Behind' /\ Answer'
    BY <1>1, <1>2 DEF TrackerInv, Behind, Answer, ShownIsTrue
<1>5. Seen' /\ Prefix' /\ Paging'
    BY <1>1, <1>2 DEF TrackerInv, Seen, Prefix, Paging
<1> QED
    BY <1>1, <1>2, <1>3, <1>4, <1>5 DEF Types

\* A step that changes none of the tracker's and the Z80's state
LEMMA UnchangedInv ==
    ASSUME TrackerInv, t' = t, z' = z, cyc' = cyc, stepping' = stepping, ran' = ran
    PROVE  TrackerInv'
<1>1. IsRec(t') /\ Typed(t') /\ Same(t, t', AtCommand)
    BY DEF TrackerInv, Types, Same
<1>2. /\ Types' /\ Fits' /\ Place' /\ Behind' /\ Answer' /\ Seen' /\ Prefix' /\ Paging' /\ Left' = Left
    BY <1>1, CommandKeeps
<1>3. Switched' /\ Stopped' /\ Requests' /\ Stepping'
    BY <1>2 DEF TrackerInv, Switched, Stopped, AtStop, ShownIsTrue, Requests, Stepping
<1> QED
    BY <1>2, <1>3 DEF TrackerInv

\* The mode changes and a hold is given up.
LEMMA ModeChanges ==
    ASSUME TrackerInv, z' = z, cyc' = cyc, NEW m \in Mode, NEW o \in Addr,
           t' = [t EXCEPT !.mode = m, !.hold = FALSE, !.overPC = o]
    PROVE  /\ Types' /\ Fits' /\ Place' /\ Behind' /\ Answer' /\ Seen' /\ Prefix' /\ Paging'
           /\ Switched' /\ Stopped' /\ Requests'
           /\ t'.on = t.on /\ ~t'.hold /\ t'.acq = t.acq /\ t'.mode = m /\ t'.pfx = t.pfx
           /\ t'.disablePending = t.disablePending /\ Left' = Left
<1>1. IsRec(t) /\ Typed(t)
    BY DEF TrackerInv, Types
<1>2. IsRec(t') /\ Same(t, t', {"mode", "hold", "overPC"})
    BY <1>1 DEF IsRec, Same
<1>3. t'.mode = m /\ t'.hold = FALSE /\ t'.overPC = o
    BY <1>1 DEF IsRec, Fields
<1>4. /\ t'.on = t.on /\ t'.acq = t.acq /\ t'.setRegs = t.setRegs
      /\ t'.pos = t.pos /\ t'.second = t.second /\ t'.pfx = t.pfx /\ t'.disablePending = t.disablePending
      /\ t'.resetPending = t.resetPending /\ t'.outActive = t.outActive /\ t'.mirrorDue = t.mirrorDue
      /\ t'.copyPC = t.copyPC /\ t'.known = t.known /\ t'.pagedOut = t.pagedOut
      /\ t'.pageInDue = t.pageInDue /\ t'.reading = t.reading /\ t'.busrq = t.busrq
      /\ t'.code = t.code /\ t'.pos0 = t.pos0
    BY <1>2 DEF Same, Fields
<1>5. Typed(t')
  <2>1. t'.hold \in BOOLEAN
      BY <1>3, Zenon
  <2> QED
      BY <1>1, <1>3, <1>4, <2>1, Zenon DEF Typed
<1>6. Same(t, t', AtCommand)
    BY <1>2 DEF Same, AtCommand
<1>7. /\ Types' /\ Fits' /\ Place' /\ Behind' /\ Answer' /\ Seen' /\ Prefix' /\ Paging' /\ Left' = Left
    BY <1>2, <1>5, <1>6, CommandKeeps
<1>8. Switched' /\ Stopped' /\ Requests'
    BY <1>3, <1>4 DEF TrackerInv, Switched, Stopped, Requests
<1> QED
    BY <1>3, <1>4, <1>7, <1>8

\* A step ordered at a stop keeps the invariant.
LEMMA StepIntoInv ==
    ASSUME TrackerInv, StepInto
    PROVE  TrackerInv'
<1>1. /\ t' = [t EXCEPT !.mode = "INTO", !.hold = FALSE] /\ z' = z /\ cyc' = cyc
      /\ stepping' = Held /\ ran' = 0
    BY DEF StepInto
<1>2. IsRec(t) /\ Typed(t)
    BY DEF TrackerInv, Types
<1>3. t' = [t EXCEPT !.mode = "INTO", !.hold = FALSE, !.overPC = t.overPC] /\ t.overPC \in Addr /\ "INTO" \in Mode
    BY <1>1, <1>2 DEF IsRec, Typed, Mode
<1>4. /\ Types' /\ Fits' /\ Place' /\ Behind' /\ Answer' /\ Seen' /\ Prefix' /\ Paging'
      /\ Switched' /\ Stopped' /\ Requests'
      /\ t'.on = t.on /\ ~t'.hold /\ t'.acq = t.acq /\ t'.mode = "INTO" /\ t'.pfx = t.pfx
      /\ t'.disablePending = t.disablePending /\ Left' = Left
    BY <1>1, <1>3, ModeChanges
<1>5. Stepping'
  <2>1. SUFFICES ASSUME Held PROVE Stepping'
      BY <1>1 DEF Stepping
  <2>2. AtStop /\ t.on /\ ~t.disablePending
      BY <1>2, <2>1 DEF Held, TrackerInv, Stopped, Switched, AtStop, Typed
  <2> QED
      BY <1>1, <1>4, <2>2 DEF Stepping, AtStop
<1> QED
    BY <1>4, <1>5 DEF TrackerInv

\* A command that sets the mode keeps the invariant.
LEMMA ModeInv ==
    ASSUME TrackerInv, StepRun \/ StepOver \/ CompleteTargetProgram
    PROVE  TrackerInv'
<1>1. z' = z /\ cyc' = cyc /\ stepping' = FALSE
    BY DEF StepRun, StepOver, CompleteTargetProgram
<1>2. IsRec(t) /\ Typed(t)
    BY DEF TrackerInv, Types
<1>3. \E m \in Mode, o \in Addr : t' = [t EXCEPT !.mode = m, !.hold = FALSE, !.overPC = o]
  <2>1. t.overPC \in Addr /\ After[t.copyPC] \in Addr
      BY <1>2, ProgramAssumption DEF Typed
  <2>2. CASE StepRun
    <3>1. t' = [t EXCEPT !.mode = "RUN", !.hold = FALSE, !.overPC = t.overPC] /\ "RUN" \in Mode
        BY <1>2, <2>2 DEF StepRun, IsRec, Mode
    <3> QED
        BY <2>1, <3>1
  <2>3. CASE StepOver
      BY <2>1, <2>3 DEF StepOver, Mode
  <2>4. CASE CompleteTargetProgram
    <3>1. t' = [t EXCEPT !.mode = "PAUSED", !.hold = FALSE, !.overPC = t.overPC] /\ "PAUSED" \in Mode
        BY <1>2, <2>4 DEF CompleteTargetProgram, IsRec, Mode
    <3> QED
        BY <2>1, <3>1
  <2> QED
      BY <2>2, <2>3, <2>4
<1>4. /\ Types' /\ Fits' /\ Place' /\ Behind' /\ Answer' /\ Seen' /\ Prefix' /\ Paging'
      /\ Switched' /\ Stopped' /\ Requests'
    BY <1>1, <1>3, ModeChanges
<1>5. Stepping'
    BY <1>1 DEF Stepping
<1> QED
    BY <1>4, <1>5 DEF TrackerInv

\* Switching the tracker off, at once or with the next cycle, keeps the invariant.
LEMMA TrackerOffInv ==
    ASSUME TrackerInv, TargetTrackerOff
    PROVE  TrackerInv'
<1> DEFINE s == [t EXCEPT !.mode = "PAUSED", !.hold = FALSE]
<1>1. z' = z /\ cyc' = cyc /\ stepping' = FALSE
    BY DEF TargetTrackerOff
<1>2. IsRec(t) /\ Typed(t)
    BY DEF TrackerInv, Types
<1>3. IsRec(s) /\ Same(t, s, {"mode", "hold"})
    BY <1>2 DEF IsRec, Same
<1>4. s.mode = "PAUSED" /\ s.hold = FALSE
    BY <1>2 DEF IsRec, Fields
<1>5. t' = IF DisableNow THEN [PageBackIn(s) EXCEPT !.on = FALSE] ELSE [s EXCEPT !.disablePending = TRUE]
    BY DEF TargetTrackerOff
<1> HIDE DEF s
<1>6. Stepping'
    BY <1>1 DEF Stepping
<1>7. CASE DisableNow
  <2> DEFINE b == PageBackIn(s)
  <2>1. IsRec(b) /\ Same(s, b, {"outActive", "pageInDue"}) /\ b.outActive = FALSE /\ b.pageInDue = TRUE
      BY <1>3, PageBackInDoes
  <2>2. t' = [b EXCEPT !.on = FALSE]
      BY <1>5, <1>7
  <2>3. b.mode = "PAUSED" /\ b.hold = FALSE
      BY <1>4, <2>1 DEF Same, Fields
  <2> HIDE DEF b
  <2>4. IsRec(t') /\ Same(b, t', {"on"})
      BY <2>1, <2>2 DEF IsRec, Same
  <2>5. t'.on = FALSE /\ t'.outActive = FALSE /\ t'.pageInDue = TRUE /\ t'.mode = "PAUSED" /\ t'.hold = FALSE
      BY <2>1, <2>2, <2>3 DEF IsRec, Fields
  <2>6. Same(t, t', {"mode", "hold", "outActive", "pageInDue", "on"})
      BY <1>3, <2>1, <2>4 DEF Same
  <2>7. /\ t'.acq = t.acq /\ t'.setRegs = t.setRegs
        /\ t'.pos = t.pos /\ t'.second = t.second /\ t'.pfx = t.pfx /\ t'.disablePending = t.disablePending
        /\ t'.resetPending = t.resetPending /\ t'.mirrorDue = t.mirrorDue /\ t'.overPC = t.overPC
        /\ t'.copyPC = t.copyPC /\ t'.known = t.known /\ t'.pagedOut = t.pagedOut
        /\ t'.reading = t.reading /\ t'.busrq = t.busrq /\ t'.code = t.code /\ t'.pos0 = t.pos0
      BY <2>6 DEF Same, Fields
  <2>8. Typed(t')
    <3>1. /\ t'.on \in BOOLEAN /\ t'.outActive \in BOOLEAN /\ t'.pageInDue \in BOOLEAN /\ t'.hold \in BOOLEAN
        BY <2>5, Zenon
    <3>2. t'.mode \in Mode
        BY <2>5 DEF Mode
    <3> QED
        BY <1>2, <2>7, <3>1, <3>2, Zenon DEF Typed
  <2>9. Left' = Left /\ Eating' = Eating /\ Fits' /\ Z80Types'
      BY <1>1, StillThere
  <2>10. t.acq # "INJECTING"
      BY <1>7 DEF DisableNow
  <2>11. Place'
      BY <2>5, <2>7, <2>9, <2>10 DEF TrackerInv, Place, Off
  <2>12. LastByte' <=> LastByte
      BY <1>1 DEF LastByte
  <2>13. Behind' /\ Answer' /\ Seen' /\ Prefix'
    <3>1. Answer'
        BY <1>1, <2>7, <2>9, <2>10, <2>12 DEF TrackerInv, Answer
    <3> QED
        BY <2>5, <2>7, <2>10, <3>1 DEF TrackerInv, Behind, Seen, Prefix
  <2>14. Switched' /\ Stopped' /\ Requests'
      BY <2>5, <2>7, <2>10 DEF TrackerInv, Switched, Stopped, Requests
  <2>15. Paging'
    <3>1. t.outActive = FALSE
      <4>1. ~t.outActive
          BY <2>10 DEF TrackerInv, Place, Off
      <4> QED
          BY <1>2, <4>1 DEF Typed
    <3> QED
        BY <1>1, <2>5, <2>7, <3>1 DEF TrackerInv, Paging
  <2> QED
      BY <1>6, <2>4, <2>8, <2>9, <2>11, <2>13, <2>14, <2>15 DEF TrackerInv, Types
<1>8. CASE ~DisableNow
  <2>1. t' = [s EXCEPT !.disablePending = TRUE]
      BY <1>5, <1>8
  <2>2. IsRec(t') /\ Same(s, t', {"disablePending"})
      BY <1>3, <2>1 DEF IsRec, Same
  <2>3. t'.disablePending = TRUE /\ t'.mode = "PAUSED" /\ t'.hold = FALSE
      BY <1>3, <1>4, <2>1 DEF IsRec, Fields
  <2>4. Same(t, t', {"mode", "hold", "disablePending"})
      BY <1>3, <2>2 DEF Same
  <2>5. /\ t'.on = t.on /\ t'.acq = t.acq /\ t'.setRegs = t.setRegs
        /\ t'.pos = t.pos /\ t'.second = t.second /\ t'.pfx = t.pfx
        /\ t'.resetPending = t.resetPending /\ t'.outActive = t.outActive /\ t'.mirrorDue = t.mirrorDue
        /\ t'.overPC = t.overPC /\ t'.copyPC = t.copyPC /\ t'.known = t.known /\ t'.pagedOut = t.pagedOut
        /\ t'.pageInDue = t.pageInDue /\ t'.reading = t.reading /\ t'.busrq = t.busrq
        /\ t'.code = t.code /\ t'.pos0 = t.pos0
      BY <2>4 DEF Same, Fields
  <2>6. Typed(t')
    <3>1. t'.disablePending \in BOOLEAN /\ t'.hold \in BOOLEAN
        BY <2>3, Zenon
    <3>2. t'.mode \in Mode
        BY <2>3 DEF Mode
    <3> QED
        BY <1>2, <2>5, <3>1, <3>2, Zenon DEF Typed
  <2>7. Same(t, t', AtCommand)
      BY <2>4 DEF Same, AtCommand
  <2>8. Types' /\ Fits' /\ Place' /\ Behind' /\ Answer' /\ Seen' /\ Prefix' /\ Paging'
      BY <1>1, <2>2, <2>6, <2>7, CommandKeeps
  <2>9. t.acq = "INJECTING"
      BY <1>8 DEF DisableNow
  <2>10. Switched' /\ Stopped' /\ Requests'
      BY <2>3, <2>5, <2>9 DEF TrackerInv, Switched, Stopped, Requests
  <2> QED
      BY <1>6, <2>8, <2>10 DEF TrackerInv
<1> QED
    BY <1>7, <1>8

\* Switched on between two instructions, the tracker does not take the end of one for a
\* beginning.
LEMMA TrackerOnInv ==
    ASSUME TrackerInv, PrefixesLead, Rule("REENABLE"), Rule("ENABLE_AFTER_STOP"), Rule("ENABLE_ANYTIME"),
           NEW reset \in BOOLEAN, TargetTrackerOn(reset)
    PROVE  TrackerInv'
<1>1. /\ z' = z /\ cyc' = cyc /\ stepping' = FALSE /\ ~t.on /\ t.acq # "POST_INJECT" /\ ~BetweenOpcodes
      /\ t' = [t EXCEPT !.on = TRUE, !.mode = "PAUSED", !.hold = FALSE, !.mirrorDue = TRUE,
                        !.resetPending = @ \/ reset]
    BY DEF TargetTrackerOn
<1>2. IsRec(t) /\ Typed(t)
    BY DEF TrackerInv, Types
<1>3. IsRec(t') /\ Same(t, t', {"on", "mode", "hold", "mirrorDue", "resetPending"})
    BY <1>1, <1>2 DEF IsRec, Same
<1>4. t'.on = TRUE /\ t'.mode = "PAUSED" /\ t'.hold = FALSE /\ t'.mirrorDue = TRUE
    BY <1>1, <1>2 DEF IsRec, Fields
<1>5. t'.resetPending = (t.resetPending \/ reset)
    BY <1>1, <1>2 DEF IsRec, Fields
<1>6. /\ t'.acq = t.acq /\ t'.setRegs = t.setRegs /\ t'.disablePending = t.disablePending
      /\ t'.pos = t.pos /\ t'.second = t.second /\ t'.pfx = t.pfx /\ t'.outActive = t.outActive
      /\ t'.overPC = t.overPC /\ t'.copyPC = t.copyPC /\ t'.known = t.known /\ t'.pagedOut = t.pagedOut
      /\ t'.pageInDue = t.pageInDue /\ t'.reading = t.reading /\ t'.busrq = t.busrq
      /\ t'.code = t.code /\ t'.pos0 = t.pos0
    BY <1>3 DEF Same, Fields
<1>7. Typed(t')
  <2>1. t'.on \in BOOLEAN /\ t'.hold \in BOOLEAN /\ t'.mirrorDue \in BOOLEAN
      BY <1>4, Zenon
  <2>2. t'.resetPending \in BOOLEAN
      BY <1>5, Zenon
  <2>3. t'.mode \in Mode
      BY <1>4 DEF Mode
  <2> QED
      BY <1>2, <1>6, <2>1, <2>2, <2>3, Zenon DEF Typed
<1>8. t.acq \in {"NONE", "INJECT_IF_NEW_INSTR"} /\ ~t.disablePending
    BY <1>1, <1>2 DEF TrackerInv, Switched, Typed, Acq
<1>9. Left' = Left /\ Eating' = Eating /\ (LastByte' <=> LastByte) /\ Fits' /\ Z80Types'
    BY <1>1, StillThere
<1>10. ~(Left # <<>> /\ IsM1(Head(Left)))
  <2>1. SUFFICES ASSUME Left # <<>>, IsM1(Head(Left)) PROVE FALSE
      OBVIOUS
  <2>2. CASE ~cyc.busy
    <3>1. Left = z.todo /\ z.todo \in Seq(Kind)
        BY <2>2 DEF Left, TrackerInv, Types, Z80Types
    <3>2. Head(z.todo) = z.todo[1]
        BY <2>1, <3>1
    <3> QED
        BY <1>1, <2>1, <3>1, <3>2 DEF BetweenOpcodes
  <2>3. CASE cyc.busy
    <3>1. cyc.code = "PROG"
        BY <1>8, <2>3 DEF TrackerInv, Answer
    <3>2. z.code = "PROG" /\ cyc.kind = NextKind
        BY <2>3, <3>1 DEF TrackerInv, Fits, Absorbs
    <3>3. z.pc \in Addr /\ z.todo \in Seq(Kind) /\ WellPrefixed(z.todo)
        BY <3>2 DEF TrackerInv, Types, Z80Types
    <3>4. PICK q \in Seq(Kind) : q # <<>> /\ WellPrefixed(q) /\ Left = Tail(q) /\ NextKind = Head(q)
      <4>1. CASE z.todo = <<>>
          BY <2>3, <3>1, <3>3, <4>1, Instruction DEF Left, Eaten, NextKind
      <4>2. CASE z.todo # <<>>
          BY <2>3, <3>1, <3>3, <4>2 DEF Left, Eaten, NextKind
      <4> QED
          BY <4>1, <4>2
    <3>5. Head(q) = "PFX"
        BY <2>1, <3>4, RestOf
    <3> QED
        BY <1>1, <2>3, <3>2, <3>4, <3>5 DEF BetweenOpcodes
  <2> QED
      BY <2>2, <2>3
<1>11. Place'
    BY <1>6, <1>8, <1>9 DEF TrackerInv, Place, Off
<1>12. Behind' /\ Answer' /\ Seen'
    BY <1>1, <1>6, <1>8, <1>9 DEF TrackerInv, Behind, Answer, Seen
<1>13. Prefix'
    BY <1>6, <1>9, <1>10 DEF TrackerInv, Prefix
<1>14. Switched' /\ Stopped' /\ Requests' /\ Stepping'
    BY <1>1, <1>4, <1>6, <1>8 DEF TrackerInv, Switched, Stopped, Requests, Stepping
<1>15. Paging'
    BY <1>1, <1>6 DEF TrackerInv, Paging
<1> QED
    BY <1>3, <1>7, <1>9, <1>11, <1>12, <1>13, <1>14, <1>15 DEF TrackerInv, Types

\* An interrupt, a RESET and a grant of the bus come between two cycles.
LEMMA InterruptInv ==
    ASSUME TrackerInv, Rule("INTERRUPT_ANYTIME"), Interrupt
    PROVE  TrackerInv'
<1>1. /\ ~cyc.busy /\ cyc' = cyc /\ t' = [t EXCEPT !.known = {}] /\ stepping' = stepping /\ ran' = ran
      /\ ~t.on \/ t.acq \notin {"INJECTING", "POST_INJECT"}
    BY DEF Interrupt, ghosts
<1>2. IsRec(t) /\ Typed(t)
    BY DEF TrackerInv, Types
<1>3. t.acq # "INJECTING"
    BY <1>1 DEF TrackerInv, Switched
<1>4. /\ z.code = "PROG" /\ ~t.setRegs /\ ~t.outActive /\ t.pos = 0 /\ ~t.hold
      /\ "MIRROR" \notin t.busrq /\ ~t.pagedOut /\ Left = z.todo
    BY <1>1, <1>3, OutsideIs
<1>5. z' = [z EXCEPT !.pc = IsrAddr, !.todo = <<"WR", "WR">>]
    BY <1>4 DEF Interrupt
<1>6. IsRec(t') /\ Same(t, t', {"known"}) /\ t'.known = {}
  <2>1. t'.known = {}
      BY <1>1, <1>2 DEF IsRec, Fields
  <2> QED
      BY <1>1, <1>2, <2>1 DEF IsRec, Same
<1>7. /\ t'.on = t.on /\ t'.hold = t.hold /\ t'.acq = t.acq /\ t'.mode = t.mode /\ t'.setRegs = t.setRegs
      /\ t'.pos = t.pos /\ t'.second = t.second /\ t'.pfx = t.pfx /\ t'.disablePending = t.disablePending
      /\ t'.resetPending = t.resetPending /\ t'.outActive = t.outActive /\ t'.mirrorDue = t.mirrorDue
      /\ t'.overPC = t.overPC /\ t'.copyPC = t.copyPC /\ t'.pagedOut = t.pagedOut
      /\ t'.pageInDue = t.pageInDue /\ t'.reading = t.reading /\ t'.busrq = t.busrq
      /\ t'.code = t.code /\ t'.pos0 = t.pos0
    BY <1>6 DEF Same, Fields
<1>8. Typed(t')
    BY <1>2, <1>6, <1>7, Zenon DEF Typed
<1>9. Z80Types'
  <2>1. z' \in [pc : Addr, todo : Seq(Kind), code : Code] /\ z'.todo = <<"WR", "WR">>
      BY <1>5, ProgramAssumption, WritesOnly DEF TrackerInv, Types, Z80Types
  <2> QED
      BY <1>1, <2>1, WritesOnly DEF TrackerInv, Types, Z80Types
<1>10. z'.todo = <<"WR", "WR">> /\ z'.code = "PROG"
    BY <1>4, <1>5 DEF TrackerInv, Types, Z80Types
<1>11. Left' = <<"WR", "WR">> /\ Eating' = "PROG" /\ ~cyc'.busy
    BY <1>1, <1>10 DEF Left, Eating
<1>12. Fits' /\ Place' /\ Answer' /\ Seen'
    BY <1>3, <1>4, <1>7, <1>11 DEF Fits, Place, Off, Answer, Seen
<1>13. Behind'
    BY <1>1, <1>7 DEF Behind
<1>14. Prefix'
    BY <1>7, <1>11, WritesOnly DEF TrackerInv, Prefix, IsM1
<1>15. Switched' /\ Stopped' /\ Requests'
    BY <1>4, <1>7 DEF TrackerInv, Switched, Stopped, Requests
<1>16. Paging'
    BY <1>1, <1>7 DEF TrackerInv, Paging
<1>17. Stepping'
  <2>1. SUFFICES ASSUME stepping PROVE Stepping'
      BY <1>1 DEF Stepping
  <2>2. t.on /\ ~t.disablePending /\ ran = 1 /\ ~t.hold /\ t.acq = "INJECT_IF_NEW_INSTR" /\ t.mode = "INTO"
      BY <1>1, <2>1, StepsAre
  <2> QED
      BY <1>1, <1>7, <1>11, <2>2, Tails DEF Stepping
<1> QED
    BY <1>6, <1>8, <1>9, <1>12, <1>13, <1>14, <1>15, <1>16, <1>17 DEF TrackerInv, Types

\* A RESET keeps the invariant.
LEMMA ResetInv ==
    ASSUME TrackerInv, Rule("RESET_ANYTIME"), ResetPulse
    PROVE  TrackerInv'
<1>1. /\ ~cyc.busy /\ cyc' = cyc /\ stepping' = FALSE /\ z' = [pc |-> ResetAddr, todo |-> <<>>, code |-> "PROG"]
      /\ t.on => \/ t.acq \in {"NONE", "INJECT_IF_NEW_INSTR"}
                 \/ t.resetPending /\ (t.acq = "POST_INJECT" \/ NoInjection)
    BY DEF ResetPulse
<1>2. IsRec(t) /\ Typed(t)
    BY DEF TrackerInv, Types
<1>3. ~t.hold
    BY <1>1 DEF TrackerInv, Stopped, AtStop
<1>4. ~t.setRegs /\ ~t.outActive /\ t.pos = 0 /\ "MIRROR" \notin t.busrq /\ ~t.pagedOut
  <2>1. CASE t.acq # "INJECTING"
      BY <1>1, <2>1, OutsideIs
  <2>2. CASE t.acq = "INJECTING"
    <3>1. NoInjection
        BY <1>1, <2>2 DEF TrackerInv, Switched
    <3>2. t.pagedOut = t.outActive
        BY <1>1 DEF TrackerInv, Paging
    <3>3. "MIRROR" \in t.busrq => t.pos = 34
        BY DEF TrackerInv, Requests, GrabPos
    <3> QED
        BY <3>1, <3>2, <3>3 DEF NoInjection
  <2> QED
      BY <2>1, <2>2
<1>5. Z80Types' /\ z'.todo = <<>> /\ z'.code = "PROG"
  <2>1. z'.todo = <<>> /\ z'.code = "PROG"
      BY <1>1
  <2> QED
      BY <1>1, <2>1, ProgramAssumption, WritesOnly DEF TrackerInv, Types, Z80Types, Code
<1>6. Left' = <<>> /\ Eating' = "PROG" /\ ~cyc'.busy
    BY <1>1, <1>5 DEF Left, Eating
<1>7. Fits' /\ Answer' /\ Stepping'
    BY <1>1, <1>6 DEF Fits, Answer, Stepping
<1>8. CASE ~t.on
  <2>1. t' = [t EXCEPT !.known = {}]
      BY <1>8 DEF ResetPulse
  <2>2. IsRec(t') /\ Same(t, t', {"known"}) /\ t'.known = {}
    <3>1. t'.known = {}
        BY <1>2, <2>1 DEF IsRec, Fields
    <3> QED
        BY <1>2, <2>1, <3>1 DEF IsRec, Same
  <2>3. /\ t'.on = t.on /\ t'.hold = t.hold /\ t'.acq = t.acq /\ t'.mode = t.mode /\ t'.setRegs = t.setRegs
        /\ t'.pos = t.pos /\ t'.second = t.second /\ t'.pfx = t.pfx /\ t'.disablePending = t.disablePending
        /\ t'.resetPending = t.resetPending /\ t'.outActive = t.outActive /\ t'.mirrorDue = t.mirrorDue
        /\ t'.overPC = t.overPC /\ t'.copyPC = t.copyPC /\ t'.pagedOut = t.pagedOut
        /\ t'.pageInDue = t.pageInDue /\ t'.reading = t.reading /\ t'.busrq = t.busrq
        /\ t'.code = t.code /\ t'.pos0 = t.pos0
      BY <2>2 DEF Same, Fields
  <2>4. Typed(t')
      BY <1>2, <2>2, <2>3, Zenon DEF Typed
  <2>5. t.acq # "INJECTING"
      BY <1>8 DEF TrackerInv, Switched
  <2>6. Place' /\ Seen'
      BY <1>4, <1>6, <2>3, <2>5 DEF Place, Off, Seen
  <2>7. Behind' /\ Prefix'
      BY <1>6, <1>8, <2>3 DEF TrackerInv, Behind, Prefix
  <2>8. Switched' /\ Stopped' /\ Requests'
      BY <1>3, <1>4, <2>3 DEF TrackerInv, Switched, Stopped, Requests
  <2>9. Paging'
      BY <1>1, <2>3 DEF TrackerInv, Paging
  <2> QED
      BY <1>5, <1>7, <2>2, <2>4, <2>6, <2>7, <2>8, <2>9 DEF TrackerInv, Types
<1>9. CASE t.on
  <2>1. t' = [t EXCEPT !.known = {}, !.pfx = FALSE, !.resetPending = FALSE,
                       !.acq = IF t.resetPending THEN "INJECTING" ELSE "INJECT_IF_NEW_INSTR"]
      BY <1>9 DEF ResetPulse
  <2>2. IsRec(t') /\ Same(t, t', {"known", "pfx", "resetPending", "acq"})
      BY <1>2, <2>1 DEF IsRec, Same
  <2>3. /\ t'.known = {} /\ t'.pfx = FALSE /\ t'.resetPending = FALSE
        /\ t'.acq = IF t.resetPending THEN "INJECTING" ELSE "INJECT_IF_NEW_INSTR"
      BY <1>2, <2>1 DEF IsRec, Fields
  <2>4. /\ t'.on = t.on /\ t'.hold = t.hold /\ t'.mode = t.mode /\ t'.setRegs = t.setRegs
        /\ t'.pos = t.pos /\ t'.second = t.second /\ t'.disablePending = t.disablePending
        /\ t'.outActive = t.outActive /\ t'.mirrorDue = t.mirrorDue
        /\ t'.overPC = t.overPC /\ t'.copyPC = t.copyPC /\ t'.pagedOut = t.pagedOut
        /\ t'.pageInDue = t.pageInDue /\ t'.reading = t.reading /\ t'.busrq = t.busrq
        /\ t'.code = t.code /\ t'.pos0 = t.pos0
      BY <2>2 DEF Same, Fields
  <2>5. Typed(t')
    <3>1. t'.pfx \in BOOLEAN /\ t'.resetPending \in BOOLEAN
        BY <2>3, Zenon
    <3>2. t'.acq \in Acq /\ t'.known \in SUBSET Registers
        BY <2>3 DEF Acq
    <3> QED
        BY <1>2, <2>4, <3>1, <3>2, Zenon DEF Typed
  <2>6. Place' /\ Seen'
      BY <1>4, <1>6, <2>3, <2>4 DEF Place, Off, GetFrom0, Seen
  <2>7. Behind' /\ Prefix'
      BY <1>6, <2>3 DEF Behind, Prefix
  <2>8. Switched'
      BY <1>1, <1>9, <2>3, <2>4 DEF TrackerInv, Switched
  <2>9. Stopped' /\ Requests'
      BY <1>3, <1>4, <2>4 DEF Stopped, Requests
  <2>10. Paging'
      BY <1>1, <2>4 DEF TrackerInv, Paging
  <2> QED
      BY <1>5, <1>7, <2>2, <2>5, <2>6, <2>7, <2>8, <2>9, <2>10 DEF TrackerInv, Types
<1> QED
    BY <1>8, <1>9

\* A request is taken back, or one to set registers made: the rest is as it was.
LEMMA RequestInv ==
    ASSUME TrackerInv, z' = z, cyc' = cyc, ran' = ran, stepping' = stepping \/ stepping' = FALSE,
           NEW r \in SUBSET {"MIRROR", "PROGRAM"}, t' = [t EXCEPT !.busrq = r],
           "MIRROR" \notin r \/ "MIRROR" \in t.busrq, "PROGRAM" \in r => t.acq # "INJECTING"
    PROVE  TrackerInv'
<1>1. IsRec(t) /\ Typed(t)
    BY DEF TrackerInv, Types
<1>2. IsRec(t') /\ Same(t, t', {"busrq"})
    BY <1>1 DEF IsRec, Same
<1>3. t'.busrq = r
    BY <1>1 DEF IsRec, Fields
<1>4. /\ t'.on = t.on /\ t'.hold = t.hold /\ t'.acq = t.acq /\ t'.mode = t.mode /\ t'.setRegs = t.setRegs
      /\ t'.pos = t.pos /\ t'.second = t.second /\ t'.pfx = t.pfx /\ t'.disablePending = t.disablePending
      /\ t'.resetPending = t.resetPending /\ t'.outActive = t.outActive /\ t'.mirrorDue = t.mirrorDue
      /\ t'.overPC = t.overPC /\ t'.copyPC = t.copyPC /\ t'.known = t.known /\ t'.pagedOut = t.pagedOut
      /\ t'.pageInDue = t.pageInDue /\ t'.reading = t.reading
      /\ t'.code = t.code /\ t'.pos0 = t.pos0
    BY <1>2 DEF Same, Fields
<1>5. Typed(t')
    BY <1>1, <1>3, <1>4, Zenon DEF Typed
<1>6. Same(t, t', AtCommand)
    BY <1>2 DEF Same, AtCommand
<1>7. Types' /\ Fits' /\ Place' /\ Behind' /\ Answer' /\ Seen' /\ Prefix' /\ Paging' /\ Left' = Left
    BY <1>2, <1>5, <1>6, CommandKeeps
<1>8. Switched' /\ Stopped' /\ Stepping'
    BY <1>4, <1>7 DEF TrackerInv, Switched, Stopped, AtStop, ShownIsTrue, Stepping
<1>9. Requests'
    BY <1>3, <1>4 DEF TrackerInv, Requests
<1> QED
    BY <1>7, <1>8, <1>9 DEF TrackerInv

\* A grant of the bus (a copy is made, or the program written) keeps the invariant.
LEMMA GrantInv ==
    ASSUME TrackerInv, Rule("SET_ANYTIME"), BusGrant
    PROVE  TrackerInv'
<1> DEFINE s == [t EXCEPT !.busrq = {}]
<1>1. ~cyc.busy /\ BusMayBeGranted /\ z' = z /\ cyc' = cyc /\ ran' = ran
    BY DEF BusGrant
<1>2. IsRec(t) /\ Typed(t)
    BY DEF TrackerInv, Types
<1>3. CASE "PROGRAM" \notin t.busrq \/ ~t.on
  <2>1. t' = s /\ stepping' = stepping
      BY <1>3 DEF BusGrant
  <2> QED
      BY <1>1, <2>1, RequestInv
<1>4. CASE "PROGRAM" \in t.busrq /\ t.on
  <2>1. PICK a \in Addr : t' = StartSetRegisterSequence(s, a)
      BY <1>4 DEF BusGrant
  <2>2. stepping' = FALSE
      BY <1>4 DEF BusGrant
  <2> DEFINE c == [s EXCEPT !.copyPC = a, !.known = {}]
  <2>3. IsRec(s) /\ Same(t, s, {"busrq"}) /\ s.busrq = {}
    <3>1. s.busrq = {}
        BY <1>2 DEF IsRec, Fields
    <3> QED
        BY <1>2, <3>1 DEF IsRec, Same
  <2>4. s.acq = t.acq
      BY <2>3 DEF Same, Fields
  <2>5. t' = IF t.acq = "INJECTING" THEN c
             ELSE [c EXCEPT !.acq = "INJECTING", !.hold = FALSE, !.setRegs = TRUE, !.pos = 0]
      BY <2>1, <2>4 DEF StartSetRegisterSequence
  <2> HIDE DEF s
  <2>6. IsRec(c) /\ Same(s, c, {"copyPC", "known"})
      BY <2>3 DEF IsRec, Same
  <2>7. c.copyPC = a /\ c.known = {} /\ c.busrq = {}
      BY <2>3 DEF IsRec, Fields
  <2> HIDE DEF c
  <2>8. /\ IsRec(t') /\ Same(t, t', {"busrq", "copyPC", "known", "acq", "hold", "setRegs", "pos"})
        /\ t'.copyPC = a /\ t'.known = {} /\ t'.busrq = {}
    <3>1. IsRec(t') /\ Same(c, t', {"acq", "hold", "setRegs", "pos"})
        BY <2>5, <2>6 DEF IsRec, Same
    <3>2. Same(t, t', {"busrq", "copyPC", "known", "acq", "hold", "setRegs", "pos"})
        BY <2>3, <2>6, <3>1 DEF Same
    <3>3. t'.copyPC = a /\ t'.known = {} /\ t'.busrq = {}
        BY <2>7, <3>1 DEF Same, Fields
    <3> QED
        BY <3>1, <3>2, <3>3
  <2>9. /\ t'.on = t.on /\ t'.mode = t.mode /\ t'.second = t.second /\ t'.pfx = t.pfx
        /\ t'.disablePending = t.disablePending
        /\ t'.resetPending = t.resetPending /\ t'.outActive = t.outActive /\ t'.mirrorDue = t.mirrorDue
        /\ t'.overPC = t.overPC /\ t'.pagedOut = t.pagedOut /\ t'.pageInDue = t.pageInDue
        /\ t'.reading = t.reading /\ t'.code = t.code /\ t'.pos0 = t.pos0
      BY <2>8 DEF Same, Fields
  <2>10. /\ t'.acq = "INJECTING" /\ t'.hold = FALSE /\ t'.pos = 0 /\ t'.setRegs = (t.acq # "INJECTING")
    <3>1. CASE t.acq = "INJECTING"
      <4>1. t' = c
          BY <2>5, <3>1
      <4>2. t'.acq = t.acq /\ t'.hold = t.hold /\ t'.setRegs = t.setRegs /\ t'.pos = t.pos
        <5>1. c.acq = s.acq /\ c.hold = s.hold /\ c.setRegs = s.setRegs /\ c.pos = s.pos
            BY <2>6 DEF Same, Fields
        <5>2. s.acq = t.acq /\ s.hold = t.hold /\ s.setRegs = t.setRegs /\ s.pos = t.pos
            BY <2>3 DEF Same, Fields
        <5> QED
            BY <4>1, <5>1, <5>2
      <4>3. ~t.setRegs /\ t.pos = 0
          BY <1>4, <3>1 DEF TrackerInv, Requests
      <4>4. ~t.hold
          BY <1>1 DEF TrackerInv, Stopped, AtStop
      <4>5. t.hold = FALSE /\ t.setRegs = FALSE
          BY <1>2, <4>3, <4>4 DEF Typed
      <4> QED
          BY <3>1, <4>2, <4>3, <4>5
    <3>2. CASE t.acq # "INJECTING"
      <4>1. t' = [c EXCEPT !.acq = "INJECTING", !.hold = FALSE, !.setRegs = TRUE, !.pos = 0]
          BY <2>5, <3>2
      <4> QED
          BY <2>6, <3>2, <4>1 DEF IsRec, Fields
    <3> QED
        BY <3>1, <3>2
  <2>11. Typed(t')
    <3>1. t'.hold \in BOOLEAN /\ t'.setRegs \in BOOLEAN
        BY <2>10, Zenon
    <3>2. /\ t'.acq \in Acq /\ t'.known \in SUBSET Registers /\ t'.busrq \in SUBSET {"MIRROR", "PROGRAM"}
          /\ t'.copyPC \in Addr
        BY <2>8, <2>10 DEF Acq
    <3>3. t'.pos \in 0..(SetLen - 1) /\ (~t'.setRegs => t'.pos < GetLen)
        BY <2>10 DEF SetLen, GetLen
    <3> QED
        BY <1>2, <2>9, <3>1, <3>2, <3>3, Zenon DEF Typed
  <2>12. Left' = Left /\ Eating' = Eating /\ Fits' /\ Z80Types'
      BY <1>1, StillThere
  <2>13. Left = z.todo /\ Left \in {<<>>, <<"M1">>, <<"RD">>}
      BY <1>1, <1>4 DEF BusMayBeGranted, AtItsEnd, Left
  <2>14. Place'
    <3>1. CASE t.acq = "INJECTING"
      <4>1. ~t.setRegs /\ t.pos = 0
          BY <1>4, <3>1 DEF TrackerInv, Requests
      <4>2. GetFrom0
          BY <3>1, <4>1 DEF TrackerInv, Place, GetOn, SetFrom0, SetFrom1, SetOn
      <4> QED
          BY <1>1, <2>9, <2>10, <2>12, <3>1, <4>2 DEF Place, GetFrom0
    <3>2. CASE t.acq # "INJECTING"
      <4>1. Eating = "PROG" /\ ~t.outActive
          BY <3>2 DEF TrackerInv, Place, Off
      <4> QED
          BY <1>1, <2>9, <2>10, <2>12, <2>13, <3>2, <4>1 DEF Place, SetFrom0
    <3> QED
        BY <3>1, <3>2
  <2>15. Behind' /\ Answer' /\ Seen' /\ Prefix'
      BY <1>1, <2>10 DEF Behind, Answer, Seen, Prefix
  <2>16. Switched' /\ Stopped' /\ Requests' /\ Stepping'
      BY <1>4, <2>2, <2>8, <2>9, <2>10 DEF Switched, Stopped, Requests, Stepping
  <2>17. Paging'
      BY <1>1, <2>9 DEF TrackerInv, Paging
  <2> QED
      BY <2>8, <2>11, <2>12, <2>14, <2>15, <2>16, <2>17 DEF TrackerInv, Types
<1> QED
    BY <1>3, <1>4

-----------------------------------------------------------------------------
(* Every step keeps the invariant                                          *)

\* The rules for the use of the tracker that keep it in step with the Z80
RulesKept == \A r \in {"INTERRUPT_ANYTIME", "RESET_ANYTIME", "SET_ANYTIME", "REENABLE", "ENABLE_AFTER_STOP",
                        "ENABLE_ANYTIME"} : Rule(r)

\* Every action keeps the invariant.
LEMMA NextInv ==
    ASSUME TrackerInv, PrefixesLead, RulesKept, [Next]_vars
    PROVE  TrackerInv'
<1>1. /\ Rule("INTERRUPT_ANYTIME") /\ Rule("RESET_ANYTIME") /\ Rule("SET_ANYTIME") /\ Rule("REENABLE")
      /\ Rule("ENABLE_AFTER_STOP") /\ Rule("ENABLE_ANYTIME")
    BY DEF RulesKept
<1>2. CASE StartCycle
    BY <1>2, StartCycleInv
<1>3. CASE EndCycle
    BY <1>3, EndCycleInv
<1>4. CASE BusGrant
    BY <1>1, <1>4, GrantInv
<1>5. CASE ResetPulse
    BY <1>1, <1>5, ResetInv
<1>6. CASE Interrupt
    BY <1>1, <1>6, InterruptInv
<1>7. ASSUME NEW reset \in BOOLEAN, TargetTrackerOn(reset) PROVE TrackerInv'
    BY <1>1, <1>7, TrackerOnInv
<1>8. CASE TargetTrackerOff
    BY <1>8, TrackerOffInv
<1>9. CASE StepInto
    BY <1>9, StepIntoInv
<1>10. CASE StepRun \/ StepOver \/ CompleteTargetProgram
    BY <1>10, ModeInv
<1>11. CASE ProgramTarget
  <2>1. /\ t' = [t EXCEPT !.busrq = @ \cup {"PROGRAM"}] /\ t.acq # "INJECTING" /\ z' = z /\ cyc' = cyc
        /\ ran' = ran /\ stepping' = stepping
      BY <1>1, <1>11 DEF ProgramTarget, ghosts
  <2>2. t.busrq \cup {"PROGRAM"} \in SUBSET {"MIRROR", "PROGRAM"}
      BY DEF TrackerInv, Types, Typed
  <2>3. t' = [t EXCEPT !.busrq = t.busrq \cup {"PROGRAM"}]
      BY <2>1 DEF TrackerInv, Types, IsRec
  <2> QED
      BY <2>1, <2>2, <2>3, RequestInv
<1>12. CASE ReportStep \/ ResetTarget \/ FastBreakpoint \/ NumberedBreakpoint \/ UNCHANGED vars
  <2>1. t' = t /\ z' = z /\ cyc' = cyc /\ stepping' = stepping /\ ran' = ran
      BY <1>12 DEF ReportStep, ResetTarget, FastBreakpoint, NumberedBreakpoint, vars, ghosts
  <2> QED
      BY <2>1, UnchangedInv
<1> QED
    BY <1>2, <1>3, <1>4, <1>5, <1>6, <1>7, <1>8, <1>9, <1>10, <1>11, <1>12 DEF Next, Run, Control

\* The debugger, the Z80 and the code between them stay in step, as long as the rules for
\* the use of the tracker are kept and prefixes lead in all the program's instructions.
THEOREM TrackerInvariant ==
    ASSUME PrefixesLead, RulesKept
    PROVE  Spec => []TrackerInv
<1>1. Init => TrackerInv
    BY InitInv
<1>2. TrackerInv /\ [Next]_vars => TrackerInv'
    BY NextInv
<1> QED
    BY <1>1, <1>2, PTL DEF Spec

\* The Z80 takes every injected byte for what it was meant to be (handleRegisterGet,
\* handleRegisterSet), in whatever order commands, interrupts, resets and requests for
\* the bus come.
THEOREM StaysInStep ==
    ASSUME PrefixesLead, RulesKept
    PROVE  Spec => []InStep
<1>1. TrackerInv => InStep
    BY DEF TrackerInv, Types, Z80Types, Code, InStep
<1> QED
    BY <1>1, TrackerInvariant, PTL

\* When the target is held, it is at the first byte of an instruction, and the registers
\* shown are the Z80's (the hold of handleWaitInterruptStatic). Under RulesKept: a tracker
\* that is switched on again after a stop holds elsewhere (ENABLE_AFTER_STOP).
THEOREM RegistersAreShown ==
    ASSUME PrefixesLead, RulesKept
    PROVE  Spec => []RegistersShown
<1>1. TrackerInv => RegistersShown
    BY DEF TrackerInv, Stopped, AtStop, RegistersShown, Held
<1> QED
    BY <1>1, TrackerInvariant, PTL

\* The target's memory is there for its own cycles and for the bus master, and away when
\* injected code writes (handleInjection, targetPageForInjection).
THEOREM MemoryIsAsNeeded ==
    ASSUME PrefixesLead, RulesKept
    PROVE  Spec => []MemoryAsNeeded
<1>1. TrackerInv => MemoryAsNeeded
  <2>1. SUFFICES ASSUME TrackerInv PROVE MemoryAsNeeded
      OBVIOUS
  <2>2. /\ cyc.busy /\ cyc.code = "PROG" => ~t.pagedOut
        /\ cyc.busy /\ cyc.code # "PROG" => t.pagedOut
      BY <2>1 DEF TrackerInv, Paging
  <2>3. ASSUME ~cyc.busy, BusMayBeGranted PROVE ~t.pagedOut
    <3>1. t.pagedOut = t.outActive
        BY <2>1, <2>3 DEF TrackerInv, Paging
    <3>2. "MIRROR" \in t.busrq \/ "PROGRAM" \in t.busrq
      <4>1. t.busrq \subseteq {"MIRROR", "PROGRAM"} /\ t.busrq # {}
          BY <2>1, <2>3 DEF BusMayBeGranted, TrackerInv, Types, Typed
      <4> QED
          BY <4>1
    <3>3. "PROGRAM" \in t.busrq => ~t.outActive
      <4>1. t.acq # "INJECTING" => ~t.outActive
          BY <2>1 DEF TrackerInv, Place, Off
      <4>2. t.acq = "INJECTING" /\ ~t.setRegs /\ t.pos = 0 => ~t.outActive
          BY <2>1 DEF TrackerInv, Place, GetFrom0, GetOn, SetFrom0, SetFrom1, SetOn
      <4> QED
          BY <2>1, <4>1, <4>2 DEF TrackerInv, Requests
    <3>4. "MIRROR" \in t.busrq => ~t.outActive
        BY <2>1 DEF TrackerInv, Requests
    <3> QED
        BY <3>1, <3>2, <3>3, <3>4
  <2> QED
      BY <2>2, <2>3 DEF MemoryAsNeeded
<1> QED
    BY <1>1, TrackerInvariant, PTL

\* A step from one stop to the next runs one instruction, whatever its prefixes
\* (trackPrefixedInstructions, stepInto).
THEOREM AStepIsOne ==
    ASSUME PrefixesLead, RulesKept
    PROVE  Spec => []StepsOne
<1>1. TrackerInv => StepsOne
    BY DEF TrackerInv, Stepping, StepsOne, Held
<1> QED
    BY <1>1, TrackerInvariant, PTL

-----------------------------------------------------------------------------
(* Breakpoints, and the rest of the types                                  *)

Point == [pc : Addr, on : BOOLEAN]
BkIs(b) == /\ b = [fast |-> b.fast, num |-> b.num, on |-> b.on]
           /\ b.fast \in Seq(Point) /\ Len(b.fast) <= MaxFast
           /\ b.num \in [Numbers -> Point] /\ b.on \in BOOLEAN

\* At first there are no breakpoints.
LEMMA NoBreakpointsIs == BkIs(BK!NoBreakpoints(ResetAddr))
<1> DEFINE b == BK!NoBreakpoints(ResetAddr)
<1>1. b.fast = <<>> /\ b.num = [i \in Numbers |-> [pc |-> ResetAddr, on |-> FALSE]] /\ b.on = TRUE
    BY DEF BK!NoBreakpoints
<1>2. b = [fast |-> b.fast, num |-> b.num, on |-> b.on]
    BY DEF BK!NoBreakpoints
<1>3. [pc |-> ResetAddr, on |-> FALSE] \in Point
    BY ProgramAssumption DEF Point
<1> HIDE DEF b
<1>4. Len(b.fast) <= MaxFast /\ b.fast \in Seq(Point)
    BY <1>1, BoundsAssumption
<1> QED
    BY <1>1, <1>2, <1>3, <1>4 DEF BkIs, b

\* Only the list of fast breakpoints changes: an entry is switched, or one is added.
LEMMA FastBreakpointIs ==
    ASSUME NEW b, BkIs(b), NEW a \in Addr, NEW en \in BOOLEAN
    PROVE  LET n == BK!SetFastBreakpoint(b, a, en)
           IN  /\ BkIs(n) /\ n.num = b.num /\ n.on = b.on
               /\ \/ /\ \E i \in 1..Len(b.fast) : b.fast[i].pc = a
                     /\ Len(n.fast) = Len(b.fast)
                     /\ \A i \in 1..Len(b.fast) :
                           n.fast[i].pc = b.fast[i].pc /\ n.fast[i].on = IF b.fast[i].pc = a THEN en ELSE b.fast[i].on
                  \/ /\ \A i \in 1..Len(b.fast) : b.fast[i].pc # a
                     /\ en /\ Len(b.fast) < MaxFast /\ n.fast = Append(b.fast, [pc |-> a, on |-> TRUE])
                  \/ /\ \A i \in 1..Len(b.fast) : b.fast[i].pc # a
                     /\ ~en \/ Len(b.fast) >= MaxFast
                     /\ n = b
<1> DEFINE n == BK!SetFastBreakpoint(b, a, en)
<1>1. /\ b.fast \in Seq(Point) /\ Len(b.fast) \in Nat /\ DOMAIN b.fast = 1..Len(b.fast) /\ Len(b.fast) <= MaxFast
      /\ \A i \in 1..Len(b.fast) : b.fast[i] \in Point
      /\ b = [fast |-> b.fast, num |-> b.num, on |-> b.on]
    BY DEF BkIs
<1>2. CASE \E i \in 1..Len(b.fast) : b.fast[i].pc = a
  <2> DEFINE f == [i \in 1..Len(b.fast) |-> IF b.fast[i].pc = a THEN [b.fast[i] EXCEPT !.on = en] ELSE b.fast[i]]
  <2>1. n = [b EXCEPT !.fast = f]
    <3>1. \E i \in DOMAIN b.fast : b.fast[i].pc = a
        BY <1>1, <1>2
    <3>2. n = [b EXCEPT !.fast = [i \in DOMAIN b.fast |-> IF b.fast[i].pc = a THEN [b.fast[i] EXCEPT !.on = en]
                                                          ELSE b.fast[i]]]
        BY <3>1, Zenon DEF BK!SetFastBreakpoint
    <3>3. DOMAIN b.fast = 1..Len(b.fast)
        BY <1>1
    <3> QED
        BY <3>2, <3>3, Zenon
  <2>2. ASSUME NEW i \in 1..Len(b.fast)
        PROVE  /\ f[i] \in Point /\ f[i].pc = b.fast[i].pc
               /\ f[i].on = IF b.fast[i].pc = a THEN en ELSE b.fast[i].on
      BY <1>1 DEF Point
  <2>3. f \in Seq(Point) /\ Len(f) = Len(b.fast)
      BY <1>1, <2>2
  <2> HIDE DEF f
  <2>4. n.fast = f /\ n.num = b.num /\ n.on = b.on /\ n = [fast |-> n.fast, num |-> n.num, on |-> n.on]
      BY <1>1, <2>1
  <2> HIDE DEF n
  <2>5. BkIs(n)
      BY <1>1, <2>3, <2>4 DEF BkIs
  <2> QED
      BY <1>2, <2>2, <2>3, <2>4, <2>5 DEF n
<1>3. CASE ~(\E i \in 1..Len(b.fast) : b.fast[i].pc = a) /\ en /\ Len(b.fast) < MaxFast
  <2> DEFINE f == Append(b.fast, [pc |-> a, on |-> TRUE])
  <2>1. n = [b EXCEPT !.fast = f]
      BY <1>1, <1>3 DEF BK!SetFastBreakpoint
  <2>2. [pc |-> a, on |-> TRUE] \in Point
      BY DEF Point
  <2>3. f \in Seq(Point) /\ Len(f) = Len(b.fast) + 1
      BY <1>1, <2>2
  <2>4. Len(f) <= MaxFast
      BY <1>1, <1>3, <2>3, BoundsAssumption
  <2> HIDE DEF f
  <2>5. n.fast = f /\ n.num = b.num /\ n.on = b.on /\ n = [fast |-> n.fast, num |-> n.num, on |-> n.on]
      BY <1>1, <2>1
  <2> HIDE DEF n
  <2>6. BkIs(n)
      BY <2>3, <2>4, <2>5 DEF BkIs
  <2> QED
      BY <1>3, <2>5, <2>6 DEF n, f
<1>4. CASE ~(\E i \in 1..Len(b.fast) : b.fast[i].pc = a) /\ ~(en /\ Len(b.fast) < MaxFast)
  <2>1. n = b
      BY <1>1, <1>4 DEF BK!SetFastBreakpoint
  <2>2. ~en \/ Len(b.fast) >= MaxFast
      BY <1>1, <1>4, BoundsAssumption
  <2> HIDE DEF n
  <2> QED
      BY <1>4, <2>1, <2>2 DEF n
<1> QED
    BY <1>2, <1>3, <1>4

\* The other changes leave that list alone, or empty it.
LEMMA OtherBreakpointIs ==
    ASSUME NEW b, BkIs(b)
    PROVE  /\ BkIs(BK!ClearFastBreakpoints(b)) /\ BK!ClearFastBreakpoints(b).fast = <<>>
           /\ \A i \in Numbers, a \in Addr : BkIs(BK!SetBreakpointPCAddr(b, i, a)) /\ BK!SetBreakpointPCAddr(b, i, a).fast = b.fast
           /\ \A i \in Numbers, en \in BOOLEAN : BkIs(BK!EnableBreakpoint(b, i, en)) /\ BK!EnableBreakpoint(b, i, en).fast = b.fast
           /\ \A en \in BOOLEAN : BkIs(BK!EnableBreakpoints(b, en)) /\ BK!EnableBreakpoints(b, en).fast = b.fast
<1>1. /\ b = [fast |-> b.fast, num |-> b.num, on |-> b.on] /\ b.fast \in Seq(Point) /\ Len(b.fast) <= MaxFast
      /\ b.num \in [Numbers -> Point] /\ b.on \in BOOLEAN
    BY DEF BkIs
<1>2. BkIs(BK!ClearFastBreakpoints(b)) /\ BK!ClearFastBreakpoints(b).fast = <<>>
    BY <1>1, BoundsAssumption DEF BK!ClearFastBreakpoints, BkIs
<1>3. ASSUME NEW i \in Numbers, NEW p \in Point, NEW n, n = [b EXCEPT !.num = [b.num EXCEPT ![i] = p]]
      PROVE  BkIs(n) /\ n.fast = b.fast
    BY <1>1, <1>3 DEF BkIs
<1>4. ASSUME NEW i \in Numbers, NEW a \in Addr
      PROVE  BkIs(BK!SetBreakpointPCAddr(b, i, a)) /\ BK!SetBreakpointPCAddr(b, i, a).fast = b.fast
  <2>1. [b.num[i] EXCEPT !.pc = a] \in Point
      BY <1>1 DEF Point
  <2>2. BK!SetBreakpointPCAddr(b, i, a) = [b EXCEPT !.num = [b.num EXCEPT ![i] = [b.num[i] EXCEPT !.pc = a]]]
      BY <1>1 DEF BK!SetBreakpointPCAddr
  <2> QED
      BY <1>3, <2>1, <2>2
<1>5. ASSUME NEW i \in Numbers, NEW en \in BOOLEAN
      PROVE  BkIs(BK!EnableBreakpoint(b, i, en)) /\ BK!EnableBreakpoint(b, i, en).fast = b.fast
  <2>1. [b.num[i] EXCEPT !.on = en] \in Point
      BY <1>1 DEF Point
  <2>2. BK!EnableBreakpoint(b, i, en) = [b EXCEPT !.num = [b.num EXCEPT ![i] = [b.num[i] EXCEPT !.on = en]]]
      BY <1>1 DEF BK!EnableBreakpoint
  <2> QED
      BY <1>3, <2>1, <2>2
<1>6. ASSUME NEW en \in BOOLEAN
      PROVE  BkIs(BK!EnableBreakpoints(b, en)) /\ BK!EnableBreakpoints(b, en).fast = b.fast
    BY <1>1 DEF BK!EnableBreakpoints, BkIs
<1> QED
    BY <1>2, <1>4, <1>5, <1>6

Others == /\ BkIs(bk) /\ resetReq \in BOOLEAN /\ stepDue \in BOOLEAN /\ commands \in 0..MaxCommands
          /\ asked \subseteq Addr /\ promised \in BOOLEAN /\ stepping \in BOOLEAN /\ ran \in 0..2

\* The other variables have their types at first.
LEMMA InitOthers == Init => Others
<1>1. SUFFICES ASSUME Init PROVE Others
    OBVIOUS
<1>2. BkIs(bk)
  <2>1. bk = BK!NoBreakpoints(ResetAddr)
      BY <1>1 DEF Init
  <2> QED
      BY <2>1, NoBreakpointsIs
<1>3. resetReq = FALSE /\ stepDue = FALSE /\ asked = {} /\ promised = FALSE /\ stepping = FALSE /\ ran = 0
    BY <1>1 DEF Init
<1>4. commands \in 0..MaxCommands
  <2>1. commands = 0 /\ 0 \in 0..MaxCommands
      BY <1>1, BoundsAssumption DEF Init
  <2> QED
      BY <2>1
<1>5. resetReq \in BOOLEAN /\ stepDue \in BOOLEAN /\ promised \in BOOLEAN /\ stepping \in BOOLEAN
    BY <1>3, Zenon
<1>6. ran \in 0..2 /\ asked \subseteq Addr
    BY <1>3
<1> QED
    BY <1>2, <1>4, <1>5, <1>6, Zenon DEF Others

\* The breakpoints are changed by commands only.
LEMMA BkStep ==
    ASSUME Others, [Next]_vars
    PROVE  \/ bk' = bk /\ asked' = asked
           \/ FastBreakpoint
           \/ NumberedBreakpoint /\ asked' = asked
BY DEF Next, Run, Control, StartCycle, EndCycle, OwnFetch, OwnCycle, InjectedFetch, InjectedCycle, Misfit,
       Interrupt, ResetPulse, BusGrant, ReportStep, TargetTrackerOn, TargetTrackerOff, StepInto, StepRun,
       ResetTarget, ProgramTarget, StepOver, CompleteTargetProgram, NumberedBreakpoint, vars, ghosts

\* The other variables have their types after every step.
LEMMA OthersHold ==
    ASSUME Others, TrackerInv, [Next]_vars
    PROVE  Others'
<1>1. BkIs(bk') /\ asked' \subseteq Addr
  <2>1. CASE bk' = bk /\ asked' = asked
      BY <2>1 DEF Others
  <2>2. CASE FastBreakpoint
    <3>1. ASSUME NEW a \in BreakAddr, NEW en \in BOOLEAN, bk' = BK!SetFastBreakpoint(bk, a, en),
                 asked' = IF en THEN asked \cup {a} ELSE asked \ {a}
          PROVE  BkIs(bk') /\ asked' \subseteq Addr
      <4>1. a \in Addr
          BY BoundsAssumption
      <4>2. BkIs(BK!SetFastBreakpoint(bk, a, en))
          BY <4>1, FastBreakpointIs DEF Others
      <4> QED
          BY <3>1, <4>1, <4>2 DEF Others
    <3>2. CASE bk' = BK!ClearFastBreakpoints(bk) /\ asked' = {}
        BY <3>2, OtherBreakpointIs DEF Others
    <3> QED
        BY <2>2, <3>1, <3>2 DEF FastBreakpoint
  <2>3. CASE NumberedBreakpoint /\ asked' = asked
      BY <2>3, OtherBreakpointIs, BoundsAssumption DEF Others, NumberedBreakpoint
  <2> QED
      BY <2>1, <2>2, <2>3, BkStep
<1>2. commands' \in 0..MaxCommands
  <2>1. commands' = commands \/ (commands < MaxCommands /\ commands' = commands + 1)
      BY DEF Next, Run, Control, StartCycle, EndCycle, Interrupt, ResetPulse, BusGrant, ReportStep, TargetTrackerOn,
             TargetTrackerOff, StepInto, StepRun, ResetTarget, ProgramTarget, StepOver, CompleteTargetProgram,
             FastBreakpoint, NumberedBreakpoint, Command, vars, ghosts
  <2> QED
      BY <2>1, BoundsAssumption DEF Others
<1>3. ran' \in 0..2
  <2>1. ran' = ran \/ ran' = 0 \/ ran' = (IF ran < 2 THEN ran + 1 ELSE 2)
      BY DEF Next, Run, Control, StartCycle, EndCycle, OwnFetch, OwnCycle, InjectedFetch, InjectedCycle, Misfit,
             Interrupt, ResetPulse, BusGrant, ReportStep, TargetTrackerOn, TargetTrackerOff, StepInto, StepRun,
             ResetTarget, ProgramTarget, StepOver, CompleteTargetProgram, FastBreakpoint, NumberedBreakpoint, vars, ghosts
  <2> QED
      BY <2>1 DEF Others
<1>4. stepDue' \in BOOLEAN
  <2>1. stepDue' = stepDue \/ stepDue' = TRUE \/ stepDue' = FALSE
      BY DEF Next, Run, Control, StartCycle, EndCycle, Interrupt, ResetPulse, BusGrant, ReportStep, TargetTrackerOn,
             TargetTrackerOff, StepInto, StepRun, ResetTarget, ProgramTarget, StepOver, CompleteTargetProgram,
             FastBreakpoint, NumberedBreakpoint, vars, ghosts
  <2> QED
      BY <2>1 DEF Others
<1>5. resetReq' \in BOOLEAN
  <2>1. \/ resetReq' = resetReq \/ resetReq' = TRUE \/ resetReq' = FALSE
        \/ \E reset \in BOOLEAN : resetReq' = (resetReq \/ reset)
      BY DEF Next, Run, Control, StartCycle, EndCycle, Interrupt, ResetPulse, BusGrant, ReportStep, TargetTrackerOn,
             TargetTrackerOff, StepInto, StepRun, ResetTarget, ProgramTarget, StepOver, CompleteTargetProgram,
             FastBreakpoint, NumberedBreakpoint, vars, ghosts
  <2> QED
      BY <2>1, Zenon DEF Others
<1>6. stepping' \in BOOLEAN
  <2>1. stepping' = stepping \/ stepping' = FALSE \/ stepping' = Held
      BY DEF Next, Run, Control, StartCycle, EndCycle, Interrupt, ResetPulse, BusGrant, ReportStep, TargetTrackerOn,
             TargetTrackerOff, StepInto, StepRun, ResetTarget, ProgramTarget, StepOver, CompleteTargetProgram,
             FastBreakpoint, NumberedBreakpoint, vars, ghosts
  <2>2. Held \in BOOLEAN
      BY Zenon DEF Held
  <2> QED
      BY <2>1, <2>2, Zenon DEF Others
<1>7. promised' \in BOOLEAN
  <2>1. CASE StartCycle
    <3>1. promised' = IF t'.hold THEN FALSE
                      ELSE promised \/ (t.acq = "INJECT_IF_NEW_INSTR" /\ t'.acq = "INJECTING" /\ t'.mode = "PAUSED")
        BY <2>1 DEF StartCycle
    <3> QED
        BY <3>1, Zenon
  <2>2. CASE BusGrant
    <3>1. promised' = promised \/ promised' = (promised \/ (t.mode = "PAUSED" /\ ~t.disablePending))
        BY <2>2 DEF BusGrant
    <3> QED
        BY <3>1, Zenon DEF Others
  <2>3. CASE StepInto
    <3>1. promised' = (t.on /\ ~t.disablePending)
        BY <2>3 DEF StepInto
    <3> QED
        BY <3>1, Zenon
  <2>4. CASE ~StartCycle /\ ~BusGrant /\ ~StepInto
    <3>1. promised' = promised \/ promised' = FALSE \/ promised' \in BOOLEAN
        BY <2>4 DEF Next, Run, Control, EndCycle, Interrupt, ResetPulse, ReportStep, TargetTrackerOn,
               TargetTrackerOff, StepRun, ResetTarget, ProgramTarget, StepOver, CompleteTargetProgram,
               FastBreakpoint, NumberedBreakpoint, vars, ghosts
    <3> QED
        BY <3>1 DEF Others
  <2> QED
      BY <2>1, <2>2, <2>3, <2>4
<1> QED
    BY <1>1, <1>2, <1>3, <1>4, <1>5, <1>6, <1>7 DEF Others

\* With the invariant these are all the types.
LEMMA TypesAre == TrackerInv /\ Others => TypeOK
<1>1. SUFFICES ASSUME TrackerInv, Others PROVE TypeOK
    OBVIOUS
<1>2. IsRec(t) /\ Typed(t) /\ Z80Types
    BY <1>1 DEF TrackerInv, Types
<1>3. t \in [on : BOOLEAN, hold : BOOLEAN, acq : Acq, mode : Mode, setRegs : BOOLEAN, pos : 0..SetLen - 1,
             second : BOOLEAN, pfx : BOOLEAN, disablePending : BOOLEAN, resetPending : BOOLEAN, outActive : BOOLEAN,
             mirrorDue : BOOLEAN, overPC : Addr, copyPC : Addr, known : SUBSET Registers, pagedOut : BOOLEAN,
             pageInDue : BOOLEAN, reading : BOOLEAN, busrq : SUBSET {"MIRROR", "PROGRAM"}, code : Code,
             pos0 : -1..SetLen - 1]
    BY <1>2 DEF IsRec, Fields, Typed
<1>4. z \in [pc : Addr, todo : Seq(Kind), code : Code \cup {"LOST"}]
    BY <1>2 DEF Z80Types
<1>5. BK!IsBreakpoints(bk, Addr)
    BY <1>1 DEF Others, BkIs, Point, BK!IsBreakpoints
<1> QED
    BY <1>1, <1>2, <1>3, <1>4, <1>5 DEF TypeOK, Typed, Z80Types, Others

\* Every variable has its type (TargetTracker.h, TargetBreakpoints.h); with it, the
\* position in a snippet stays inside the snippet that is used.
THEOREM TypesHold ==
    ASSUME PrefixesLead, RulesKept
    PROVE  Spec => []TypeOK
<1>1. Init => TrackerInv /\ Others
    BY InitInv, InitOthers
<1>2. TrackerInv /\ Others /\ [Next]_vars => (TrackerInv /\ Others)'
    BY NextInv, OthersHold
<1>3. TrackerInv /\ Others => TypeOK
    BY TypesAre
<1> QED
    BY <1>1, <1>2, <1>3, PTL DEF Spec

-----------------------------------------------------------------------------
(* Breakpoints stop the target                                             *)

\* There is a fast breakpoint for every address that can be asked for.
EnoughFast == IsFiniteSet(BreakAddr) /\ Cardinality(BreakAddr) <= MaxFast

\* The list has no address twice, and every address that is asked for is switched on in it.
Points ==
    /\ \A i \in 1..Len(bk.fast) : bk.fast[i].pc \in BreakAddr
    /\ \A i, j \in 1..Len(bk.fast) : bk.fast[i].pc = bk.fast[j].pc => i = j
    /\ \A a \in asked : \E i \in 1..Len(bk.fast) : bk.fast[i].pc = a /\ bk.fast[i].on

\* A new address finds room.
LEMMA RoomLeft ==
    ASSUME Others, Points, EnoughFast, NEW a \in BreakAddr, \A i \in 1..Len(bk.fast) : bk.fast[i].pc # a
    PROVE  Len(bk.fast) < MaxFast
<1> DEFINE n == Len(bk.fast)
           f == [i \in 1..n |-> bk.fast[i].pc]
<1>1. n \in Nat
    BY DEF Others, BkIs
<1>2. IsFiniteSet(BreakAddr \ {a}) /\ Cardinality(BreakAddr \ {a}) = Cardinality(BreakAddr) - 1
    BY FS_RemoveElement DEF EnoughFast
<1>3. f \in Injection(1..n, BreakAddr \ {a})
    BY DEF Points, Injection, IsInjective
<1>4. Cardinality(1..n) <= Cardinality(BreakAddr \ {a})
    BY <1>2, <1>3, FS_Injection
<1>5. Cardinality(1..n) = n
  <2>1. Cardinality(1..n) = IF 1 > n THEN 0 ELSE n - 1 + 1
    <3>1. 1 \in Int /\ n \in Int
        BY <1>1
    <3> QED
        BY <3>1, FS_Interval, Zenon
  <2> QED
      BY <1>1, <2>1
<1>6. Cardinality(BreakAddr) \in Nat
    BY FS_CardinalityType DEF EnoughFast
<1> QED
    BY <1>1, <1>2, <1>4, <1>5, <1>6, BoundsAssumption DEF EnoughFast

\* Every step keeps the points.
LEMMA PointsHold ==
    ASSUME Others, Points, EnoughFast, [Next]_vars
    PROVE  Points'
<1>1. CASE bk' = bk /\ asked' = asked
    BY <1>1 DEF Points
<1>2. ASSUME NEW a \in BreakAddr, NEW en \in BOOLEAN, bk' = BK!SetFastBreakpoint(bk, a, en),
             asked' = IF en THEN asked \cup {a} ELSE asked \ {a}
      PROVE  Points'
  <2>1. a \in Addr /\ BkIs(bk) /\ Len(bk.fast) \in Nat
      BY BoundsAssumption DEF Others, BkIs
  <2>2. CASE /\ \E i \in 1..Len(bk.fast) : bk.fast[i].pc = a
             /\ Len(bk'.fast) = Len(bk.fast)
             /\ \A i \in 1..Len(bk.fast) :
                   bk'.fast[i].pc = bk.fast[i].pc /\ bk'.fast[i].on = IF bk.fast[i].pc = a THEN en ELSE bk.fast[i].on
    <3>1. ASSUME NEW b \in asked' PROVE \E i \in 1..Len(bk'.fast) : bk'.fast[i].pc = b /\ bk'.fast[i].on
      <4>1. CASE b = a
        <5>1. en
            BY <1>2, <3>1, <4>1
        <5> QED
            BY <2>2, <4>1, <5>1
      <4>2. CASE b # a
        <5>1. PICK i \in 1..Len(bk.fast) : bk.fast[i].pc = b /\ bk.fast[i].on
            BY <1>2, <3>1, <4>2 DEF Points
        <5> QED
            BY <2>2, <4>2, <5>1
      <4> QED
          BY <4>1, <4>2
    <3> QED
        BY <2>2, <3>1 DEF Points
  <2>3. CASE /\ \A i \in 1..Len(bk.fast) : bk.fast[i].pc # a
             /\ en /\ Len(bk.fast) < MaxFast /\ bk'.fast = Append(bk.fast, [pc |-> a, on |-> TRUE])
    <3> DEFINE l == Len(bk.fast)
    <3>1. /\ Len(bk'.fast) = l + 1 /\ bk'.fast[l + 1] = [pc |-> a, on |-> TRUE]
          /\ \A i \in 1..l : bk'.fast[i] = bk.fast[i]
        BY <2>1, <2>3 DEF BkIs
    <3>2. bk'.fast[l + 1].pc = a /\ bk'.fast[l + 1].on
        BY <3>1
    <3>3. l \in Nat
        BY <2>1
    <3> HIDE DEF l
    <3>4. \A i \in 1..(l + 1) : i \in 1..l \/ i = l + 1
        BY <3>3
    <3>5. \A i \in 1..l : i \in 1..(l + 1)
        BY <3>3
    <3>6. l + 1 \in 1..(l + 1)
        BY <3>3
    <3>7. /\ \A i \in 1..l : bk.fast[i].pc \in BreakAddr /\ bk.fast[i].pc # a
          /\ \A i, j \in 1..l : bk.fast[i].pc = bk.fast[j].pc => i = j
          /\ \A b \in asked : \E i \in 1..l : bk.fast[i].pc = b /\ bk.fast[i].on
        BY <2>3 DEF Points, l
    <3>8. \A i \in 1..(l + 1) : bk'.fast[i].pc \in BreakAddr
        BY <3>1, <3>2, <3>4, <3>7
    <3>9. \A i, j \in 1..(l + 1) : bk'.fast[i].pc = bk'.fast[j].pc => i = j
        BY <3>1, <3>2, <3>4, <3>7
    <3>10. \A b \in asked' : \E i \in 1..(l + 1) : bk'.fast[i].pc = b /\ bk'.fast[i].on
      <4>1. asked' = asked \cup {a}
          BY <1>2, <2>3
      <4>2. ASSUME NEW b \in asked PROVE \E i \in 1..(l + 1) : bk'.fast[i].pc = b /\ bk'.fast[i].on
          BY <3>1, <3>5, <3>7
      <4> QED
          BY <3>2, <3>6, <4>1, <4>2
    <3> QED
        BY <3>1, <3>8, <3>9, <3>10 DEF Points
  <2>4. CASE /\ \A i \in 1..Len(bk.fast) : bk.fast[i].pc # a
             /\ ~en \/ Len(bk.fast) >= MaxFast
             /\ bk' = bk
    <3>1. Len(bk.fast) < MaxFast
        BY <2>4, RoomLeft
    <3>2. ~en
        BY <2>1, <2>4, <3>1, BoundsAssumption
    <3>3. asked' \subseteq asked
        BY <1>2, <3>2
    <3> QED
        BY <2>4, <3>3 DEF Points
  <2> QED
      BY <1>2, <2>1, <2>2, <2>3, <2>4, FastBreakpointIs
<1>3. CASE bk' = BK!ClearFastBreakpoints(bk) /\ asked' = {}
  <2>1. bk'.fast = <<>>
      BY <1>3, OtherBreakpointIs DEF Others
  <2> QED
      BY <1>3, <2>1 DEF Points
<1>4. CASE NumberedBreakpoint /\ asked' = asked
  <2>1. bk'.fast = bk.fast
    <3>1. /\ \A i \in Numbers, a \in Addr : BK!SetBreakpointPCAddr(bk, i, a).fast = bk.fast
          /\ \A i \in Numbers, en \in BOOLEAN : BK!EnableBreakpoint(bk, i, en).fast = bk.fast
          /\ \A en \in BOOLEAN : BK!EnableBreakpoints(bk, en).fast = bk.fast
        BY OtherBreakpointIs DEF Others
    <3>2. \/ \E i \in Numbers, a \in Addr : bk' = BK!SetBreakpointPCAddr(bk, i, a)
          \/ \E i \in Numbers, en \in BOOLEAN : bk' = BK!EnableBreakpoint(bk, i, en)
          \/ \E en \in BOOLEAN : bk' = BK!EnableBreakpoints(bk, en)
        BY <1>4, BoundsAssumption DEF NumberedBreakpoint
    <3> QED
        BY <3>1, <3>2
  <2> QED
      BY <1>4, <2>1 DEF Points
<1> QED
    BY <1>1, <1>2, <1>3, <1>4, BkStep DEF FastBreakpoint

\* What the tracker answers in an injection is its own.
LEMMA InjectsOwn ==
    ASSUME NEW s, Ready(s), NEW k, NEW a
    PROVE  HandleInjection(s, k, a).code # "PROG"
<1>1. CASE s.setRegs
    BY <1>1, InjectsSet DEF SetByte, SetLast
<1>2. CASE ~s.setRegs /\ k = "WR"
    BY <1>2, InjectsShow DEF GetShow
<1>3. CASE ~s.setRegs /\ k # "WR"
    BY <1>3, InjectsGet DEF GetByte, GetLast
<1> QED
    BY <1>1, <1>2, <1>3

\* A cycle of the program, while the tracker is on and has seen an instruction before,
\* begins behind an injection, or with none of the breakpoints hit.
LEMMA OwnCycles ==
    ASSUME TrackerInv, PrefixesLead, StartCycle, cyc'.code = "PROG", t'.on, t.acq # "NONE"
    PROVE  ShownIsTrue \/ (t.acq = "INJECT_IF_NEW_INSTR" /\ ~Hit(u, NextKind, z.pc))
<1>1. t' = Answered /\ ~cyc.busy /\ cyc'.code = t'.code
    BY DEF StartCycle
<1>2. /\ Ready(u) /\ Same(t, u, {"pagedOut", "pageInDue", "code", "pos0"})
    BY <1>1, AskedIs
<1>3. u.on = t.on /\ u.acq = t.acq
    BY <1>2 DEF Same, Fields
<1>4. t.on
  <2>1. SUFFICES ASSUME ~t.on PROVE FALSE
      OBVIOUS
  <2>2. t' = NoAnswer(t) /\ IsRec(t)
      BY <1>1, <2>1 DEF Answered, TrackerInv, Types
  <2>3. t'.on = t.on
      BY <2>2 DEF NoAnswer, IsRec, Fields
  <2> QED
      BY <2>1, <2>3
<1>5. t.acq # "INJECTING"
  <2>1. SUFFICES ASSUME t.acq = "INJECTING" PROVE FALSE
      OBVIOUS
  <2>2. t' = HandleInjection(u, NextKind, z.pc)
      BY <1>1, <1>3, <1>4, <2>1 DEF Answered, HandleWaitInterrupt, u
  <2> QED
      BY <1>1, <1>2, <2>2, InjectsOwn
<1>6. CASE t.acq = "POST_INJECT"
    BY <1>1, <1>4, <1>6 DEF TrackerInv, Behind
<1>7. CASE t.acq = "INJECT_IF_NEW_INSTR"
  <2>1. ~Opens(t')
      BY <1>1, InjectsOwn DEF Opens, Opened
  <2> QED
      BY <1>1, <1>4, <1>7, <2>1, FromIfNew DEF Passes
<1> QED
    BY <1>5, <1>6, <1>7 DEF TrackerInv, Types, Typed, Acq

\* A breakpoint that is wanted is hit.
LEMMA WantedIsHit ==
    ASSUME TrackerInv, PrefixesLead, Others, Points, ~cyc.busy, z.todo = <<>>, z.pc \in Wanted,
           t.acq \notin {"INJECTING", "POST_INJECT"}
    PROVE  Hit(u, NextKind, z.pc)
<1>1. Same(t, u, {"pagedOut", "pageInDue", "code", "pos0"})
    BY AskedIs
<1>2. u.acq = t.acq /\ u.mode = t.mode /\ u.overPC = t.overPC
    BY <1>1 DEF Same, Fields
<1>3. IsM1(NextKind)
    BY NextKindIs DEF TrackerInv
<1>4. asked \subseteq BK!CheckForBreak(bk)
  <2>1. DOMAIN bk.fast = 1..Len(bk.fast)
      BY DEF Others, BkIs
  <2> QED
      BY <2>1 DEF Points, BK!CheckForBreak
<1>5. z.pc \in BK!CheckForBreak(bk) \/ (t.mode = "OVER" /\ t.overPC = z.pc)
    BY <1>4 DEF Wanted, BK!CheckForBreak
<1> QED
    BY <1>2, <1>3, <1>5 DEF Hit, StepOverHit, BreakHit

\* While the tracker is on, an instruction at which the user wants a breakpoint, or that a
\* step-over waits for, begins only after its registers have been taken
\* (handleStepOverBkpts), provided that the list has room for what the user asks.
THEOREM StopsAtBreakpoints ==
    ASSUME PrefixesLead, RulesKept, EnoughFast
    PROVE  Spec => BreakpointStops
<1> DEFINE Stop == ~cyc.busy /\ cyc'.busy /\ cyc'.code = "PROG" /\ t'.on /\ t.acq # "NONE"
                      /\ z.todo = <<>> /\ z.pc \in Wanted => ShownIsTrue
<1>1. Init => TrackerInv /\ Others /\ Points
  <2>1. ASSUME Init PROVE Points
    <3>1. bk.fast = <<>> /\ asked = {}
        BY <2>1 DEF Init, BK!NoBreakpoints
    <3> QED
        BY <3>1 DEF Points
  <2> QED
      BY <2>1, InitInv, InitOthers
<1>2. TrackerInv /\ Others /\ Points /\ [Next]_vars => (TrackerInv /\ Others /\ Points)'
    BY NextInv, OthersHold, PointsHold
<1>3. TrackerInv /\ Others /\ Points /\ [Next]_vars => [Stop]_vars
  <2>1. SUFFICES ASSUME TrackerInv, Others, Points, Next, ~cyc.busy, cyc'.busy, cyc'.code = "PROG", t'.on,
                        t.acq # "NONE", z.todo = <<>>, z.pc \in Wanted
                 PROVE  ShownIsTrue
      OBVIOUS
  <2>2. StartCycle
    <3>1. StartCycle \/ cyc' = cyc \/ cyc' = Idle
        BY <2>1 DEF Next, Run, Control, EndCycle, Interrupt, ResetPulse, BusGrant, ReportStep, TargetTrackerOn,
               TargetTrackerOff, StepInto, StepRun, ResetTarget, ProgramTarget, StepOver, CompleteTargetProgram,
               FastBreakpoint, NumberedBreakpoint
    <3> QED
        BY <2>1, <3>1 DEF Idle
  <2>3. ShownIsTrue \/ (t.acq = "INJECT_IF_NEW_INSTR" /\ ~Hit(u, NextKind, z.pc))
      BY <2>1, <2>2, OwnCycles
  <2>4. t.acq = "INJECT_IF_NEW_INSTR" => Hit(u, NextKind, z.pc)
      BY <2>1, WantedIsHit
  <2> QED
      BY <2>3, <2>4
<1> QED
    BY <1>1, <1>2, <1>3, PTL DEF Spec, BreakpointStops

-----------------------------------------------------------------------------
(* The tracker implements Z80Program: the program runs as it does without  *)
(* a debugger                                                              *)

\* The state of Z80Program
Todo  == CASE z.code = "PROG" -> z.todo [] z.code = "LOST" -> <<"LOST">> [] OTHER -> <<>>
Order == IF t.setRegs \/ z.code = "SET" THEN {t.copyPC} ELSE {}

\* The abstract state, read off
LEMMA StateIs ==
    ASSUME TrackerInv
    PROVE  /\ z.code = "PROG" => Todo = z.todo
           /\ z.code # "PROG" => Todo = <<>>
           /\ ~t.setRegs /\ z.code # "SET" => Order = {}
           /\ t.setRegs \/ z.code = "SET" => Order = {t.copyPC}
<1>1. z.code \in {"PROG", "GET", "SET"}
    BY DEF TrackerInv, Types, Z80Types, Code
<1> QED
    BY <1>1 DEF Todo, Order

\* The same after a step
LEMMA NextStateIs ==
    ASSUME TrackerInv'
    PROVE  /\ z'.code = "PROG" => Todo' = z'.todo
           /\ z'.code # "PROG" => Todo' = <<>>
           /\ ~t'.setRegs /\ z'.code # "SET" => Order' = {}
           /\ t'.setRegs \/ z'.code = "SET" => Order' = {t'.copyPC}
<1>1. z'.code \in {"PROG", "GET", "SET"}
    BY DEF TrackerInv, Types, Z80Types, Code
<1> QED
    BY <1>1 DEF Todo, Order

\* Its steps
Stutters == z'.pc = z.pc /\ Todo' = Todo /\ Order' = Order
Fetches  == /\ Todo = <<>> /\ Order = {} /\ Order' = {}
            /\ z'.pc \in Succ[z.pc] /\ Todo' = Tail(Program[z.pc])
Goes     == Todo # <<>> /\ Todo' = Tail(Todo) /\ z'.pc = z.pc /\ Order' = Order
Breaks   == /\ Todo = <<>> /\ Order = {} /\ Order' = {}
            /\ z'.pc = IsrAddr /\ Todo' = <<"WR", "WR">>
Resets   == z'.pc = ResetAddr /\ Todo' = <<>> /\ Order' = Order
Orders   == Order = {} /\ (\E a \in Addr : Order' = {a}) /\ z'.pc = z.pc /\ Todo' = Todo
Obeys    == Todo = <<>> /\ z'.pc \in Order /\ Order # {} /\ Order' = {} /\ Todo' = Todo
Moves    == Stutters \/ Fetches \/ Goes \/ Breaks \/ Resets \/ Orders \/ Obeys

\* These are the steps of the abstract program.
LEMMA MovesAre ==
    ASSUME Moves
    PROVE  [Program_!Next]_<<z.pc, Todo, Order>>
<1>1. CASE Stutters
    BY <1>1 DEF Stutters
<1>2. CASE Fetches
    BY <1>2 DEF Fetches, Program_!Next, Program_!Fetch, Todo, Order
<1>3. CASE Goes
    BY <1>3 DEF Goes, Program_!Next, Program_!Continue, Todo, Order
<1>4. CASE Breaks
    BY <1>4 DEF Breaks, Program_!Next, Program_!Interrupt, Todo, Order
<1>5. CASE Resets
    BY <1>5 DEF Resets, Program_!Next, Program_!Reset, Todo, Order
<1>6. CASE Orders
    BY <1>6 DEF Orders, Program_!Next, Program_!Order, Todo, Order
<1>7. CASE Obeys
    BY <1>7 DEF Obeys, Program_!Next, Program_!Obey, Todo, Order
<1> QED
    BY <1>1, <1>2, <1>3, <1>4, <1>5, <1>6, <1>7 DEF Moves

\* Outside an injection nothing is ordered, between two cycles.
LEMMA NoOrder ==
    ASSUME TrackerInv, ~cyc.busy, ~t.setRegs
    PROVE  z.code # "SET" /\ Order = {} /\ (t.acq # "INJECTING" \/ t.pos = 0 => z.code = "PROG" /\ Todo = z.todo)
<1>1. Eating = z.code
    BY DEF Eating
<1>2. z.code # "SET" /\ (t.acq # "INJECTING" \/ t.pos = 0 => z.code = "PROG")
  <2>1. CASE t.acq # "INJECTING"
      BY <1>1, <2>1 DEF TrackerInv, Place, Off
  <2>2. CASE t.acq = "INJECTING"
    <3>1. GetFrom0 \/ GetOn
        BY <2>2 DEF TrackerInv, Place, SetFrom0, SetFrom1, SetOn
    <3>2. GetFrom0 => z.code = "PROG"
        BY <1>1 DEF GetFrom0
    <3>3. GetOn => z.code = "GET" /\ t.pos # 0
        BY <1>1 DEF GetOn
    <3> QED
        BY <2>2, <3>1, <3>2, <3>3
  <2> QED
      BY <2>1, <2>2
<1> QED
    BY <1>2, StateIs

\* Nothing but the code that sets registers, when it is over, takes an order back.
LEMMA InjectsOrder ==
    ASSUME NEW s, Ready(s), NEW k, NEW a
    PROVE  LET n == HandleInjection(s, k, a)
           IN  /\ ~s.setRegs => ~n.setRegs
               /\ s.setRegs => n.copyPC = s.copyPC
               /\ s.setRegs /\ s.pos < SetLen - 1 => n.setRegs
<1> DEFINE n == HandleInjection(s, k, a)
<1>1. CASE s.setRegs /\ s.pos < SetLen - 1
  <2>1. SetByte(s, n)
      BY <1>1, InjectsSet
  <2>2. n.setRegs = s.setRegs /\ n.copyPC = s.copyPC
      BY <2>1 DEF SetByte, Same, Fields
  <2> QED
      BY <1>1, <2>2
<1>2. CASE s.setRegs /\ ~(s.pos < SetLen - 1)
  <2>1. SetLast(s, n)
      BY <1>2, InjectsSet
  <2>2. n.copyPC = s.copyPC
      BY <2>1 DEF SetLast, Same, Fields, AtDone
  <2> QED
      BY <1>2, <2>2
<1>3. CASE ~s.setRegs /\ k = "WR"
  <2>1. GetShow(s, n)
      BY <1>3, InjectsShow
  <2>2. n.setRegs = s.setRegs
      BY <2>1 DEF GetShow, Same, Fields
  <2> QED
      BY <1>3, <2>2
<1>4. CASE ~s.setRegs /\ k # "WR" /\ s.pos < GetLen - 1
  <2>1. GetByte(s, n, a)
      BY <1>4, InjectsGet
  <2>2. n.setRegs = s.setRegs
      BY <2>1 DEF GetByte, Same, Fields, AtGet, AtGrab
  <2> QED
      BY <1>4, <2>2
<1>5. CASE ~s.setRegs /\ k # "WR" /\ ~(s.pos < GetLen - 1)
  <2>1. GetLast(s, n)
      BY <1>5, InjectsGet
  <2>2. n.setRegs = FALSE
      BY <2>1 DEF GetLast, IsDone
  <2> QED
      BY <1>5, <2>2
<1> QED
    BY <1>1, <1>2, <1>3, <1>4, <1>5

\* The beginning of a cycle is not seen by the program.
LEMMA StartCycleMoves ==
    ASSUME TrackerInv, TrackerInv', PrefixesLead, StartCycle
    PROVE  Stutters
<1>1. t' = Answered /\ ~cyc.busy /\ z' = z
    BY DEF StartCycle
<1>2. Ready(u) /\ Same(t, u, {"pagedOut", "pageInDue", "code", "pos0"})
    BY <1>1, AskedIs
<1>3. u.setRegs = t.setRegs /\ u.copyPC = t.copyPC /\ u.pos = t.pos /\ u.acq = t.acq
    BY <1>2 DEF Same, Fields
<1>4. CASE t.setRegs
  <2>1. t.acq = "INJECTING" /\ t.on
      BY <1>4 DEF TrackerInv, Place, Off, Switched
  <2>2. t' = HandleInjection(u, NextKind, z.pc)
      BY <1>1, <1>3, <2>1 DEF Answered, HandleWaitInterrupt, u
  <2>3. t'.copyPC = t.copyPC /\ (t.pos < SetLen - 1 => t'.setRegs)
      BY <1>2, <1>3, <1>4, <2>2, InjectsOrder
  <2>4. ~(t.pos < SetLen - 1) => z.code = "SET"
    <3>1. SetFrom0 \/ SetFrom1 \/ SetOn
        BY <1>4, <2>1 DEF TrackerInv, Place, GetFrom0, GetOn
    <3>2. Eating = z.code
        BY <1>1 DEF Eating
    <3> QED
        BY <3>1, <3>2, LensAre DEF SetFrom0, SetFrom1, SetOn
  <2> QED
      BY <1>1, <1>4, <2>3, <2>4, StateIs, NextStateIs DEF Stutters
<1>5. CASE ~t.setRegs
  <2>1. ~t'.setRegs
    <3>1. CASE ~t.on
      <4>1. t' = NoAnswer(t) /\ IsRec(t)
          BY <1>1, <3>1 DEF Answered, TrackerInv, Types
      <4>2. t'.setRegs = t.setRegs
          BY <4>1 DEF NoAnswer, IsRec, Fields
      <4> QED
          BY <1>5, <4>2
    <3>2. CASE t.on /\ t.acq = "INJECTING"
      <4>1. t' = HandleInjection(u, NextKind, z.pc)
          BY <1>1, <1>3, <3>2 DEF Answered, HandleWaitInterrupt, u
      <4> QED
          BY <1>2, <1>3, <1>5, <4>1, InjectsOrder
    <3>3. CASE t.on /\ t.acq = "INJECT_IF_NEW_INSTR"
      <4>1. Opens(t') \/ Passes(t')
          BY <1>1, <3>3, FromIfNew
      <4>2. Opens(t') => ~t'.setRegs
          BY InjectsOrder DEF Opens, Opened
      <4>3. Passes(t') => t'.setRegs = u.setRegs
          BY DEF Passes, Same, Fields
      <4> QED
          BY <1>3, <1>5, <4>1, <4>2, <4>3
    <3>4. CASE t.on /\ t.acq = "NONE"
      <4>1. Awaits(t')
          BY <1>1, <3>4, FromNone
      <4>2. t'.setRegs = u.setRegs
          BY <4>1 DEF Awaits, Same, Fields
      <4> QED
          BY <1>3, <1>5, <4>2
    <3>5. CASE t.on /\ t.acq = "POST_INJECT"
      <4>1. GoesOff(t') \/ Resumes(t')
          BY <1>1, <3>5, FromPostInject
      <4>2. t'.setRegs = u.setRegs
          BY <4>1 DEF GoesOff, IsOff, Resumes, Same, Fields, AtDisable
      <4> QED
          BY <1>3, <1>5, <4>2
    <3> QED
        BY <3>1, <3>2, <3>3, <3>4, <3>5 DEF TrackerInv, Types, Typed, Acq
  <2> QED
      BY <1>1, <1>5, <2>1, NoOrder, StateIs, NextStateIs DEF Stutters
<1> QED
    BY <1>4, <1>5

\* The end of a cycle takes a byte of the program in, or is not seen.
LEMMA EndCycleMoves ==
    ASSUME TrackerInv, TrackerInv', PrefixesLead, EndCycle
    PROVE  Moves
<1>1. Finishes /\ cyc.busy
    BY DEF Finishes, EndCycle, Released
<1>2. Taken
    BY <1>1, Takes DEF EndCycle
<1>3. t'.setRegs = t.setRegs /\ t'.copyPC = t.copyPC
    BY <1>1, <1>2, TakenTracker
<1>4. cyc.code \in Code /\ z.code \in Code
    BY DEF TrackerInv, Types, Z80Types
<1>5. /\ cyc.code # "PROG" =>
            \/ t.acq = "INJECTING" /\ cyc.code = (IF t.setRegs THEN "SET" ELSE "GET") /\ ~LastByte
            \/ t.acq = "POST_INJECT" /\ LastByte /\ z.code = cyc.code /\ z.todo # <<>> /\ Left = <<>>
      /\ t.acq = "INJECTING" => cyc.code # "PROG"
    BY <1>1 DEF TrackerInv, Answer
<1>6. t.acq # "INJECTING" => ~t.setRegs
    BY DEF TrackerInv, Place, Off
<1>7. CASE OwnFetch
  <2>1. z.todo = <<>> /\ z.code = "PROG" /\ cyc.code = "PROG"
      BY <1>7 DEF OwnFetch
  <2>2. PICK a \in Succ[z.pc] : z' = [z EXCEPT !.pc = a, !.todo = Tail(Program[z.pc])]
      BY <1>7 DEF OwnFetch
  <2>3. z'.pc = a /\ z'.todo = Tail(Program[z.pc]) /\ z'.code = "PROG"
      BY <2>1, <2>2 DEF TrackerInv, Types, Z80Types
  <2>4. ~t.setRegs
      BY <1>5, <1>6, <2>1
  <2>5. Fetches
      BY <1>3, <2>1, <2>3, <2>4, StateIs, NextStateIs DEF Fetches
  <2> QED
      BY <2>5 DEF Moves
<1>8. CASE OwnCycle
  <2>1. /\ z.todo # <<>> /\ z.code = "PROG" /\ z' = [z EXCEPT !.todo = Tail(z.todo)]
      BY <1>8 DEF OwnCycle
  <2>2. z'.pc = z.pc /\ z'.todo = Tail(z.todo) /\ z'.code = "PROG"
      BY <2>1 DEF TrackerInv, Types, Z80Types
  <2>3. Goes
      BY <1>3, <2>1, <2>2, StateIs, NextStateIs DEF Goes
  <2> QED
      BY <2>3 DEF Moves
<1>9. CASE InjectedFetch
  <2>1. /\ z.todo = <<>> /\ cyc.code # "PROG" /\ MayFetch
        /\ z' = [z EXCEPT !.todo = Tail(Snippet[cyc.code][cyc.pos]), !.code = cyc.code]
      BY <1>9 DEF InjectedFetch
  <2>2. z'.pc = z.pc /\ z'.code = cyc.code
      BY <2>1 DEF TrackerInv, Types, Z80Types
  <2>3. cyc.code = (IF t.setRegs THEN "SET" ELSE "GET")
      BY <1>5, <2>1
  <2>4. z.code \in {"PROG", cyc.code}
      BY <2>1 DEF MayFetch
  <2>5. Todo = <<>> /\ Todo' = <<>>
      BY <2>1, <2>2, StateIs, NextStateIs
  <2>6. Order' = Order
      BY <1>3, <2>2, <2>3, <2>4, StateIs, NextStateIs
  <2>7. Stutters
      BY <2>2, <2>5, <2>6 DEF Stutters
  <2> QED
      BY <2>7 DEF Moves
<1>10. CASE InjectedCycle
  <2>1. /\ z.todo # <<>> /\ z.code = cyc.code /\ cyc.code # "PROG"
        /\ z' = [pc   |-> IF LastByte /\ cyc.code = "SET" THEN t.copyPC ELSE z.pc,
                 todo |-> Tail(z.todo), code |-> IF LastByte THEN "PROG" ELSE z.code]
      BY <1>10 DEF InjectedCycle
  <2>2. /\ z'.pc = (IF LastByte /\ cyc.code = "SET" THEN t.copyPC ELSE z.pc) /\ z'.todo = Tail(z.todo)
        /\ z'.code = (IF LastByte THEN "PROG" ELSE z.code)
      BY <2>1
  <2>3. Todo = <<>>
      BY <2>1, StateIs
  <2>4. CASE ~LastByte
    <3>1. z'.pc = z.pc /\ z'.code = z.code /\ Todo' = <<>>
        BY <2>1, <2>2, <2>4, NextStateIs
    <3>2. Order' = Order
        BY <1>3, <3>1, StateIs, NextStateIs
    <3>3. Stutters
        BY <2>3, <3>1, <3>2 DEF Stutters
    <3> QED
        BY <3>3 DEF Moves
  <2>5. CASE LastByte
    <3>1. t.acq = "POST_INJECT" /\ Left = <<>> /\ ~t.setRegs
        BY <1>5, <1>6, <2>1, <2>5
    <3>2. z'.todo = <<>> /\ z'.code = "PROG"
        BY <1>1, <2>1, <2>2, <2>5, <3>1 DEF Left, Eaten
    <3>3. Todo' = <<>> /\ Order' = {}
        BY <1>3, <3>1, <3>2, NextStateIs
    <3>4. CASE cyc.code = "SET"
      <4>1. Order = {t.copyPC} /\ z'.pc = t.copyPC
          BY <2>1, <2>2, <2>5, <3>4, StateIs
      <4>2. Obeys
          BY <2>3, <3>3, <4>1 DEF Obeys
      <4> QED
          BY <4>2 DEF Moves
    <3>5. CASE cyc.code # "SET"
      <4>1. Order = {} /\ z'.pc = z.pc
          BY <2>1, <2>2, <3>1, <3>5, StateIs
      <4>2. Stutters
          BY <2>3, <3>3, <4>1 DEF Stutters
      <4> QED
          BY <4>2 DEF Moves
    <3> QED
        BY <3>4, <3>5
  <2> QED
      BY <2>4, <2>5
<1>11. CASE Misfit
  <2>1. Absorbs
      BY <1>1, <1>11 DEF TrackerInv, Fits, Misfit, MayFetch
  <2>2. z.todo # <<>> /\ z.code = "PROG" /\ Tail(z.todo) = <<>>
      BY <2>1, Tails DEF Absorbs
  <2>3. z'.code \in {"PROG"} /\ z'.todo = <<>> /\ z'.pc = z.pc
    <3>1. z' = IF ~MayAbsorb THEN [z EXCEPT !.code = "LOST"]
               ELSE [z EXCEPT !.todo = IF IsM1(cyc.kind) THEN <<>> ELSE Tail(z.todo)]
        BY <1>11 DEF Misfit
    <3>2. MayAbsorb
        BY <2>1, <2>2 DEF Absorbs, MayAbsorb
    <3>3. z' = [z EXCEPT !.todo = <<>>]
        BY <2>2, <3>1, <3>2
    <3> QED
        BY <2>2, <3>3 DEF TrackerInv, Types, Z80Types
  <2>4. Goes
      BY <1>3, <2>2, <2>3, StateIs, NextStateIs DEF Goes
  <2> QED
      BY <2>4 DEF Moves
<1> QED
    BY <1>7, <1>8, <1>9, <1>10, <1>11 DEF EndCycle

\* The grant of the bus moves the program only where it sets registers.
LEMMA GrantMoves ==
    ASSUME TrackerInv, TrackerInv', BusGrant
    PROVE  Moves
<1> DEFINE s == [t EXCEPT !.busrq = {}]
<1>1. ~cyc.busy /\ z' = z /\ IsRec(t)
    BY DEF BusGrant, TrackerInv, Types
<1>2. /\ s.setRegs = t.setRegs /\ s.copyPC = t.copyPC /\ s.acq = t.acq
    BY <1>1 DEF IsRec, Fields
<1>3. CASE "PROGRAM" \notin t.busrq \/ ~t.on
  <2>1. t' = s
      BY <1>3 DEF BusGrant
  <2>2. Stutters
      BY <1>1, <1>2, <2>1, StateIs, NextStateIs DEF Stutters
  <2> QED
      BY <2>2 DEF Moves
<1>4. CASE "PROGRAM" \in t.busrq /\ t.on
  <2>1. PICK a \in Addr : t' = StartSetRegisterSequence(s, a)
      BY <1>4 DEF BusGrant
  <2> DEFINE c == [s EXCEPT !.copyPC = a, !.known = {}]
  <2>2. c.setRegs = t.setRegs /\ c.copyPC = a
      BY <1>1, <1>2 DEF IsRec, Fields
  <2>3. t' = IF t.acq = "INJECTING" THEN c
             ELSE [c EXCEPT !.acq = "INJECTING", !.hold = FALSE, !.setRegs = TRUE, !.pos = 0]
      BY <1>2, <2>1 DEF StartSetRegisterSequence
  <2>4. ~t.setRegs
      BY <1>4 DEF TrackerInv, Requests, Place, Off
  <2>5. Order = {}
      BY <1>1, <2>4, NoOrder
  <2>6. CASE t.acq = "INJECTING"
    <3>1. ~t'.setRegs
        BY <2>2, <2>3, <2>4, <2>6
    <3>2. z.code # "SET"
        BY <1>1, <2>4, NoOrder
    <3>3. Stutters
        BY <1>1, <2>5, <3>1, <3>2, StateIs, NextStateIs DEF Stutters
    <3> QED
        BY <3>3 DEF Moves
  <2>7. CASE t.acq # "INJECTING"
    <3>1. t' = [c EXCEPT !.acq = "INJECTING", !.hold = FALSE, !.setRegs = TRUE, !.pos = 0]
        BY <2>3, <2>7
    <3>2. t'.setRegs = TRUE /\ t'.copyPC = a
        BY <1>1, <3>1 DEF IsRec, Fields
    <3>3. Order' = {a}
        BY <3>2, NextStateIs
    <3>4. Orders
        BY <1>1, <2>5, <3>3, StateIs, NextStateIs DEF Orders
    <3> QED
        BY <3>4 DEF Moves
  <2> QED
      BY <2>6, <2>7
<1> QED
    BY <1>3, <1>4

\* A RESET begins the program again.
LEMMA ResetMoves ==
    ASSUME TrackerInv, TrackerInv', Rule("RESET_ANYTIME"), ResetPulse
    PROVE  Moves
<1>1. /\ ~cyc.busy /\ z' = [pc |-> ResetAddr, todo |-> <<>>, code |-> "PROG"]
      /\ t.on => \/ t.acq \in {"NONE", "INJECT_IF_NEW_INSTR"}
                 \/ t.resetPending /\ (t.acq = "POST_INJECT" \/ NoInjection)
    BY DEF ResetPulse
<1>2. ~t.setRegs /\ (t.acq # "INJECTING" \/ t.pos = 0)
    BY <1>1 DEF TrackerInv, Switched, NoInjection, Place, Off
<1>3. z'.pc = ResetAddr /\ z'.todo = <<>> /\ z'.code = "PROG"
    BY <1>1
<1>4. t'.setRegs = t.setRegs
  <2>1. \/ t' = [t EXCEPT !.known = {}]
        \/ t' = [t EXCEPT !.known = {}, !.pfx = FALSE, !.resetPending = FALSE,
                          !.acq = IF t.resetPending THEN "INJECTING" ELSE "INJECT_IF_NEW_INSTR"]
      BY DEF ResetPulse
  <2>2. IsRec(t)
      BY DEF TrackerInv, Types
  <2>3. CASE t' = [t EXCEPT !.known = {}]
      BY <2>2, <2>3 DEF IsRec, Fields
  <2>4. CASE t' = [t EXCEPT !.known = {}, !.pfx = FALSE, !.resetPending = FALSE,
                            !.acq = IF t.resetPending THEN "INJECTING" ELSE "INJECT_IF_NEW_INSTR"]
      BY <2>2, <2>4 DEF IsRec, Fields
  <2> QED
      BY <2>1, <2>3, <2>4
<1>5. Resets
    BY <1>1, <1>2, <1>3, <1>4, NoOrder, StateIs, NextStateIs DEF Resets
<1> QED
    BY <1>5 DEF Moves

\* An interrupt goes to its routine from a program that waits between two cycles.
LEMMA InterruptMoves ==
    ASSUME TrackerInv, TrackerInv', Rule("INTERRUPT_ANYTIME"), Interrupt
    PROVE  Moves
<1>1. /\ ~cyc.busy /\ z.todo = <<>> /\ t' = [t EXCEPT !.known = {}]
      /\ ~t.on \/ t.acq \notin {"INJECTING", "POST_INJECT"}
    BY DEF Interrupt
<1>2. t.acq # "INJECTING"
    BY <1>1 DEF TrackerInv, Switched
<1>3. z.code = "PROG" /\ ~t.setRegs
    BY <1>1, <1>2, OutsideIs
<1>4. z' = [z EXCEPT !.pc = IsrAddr, !.todo = <<"WR", "WR">>]
    BY <1>3 DEF Interrupt
<1>5. z'.pc = IsrAddr /\ z'.todo = <<"WR", "WR">> /\ z'.code = "PROG"
    BY <1>3, <1>4 DEF TrackerInv, Types, Z80Types
<1>6. t'.setRegs = t.setRegs
    BY <1>1 DEF TrackerInv, Types, IsRec, Fields
<1>7. Breaks
    BY <1>1, <1>3, <1>5, <1>6, StateIs, NextStateIs DEF Breaks
<1> QED
    BY <1>7 DEF Moves

\* No command is seen by the program.
LEMMA CommandsStutter ==
    ASSUME TrackerInv, TrackerInv', Control \/ ReportStep \/ UNCHANGED vars
    PROVE  Stutters
<1>1. IsRec(t)
    BY DEF TrackerInv, Types
<1>2. z' = z
    BY DEF Control, ReportStep, TargetTrackerOn, TargetTrackerOff, StepInto, StepRun, ResetTarget, ProgramTarget,
           StepOver, CompleteTargetProgram, FastBreakpoint, NumberedBreakpoint, vars
<1>3. t'.setRegs = t.setRegs /\ t'.copyPC = t.copyPC
  <2>1. CASE \E reset \in BOOLEAN : TargetTrackerOn(reset)
      BY <1>1, <2>1 DEF TargetTrackerOn, IsRec, Fields
  <2>2. CASE TargetTrackerOff
    <3> DEFINE s == [t EXCEPT !.mode = "PAUSED", !.hold = FALSE]
    <3>1. IsRec(s) /\ s.setRegs = t.setRegs /\ s.copyPC = t.copyPC
        BY <1>1 DEF IsRec, Fields
    <3>2. IsRec(PageBackIn(s)) /\ Same(s, PageBackIn(s), {"outActive", "pageInDue"})
        BY <3>1, PageBackInDoes
    <3>3. t' = IF DisableNow THEN [PageBackIn(s) EXCEPT !.on = FALSE] ELSE [s EXCEPT !.disablePending = TRUE]
        BY <2>2 DEF TargetTrackerOff
    <3>4. PageBackIn(s).setRegs = s.setRegs /\ PageBackIn(s).copyPC = s.copyPC
        BY <3>2 DEF Same, Fields
    <3> HIDE DEF s
    <3>5. CASE DisableNow
      <4>1. t' = [PageBackIn(s) EXCEPT !.on = FALSE]
          BY <3>3, <3>5
      <4>2. t'.setRegs = PageBackIn(s).setRegs /\ t'.copyPC = PageBackIn(s).copyPC
          BY <3>2, <4>1 DEF IsRec, Fields
      <4> QED
          BY <3>1, <3>4, <4>2
    <3>6. CASE ~DisableNow
      <4>1. t' = [s EXCEPT !.disablePending = TRUE]
          BY <3>3, <3>6
      <4>2. t'.setRegs = s.setRegs /\ t'.copyPC = s.copyPC
          BY <3>1, <4>1 DEF IsRec, Fields
      <4> QED
          BY <3>1, <4>2
    <3> QED
        BY <3>5, <3>6
  <2>3. CASE StepInto \/ StepRun \/ StepOver \/ CompleteTargetProgram
    <3>1. CASE StepInto
        BY <1>1, <3>1 DEF StepInto, IsRec, Fields
    <3>2. CASE StepRun
        BY <1>1, <3>2 DEF StepRun, IsRec, Fields
    <3>3. CASE StepOver
        BY <1>1, <3>3 DEF StepOver, IsRec, Fields
    <3>4. CASE CompleteTargetProgram
        BY <1>1, <3>4 DEF CompleteTargetProgram, IsRec, Fields
    <3> QED
        BY <2>3, <3>1, <3>2, <3>3, <3>4
  <2>4. CASE ProgramTarget
      BY <1>1, <2>4 DEF ProgramTarget, IsRec, Fields
  <2>5. CASE ResetTarget \/ FastBreakpoint \/ NumberedBreakpoint \/ ReportStep \/ UNCHANGED vars
      BY <2>5 DEF ResetTarget, FastBreakpoint, NumberedBreakpoint, ReportStep, vars
  <2> QED
      BY <2>1, <2>2, <2>3, <2>4, <2>5 DEF Control
<1> QED
    BY <1>2, <1>3, StateIs, NextStateIs DEF Stutters

\* The program runs as it does without a debugger (Z80Program): the code that is injected
\* leaves no trace, and an order to set registers is carried out before the next
\* instruction (handleRegisterGet, handleRegisterSet, startSetRegisterSequence).
THEOREM ProgramUndisturbed ==
    ASSUME PrefixesLead, RulesKept
    PROVE  Spec => Transparent
<1>1. Init => Program_!Init
  <2>1. SUFFICES ASSUME Init PROVE Program_!Init
      OBVIOUS
  <2>2. z.pc \in Addr /\ z.todo = <<>> /\ z.code = "PROG" /\ ~t.setRegs
      BY <2>1 DEF Init
  <2>3. Todo = <<>> /\ Order = {}
      BY <2>1, <2>2, InitInv, StateIs
  <2> QED
      BY <2>2, <2>3 DEF Program_!Init, Todo, Order
<1>2. TrackerInv /\ TrackerInv' /\ [Next]_vars => [Program_!Next]_<<z.pc, Todo, Order>>
  <2>1. SUFFICES ASSUME TrackerInv, TrackerInv', [Next]_vars PROVE Moves
      BY MovesAre
  <2>2. Rule("RESET_ANYTIME") /\ Rule("INTERRUPT_ANYTIME")
      BY DEF RulesKept
  <2>3. Stutters => Moves
      BY DEF Moves
  <2> QED
      BY <2>1, <2>2, <2>3, StartCycleMoves, EndCycleMoves, GrantMoves, ResetMoves, InterruptMoves, CommandsStutter
         DEF Next, Run
<1> QED
    BY <1>1, <1>2, TrackerInvariant, PTL DEF Spec, Transparent, Program_!Spec, Todo, Order

=============================================================================

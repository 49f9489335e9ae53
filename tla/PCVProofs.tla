------------------------------ MODULE PCVProofs ------------------------------
(****************************************************************************)
(* Theorems about the point cloud add-on, for clouds, headers and animations  *)
(* of every size: what the render operators give back, what an export that is *)
(* cut off leaves on the disk, which points a file is read as, what a         *)
(* simplification samples, and what the redraws show of a cloud; and about    *)
(* the converter of certificates, for files of every length.                  *)
(****************************************************************************)
EXTENDS PCVRender, PCVFiles, PCVSimplify, PCVShading, CHeader, SequenceTheorems,
        FiniteSetTheorems, WellFoundedInduction, TLAPS

-----------------------------------------------------------------------------
(* The render operators.                                                      *)

(* The view and the image are the operator's own only while the file is       *)
(* written, and the user's view is saved by then.                             *)
ViewKept ==
    IF step = "write" THEN saved.view = "user"
    ELSE scene.view = "user" /\ images = 0

(* The colour depth is the user's, or saved while a frame is rendered; the    *)
(* frame is the user's, or kept by the animation.                             *)
SceneKept ==
    /\ IF step = "none" THEN scene.color_depth = "user" ELSE saved.original_depth = "user"
    /\ IF animation = 0 THEN scene.frame = chosen ELSE animation = chosen

RenderInv ==
    /\ scene \in [color_depth: {"user", "8"}, view: {"user", "png"}, frame: 1 .. LastFrame]
    /\ saved \in [original_depth: {"user", "8"}, cd: {"user", "8"}, view: {"user", "png"}]
    /\ step \in {"none", "check", "save", "write"}
    /\ animation \in 0 .. LastFrame /\ chosen \in 1 .. LastFrame
    /\ ViewKept
    /\ ~failed => SceneKept

(* Every step of a render keeps what the user had within reach.               *)
LEMMA RenderStep ==
    ASSUME RenderInv, [RenderNext]_renderVars
    PROVE  RenderInv'
<1> USE RenderAssumption DEF RenderInv, ViewKept, SceneKept
<1>1. CASE Render
  BY <1>1 DEF Render, Begin
<1>2. CASE RenderCancelled
  <2>1. failed'
    BY <1>2 DEF RenderCancelled, Return
  <2> QED
    BY <1>2, <2>1 DEF RenderCancelled, Return
<1>3. CASE DrawOffscreen
  <2>1. CASE step' = "save" /\ UNCHANGED <<animation, failed>>
    BY <1>3, <2>1 DEF DrawOffscreen
  <2>2. CASE Return(TRUE)
    <3>1. failed'
      BY <1>3, <2>2 DEF DrawOffscreen, Return
    <3> QED
      BY <1>3, <2>2, <3>1 DEF DrawOffscreen, Return
  <2> QED
    BY <1>3, <2>1, <2>2 DEF DrawOffscreen
<1>4. CASE BeginSave
  BY <1>4 DEF BeginSave
<1>5. CASE EndSave
  <2>1. PICK ok \in BOOLEAN :
           /\ scene' = [scene EXCEPT !.view = view_after(ok), !.color_depth = saved.original_depth]
           /\ Return(~ok)
    BY <1>5 DEF EndSave
  <2>2. /\ scene'.view = "user" /\ scene'.color_depth = saved.original_depth
        /\ scene'.frame = scene.frame /\ step' = "none" /\ images' = 0
        /\ saved' = saved /\ chosen' = chosen
        /\ scene' \in [color_depth: {"user", "8"}, view: {"user", "png"}, frame: 1 .. LastFrame]
    BY <1>5, <2>1 DEF EndSave, Return, view_after
  <2>3. animation' \in {0, animation}
    BY <2>1 DEF Return
  <2>4. ~failed' => ~failed /\ (ok \/ animation = 0)
    BY <1>5, <2>1 DEF EndSave, Return
  <2>5. (ok \/ animation = 0) => animation' = animation
    BY <2>1 DEF Return
  <2> QED
    BY <1>5, <2>2, <2>3, <2>4, <2>5 DEF EndSave
<1>6. CASE RenderAnimation
  <2>1. /\ scene' = [scene EXCEPT !.frame = 1, !.color_depth = "8"]
        /\ animation' = scene.frame /\ scene.frame \in 1 .. LastFrame /\ animation' # 0
        /\ saved' = [saved EXCEPT !.original_depth = scene.color_depth] /\ step' = "check"
        /\ images' = images /\ chosen' = chosen /\ failed' = failed
        /\ step = "none" /\ animation = 0
    BY <1>6 DEF RenderAnimation, Begin
  <2>2. scene'.view = scene.view /\ saved'.original_depth = scene.color_depth
    BY <2>1
  <2>3. scene' \in [color_depth: {"user", "8"}, view: {"user", "png"}, frame: 1 .. LastFrame]
    <3>1. 1 \in 1 .. LastFrame
      OBVIOUS
    <3> QED
      BY <2>1, <3>1
  <2>4. saved' \in [original_depth: {"user", "8"}, cd: {"user", "8"}, view: {"user", "png"}]
    BY <2>1
  <2>5. animation' \in 0 .. LastFrame
    BY <2>1
  <2>6. ~failed' => SceneKept'
    BY <2>1, <2>2
  <2> QED
    BY <2>1, <2>2, <2>3, <2>4, <2>5, <2>6
<1>7. CASE NextFrame
  <2>1. /\ scene' = [scene EXCEPT !.frame = scene.frame + 1, !.color_depth = "8"]
        /\ scene.frame + 1 \in 1 .. LastFrame /\ animation' = animation /\ animation # 0
        /\ saved' = [saved EXCEPT !.original_depth = scene.color_depth] /\ step' = "check"
        /\ images' = images /\ chosen' = chosen /\ failed' = failed /\ step = "none"
    BY <1>7 DEF NextFrame, Begin
  <2>2. scene'.view = scene.view /\ saved'.original_depth = scene.color_depth
    BY <2>1
  <2>3. scene' \in [color_depth: {"user", "8"}, view: {"user", "png"}, frame: 1 .. LastFrame]
    BY <2>1
  <2>4. saved' \in [original_depth: {"user", "8"}, cd: {"user", "8"}, view: {"user", "png"}]
    BY <2>1
  <2> QED
    BY <2>1, <2>2, <2>3, <2>4
<1>8. CASE AnimationDone
  BY <1>8 DEF AnimationDone
<1>9. CASE SetScene
  BY <1>9 DEF SetScene
<1>10. CASE UNCHANGED renderVars
  BY <1>10 DEF renderVars
<1> QED
  BY <1>1, <1>2, <1>3, <1>4, <1>5, <1>6, <1>7, <1>8, <1>9, <1>10 DEF RenderNext

(* Between renders the view settings are the user's and no image is left,     *)
(* whatever failed in PCV_OT_render or PCV_OT_render_animation; so are the    *)
(* colour depth and the frame, but after a render that gave up early.         *)
THEOREM RendersRestore == RenderSpec => []RenderRestores
<1>1. RenderInit => RenderInv
  BY RenderAssumption DEF RenderInit, RenderInv, ViewKept, SceneKept
<1>2. RenderInv => RenderRestores
  BY DEF RenderInv, RenderRestores, ViewKept, SceneKept
<1> QED
  BY <1>1, <1>2, RenderStep, PTL DEF RenderSpec
-----------------------------------------------------------------------------
(* The writer of PLY files.                                                   *)

(* The target is whole until the temporary file is, and from then on the      *)
(* temporary file is, until it has the name of the target.                    *)
FilesInv ==
    /\ writing \in {"no", "data", "remove", "move"}
    /\ disk \in [target: {"none", "old", "new"}, temp: {"none", "part", "new"}]
    /\ writing = "data" => (kept => disk.target \in Whole)
    /\ writing \in {"remove", "move"} => disk.temp = "new"
    /\ NothingLost

(* Every step of an export, and a crash in between, leaves a whole file.      *)
LEMMA FilesStep ==
    ASSUME FilesInv, [FilesNext]_filesVars
    PROVE  FilesInv'
<1> USE DEF FilesInv, NothingLost, Whole
<1>1. CASE AddElement
  BY <1>1 DEF AddElement
<1>2. CASE Export
  BY <1>2 DEF Export
<1>3. CASE WriteData
  BY <1>3 DEF WriteData
<1>4. CASE RemoveOriginal
  BY <1>4 DEF RemoveOriginal
<1>5. CASE Move
  BY <1>5 DEF Move
<1>6. CASE Crash
  BY <1>6 DEF Crash
<1>7. CASE UNCHANGED filesVars
  BY <1>7 DEF filesVars
<1> QED
  BY <1>1, <1>2, <1>3, <1>4, <1>5, <1>6, <1>7 DEF FilesNext

(* Wherever an export is cut off, a file that was there is still there as it  *)
(* was, or the new one is whole, under one of the two names.                  *)
THEOREM ExportsLoseNothing == FilesSpec => []NothingLost
<1>1. FilesInit => FilesInv
  BY DEF FilesInit, FilesInv, NothingLost
<1>2. FilesInv => NothingLost
  BY DEF FilesInv
<1> QED
  BY <1>1, <1>2, FilesStep, PTL DEF FilesSpec
-----------------------------------------------------------------------------
(* The simplification.                                                        *)

(* The elements of s differ; those of s differ from those of t; none is       *)
(* larger than n.                                                             *)
Distinct(s) == \A i, j \in 1 .. Len(s) : s[i] = s[j] => i = j
Apart(s, t) == \A i \in 1 .. Len(s), j \in 1 .. Len(t) : s[i] # t[j]
UpTo(s, n) == \A i \in 1 .. Len(s) : s[i] <= n

(* x is an element of s.                                                      *)
In(x, s) == \E i \in 1 .. Len(s) : s[i] = x

(* Point x is a multiple of m, the distance of the slices.  Of a pool of l    *)
(* points, the slices up to point n have met point x.                         *)
Gap(x, m) == \E j \in Nat \ {0} : x = j * m
Met(x, n, l, m) == x < l /\ x <= n /\ ~Gap(x, m)

(* The elements of s, r and c are the points that the slices up to n have met. *)
Covered(s, r, c, n, l, m) ==
    \A x \in Nat : (In(x, s) \/ In(x, r) \/ In(x, c)) <=> Met(x, n, l, m)

(* The samples and the candidates that come back are different points, namely *)
(* all that the slices have met; the slices lie one point apart.              *)
Sampling ==
    /\ job \in [length: Nat, num_samples: Nat, candidates: Nat \ {0}]
    /\ Len(samples) # 0 /\ last_used = (Len(samples) - 1) * (job.candidates + 1)
    /\ samples \in Seq(Nat) /\ unused_pool \in Seq(Nat) /\ last_used \in Nat
    /\ Distinct(samples) /\ Distinct(unused_pool) /\ Apart(samples, unused_pool)
    /\ UpTo(samples, last_used) /\ UpTo(unused_pool, last_used)
    /\ Covered(samples, unused_pool, << >>, last_used, job.length, job.candidates + 1)

SimplifyInv ==
    \/ job = << >> /\ samples = << >> /\ last_used = 0 /\ unused_pool = << >>
    \/ Sampling

(* The smaller of two numbers.                                                *)
LEMMA MinIs ==
    ASSUME NEW a \in Nat, NEW b \in Nat
    PROVE  Min({a, b}) = IF a <= b THEN a ELSE b
<1> DEFINE m == IF a <= b THEN a ELSE b
<1>1. m \in {a, b} /\ \A y \in {a, b} : m <= y
  OBVIOUS
<1>2. \A x \in {a, b} : (\A y \in {a, b} : x <= y) => x = m
  OBVIOUS
<1> QED
  BY <1>1, <1>2 DEF Min

(* A sequence of different elements has as many as it is long.                *)
LEMMA DistinctCount ==
    ASSUME NEW s \in Seq(Nat), Distinct(s)
    PROVE  Cardinality(ToSet(s)) = Len(s)
<1>1. DOMAIN s = 1 .. Len(s) /\ Len(s) \in Nat
  OBVIOUS
<1>2. s \in Bijection(1 .. Len(s), ToSet(s))
  <2>1. s \in [1 .. Len(s) -> ToSet(s)]
    BY <1>1 DEF ToSet
  <2>2. \A y \in ToSet(s) : \E i \in 1 .. Len(s) : s[i] = y
    BY <1>1 DEF ToSet
  <2>3. \A i, j \in 1 .. Len(s) : s[i] = s[j] => i = j
    BY DEF Distinct
  <2> QED
    BY <2>1, <2>2, <2>3 DEF Bijection, Injection, Surjection, IsInjective
<1>3. ExistsBijection(1 .. Len(s), ToSet(s))
  BY <1>2 DEF ExistsBijection
<1> QED
  BY <1>1, <1>3, FS_CountingElements

(* A sequence without its i-th element.                                       *)
LEMMA RemoveAtIs ==
    ASSUME NEW c \in Seq(Nat), NEW i \in 1 .. Len(c)
    PROVE  /\ RemoveAt(c, i) \in Seq(Nat) /\ Len(RemoveAt(c, i)) = Len(c) - 1
           /\ \A k \in 1 .. Len(c) - 1 : RemoveAt(c, i)[k] = c[IF k < i THEN k ELSE k + 1]
<1> DEFINE a == SubSeq(c, 1, i - 1)
           b == SubSeq(c, i + 1, Len(c))
<1>1. a \in Seq(Nat) /\ Len(a) = i - 1 /\ \A k \in 1 .. i - 1 : a[k] = c[k]
  OBVIOUS
<1>2. b \in Seq(Nat) /\ Len(b) = Len(c) - i /\ \A k \in 1 .. Len(c) - i : b[k] = c[i + k]
  OBVIOUS
<1>3. RemoveAt(c, i) = a \o b
  BY DEF RemoveAt
<1> HIDE DEF a, b
<1>4. /\ a \o b \in Seq(Nat) /\ Len(a \o b) = Len(c) - 1
      /\ \A k \in 1 .. Len(c) - 1 : (a \o b)[k] = IF k < i THEN a[k] ELSE b[k - (i - 1)]
  <2>1. /\ a \o b \in Seq(Nat) /\ Len(a \o b) = Len(a) + Len(b)
        /\ \A k \in 1 .. Len(a) + Len(b) : (a \o b)[k] = IF k <= Len(a) THEN a[k] ELSE b[k - Len(a)]
    BY <1>1, <1>2, ConcatProperties
  <2>2. Len(a) + Len(b) = Len(c) - 1 /\ \A k \in Int : k <= Len(a) <=> k < i
    BY <1>1, <1>2
  <2>3. ASSUME NEW k \in 1 .. Len(c) - 1
        PROVE  (a \o b)[k] = IF k < i THEN a[k] ELSE b[k - (i - 1)]
    <3>1. k \in 1 .. Len(a) + Len(b)
      BY <2>2
    <3>2. (a \o b)[k] = IF k <= Len(a) THEN a[k] ELSE b[k - Len(a)]
      BY <2>1, <3>1
    <3>3. Len(a) = i - 1 /\ (k <= Len(a) <=> k < i)
      BY <1>1, <2>2
    <3> QED
      BY <3>2, <3>3
  <2> QED
    BY <2>1, <2>2, <2>3
<1>5. ASSUME NEW k \in 1 .. Len(c) - 1
      PROVE  (a \o b)[k] = c[IF k < i THEN k ELSE k + 1]
  <2>1. CASE k < i
    BY <1>1, <1>4, <2>1
  <2>2. CASE ~(k < i)
    <3>1. k - (i - 1) \in 1 .. Len(c) - i /\ i + (k - (i - 1)) = k + 1
      BY <2>2
    <3> QED
      BY <1>2, <1>4, <2>2, <3>1
  <2> QED
    BY <2>1, <2>2
<1> QED
  BY <1>3, <1>4, <1>5

(* The samples s with the m-th of the candidates c, the others back in r.     *)
Chosen(s, c, m) == Append(s, c[m])
Back(r, c, m) == r \o RemoveAt(c, m)

(* Samples u and others v: different points up to n, those of s, r and c.     *)
Parted(u, v, n, s, r, c) ==
    /\ u \in Seq(Nat) /\ v \in Seq(Nat) /\ UpTo(u, n) /\ UpTo(v, n)
    /\ Distinct(u) /\ Distinct(v) /\ Apart(u, v)
    /\ \A x : (In(x, u) \/ In(x, v)) <=> (In(x, s) \/ In(x, r) \/ In(x, c))
    /\ Len(u) = Len(s) + 1

(* One round: of the candidates c, different from the samples s and from the  *)
(* others r, one becomes a sample and the rest comes back.                    *)
LEMMA RoundKeeps ==
    ASSUME NEW s \in Seq(Nat), NEW r \in Seq(Nat), NEW c \in Seq(Nat), NEW m \in 1 .. Len(c),
           NEW n \in Nat, UpTo(s, n), UpTo(r, n), UpTo(c, n),
           Distinct(s), Distinct(r), Distinct(c), Apart(s, r), Apart(s, c), Apart(r, c)
    PROVE  Parted(Chosen(s, c, m), Back(r, c, m), n, s, r, c)
<1> DEFINE d == RemoveAt(c, m)
           u == Append(s, c[m])
           v == r \o d
           At(k) == IF k < m THEN k ELSE k + 1
<1>1. /\ d \in Seq(Nat) /\ Len(d) = Len(c) - 1
      /\ \A k \in 1 .. Len(c) - 1 : d[k] = c[At(k)]
  BY RemoveAtIs
<1>2. \A k \in 1 .. Len(c) - 1 : At(k) \in 1 .. Len(c) /\ At(k) # m
  OBVIOUS
<1>3. \A j, k \in 1 .. Len(c) - 1 : At(j) = At(k) => j = k
  OBVIOUS
<1> HIDE DEF d, At
<1>4. Distinct(d) /\ Apart(s, d) /\ Apart(r, d) /\ UpTo(d, n) /\ \A k \in 1 .. Len(d) : d[k] # c[m]
  <2>1. Distinct(d)
    <3> SUFFICES ASSUME NEW j \in 1 .. Len(d), NEW k \in 1 .. Len(d), d[j] = d[k]
                 PROVE  j = k
      BY DEF Distinct
    <3>1. At(j) \in 1 .. Len(c) /\ At(k) \in 1 .. Len(c) /\ c[At(j)] = c[At(k)]
      BY <1>1, <1>2
    <3>2. At(j) = At(k)
      BY <3>1 DEF Distinct
    <3> QED
      BY <1>1, <1>3, <3>2
  <2>2. ASSUME NEW k \in 1 .. Len(d) PROVE \E i \in 1 .. Len(c) : d[k] = c[i]
    <3>1. At(k) \in 1 .. Len(c) /\ d[k] = c[At(k)]
      BY <1>1, <1>2
    <3> QED
      BY <3>1
  <2>3. Apart(s, d) /\ Apart(r, d)
    BY ONLY <2>2, Apart(s, c), Apart(r, c) DEF Apart
  <2>4. UpTo(d, n)
    BY ONLY <2>2, UpTo(c, n) DEF UpTo
  <2>5. ASSUME NEW k \in 1 .. Len(d) PROVE d[k] # c[m]
    <3>1. At(k) \in 1 .. Len(c) /\ At(k) # m /\ d[k] = c[At(k)]
      BY <1>1, <1>2
    <3>2. \A i, j \in 1 .. Len(c) : c[i] = c[j] => i = j
      BY DEF Distinct
    <3> QED
      BY ONLY <3>1, <3>2, m \in 1 .. Len(c)
  <2> QED
    BY <2>1, <2>3, <2>4, <2>5
<1>5. c[m] \in Nat /\ c[m] <= n
  BY DEF UpTo
<1>6. /\ u \in Seq(Nat) /\ Len(u) = Len(s) + 1
      /\ \A i \in 1 .. Len(s) + 1 : u[i] = IF i <= Len(s) THEN s[i] ELSE c[m]
  BY <1>5
<1>7. /\ v \in Seq(Nat) /\ Len(v) = Len(r) + Len(d)
      /\ \A i \in 1 .. Len(r) + Len(d) : v[i] = IF i <= Len(r) THEN r[i] ELSE d[i - Len(r)]
  BY <1>1, ConcatProperties
<1>8. Len(s) \in Nat /\ Len(r) \in Nat /\ Len(d) \in Nat
  BY <1>1
<1> HIDE DEF u, v
<1>9. ASSUME NEW k \in 1 .. Len(v)
      PROVE  \/ k \in 1 .. Len(r) /\ v[k] = r[k]
             \/ k - Len(r) \in 1 .. Len(d) /\ v[k] = d[k - Len(r)]
  <2>1. k \in 1 .. Len(r) + Len(d)
    BY <1>7
  <2>2. v[k] = IF k <= Len(r) THEN r[k] ELSE d[k - Len(r)]
    BY <1>7, <2>1
  <2>3. CASE k <= Len(r)
    BY <1>8, <2>1, <2>2, <2>3
  <2>4. CASE ~ (k <= Len(r))
    <3>1. k - Len(r) \in 1 .. Len(d)
      BY <1>8, <2>1, <2>4
    <3> QED
      BY <2>2, <2>4, <3>1
  <2> QED
    BY <2>3, <2>4
<1>10. ASSUME NEW k \in 1 .. Len(u)
       PROVE  \/ k \in 1 .. Len(s) /\ u[k] = s[k]
              \/ k = Len(s) + 1 /\ u[k] = c[m]
  BY <1>6, <1>8
<1>11. UpTo(u, n) /\ UpTo(v, n)
  <2>1. UpTo(u, n)
    <3> SUFFICES ASSUME NEW i \in 1 .. Len(u) PROVE u[i] <= n
      BY DEF UpTo
    <3> QED
      BY <1>5, <1>10 DEF UpTo
  <2>2. UpTo(v, n)
    <3> SUFFICES ASSUME NEW i \in 1 .. Len(v) PROVE v[i] <= n
      BY DEF UpTo
    <3> QED
      BY <1>4, <1>9 DEF UpTo
  <2> QED
    BY <2>1, <2>2
<1>12. Distinct(u)
  <2>1. \A i \in 1 .. Len(s) : s[i] # c[m]
    BY DEF Apart
  <2> SUFFICES ASSUME NEW i \in 1 .. Len(u), NEW j \in 1 .. Len(u), u[i] = u[j]
               PROVE  i = j
    BY DEF Distinct
  <2> QED
    BY <1>10, <2>1 DEF Distinct
<1>13. Distinct(v)
  <2> SUFFICES ASSUME NEW i \in 1 .. Len(v), NEW j \in 1 .. Len(v), v[i] = v[j]
               PROVE  i = j
    BY DEF Distinct
  <2>1. i - Len(r) = j - Len(r) => i = j
    BY <1>7, <1>8
  <2>2. CASE i \in 1 .. Len(r) /\ v[i] = r[i]
    <3>1. j \in 1 .. Len(r) /\ v[j] = r[j]
      <4>1. ASSUME j - Len(r) \in 1 .. Len(d), v[j] = d[j - Len(r)]
            PROVE  FALSE
        BY <1>4, <2>2, <4>1 DEF Apart
      <4> QED
        BY <1>9, <4>1
    <3> QED
      BY <2>2, <3>1 DEF Distinct
  <2>3. CASE i - Len(r) \in 1 .. Len(d) /\ v[i] = d[i - Len(r)]
    <3>1. j - Len(r) \in 1 .. Len(d) /\ v[j] = d[j - Len(r)]
      BY <1>4, <1>9, <2>3 DEF Apart
    <3> QED
      BY <1>4, <2>1, <2>3, <3>1 DEF Distinct
  <2> QED
    BY <1>9, <2>2, <2>3
<1>14. Apart(u, v)
  <2> SUFFICES ASSUME NEW i \in 1 .. Len(u), NEW j \in 1 .. Len(v), u[i] = v[j]
               PROVE  FALSE
    BY DEF Apart
  <2>1. ASSUME NEW w, (w = s[i] /\ i \in 1 .. Len(s)) \/ w = c[m], w = v[j]
        PROVE  FALSE
    <3>1. CASE j \in 1 .. Len(r) /\ v[j] = r[j]
      BY <2>1, <3>1 DEF Apart
    <3>2. CASE j - Len(r) \in 1 .. Len(d) /\ v[j] = d[j - Len(r)]
      BY <1>4, <2>1, <3>2 DEF Apart
    <3> QED
      BY <1>9, <3>1, <3>2
  <2> QED
    BY <1>10, <2>1
<1>15. ASSUME NEW x
       PROVE  (In(x, u) \/ In(x, v)) <=> (In(x, s) \/ In(x, r) \/ In(x, c))
  <2>1. In(x, u) <=> In(x, s) \/ x = c[m]
    <3>1. ASSUME NEW i \in 1 .. Len(s) PROVE i \in 1 .. Len(u) /\ u[i] = s[i]
      <4>1. i \in 1 .. Len(s) + 1 /\ i <= Len(s)
        BY ONLY <1>8, i \in 1 .. Len(s)
      <4> QED
        BY ONLY <1>6, <4>1
    <3>2. Len(s) + 1 \in 1 .. Len(u) /\ u[Len(s) + 1] = c[m]
      <4>1. Len(s) + 1 \in 1 .. Len(s) + 1 /\ ~(Len(s) + 1 <= Len(s))
        BY ONLY <1>8
      <4> QED
        BY ONLY <1>6, <4>1
    <3> QED
      BY <1>10, <3>1, <3>2 DEF In
  <2>2. In(x, v) <=> In(x, r) \/ In(x, d)
    <3>1. ASSUME NEW i \in 1 .. Len(r) PROVE i \in 1 .. Len(v) /\ v[i] = r[i]
      <4>1. i \in 1 .. Len(r) + Len(d) /\ i <= Len(r)
        BY ONLY <1>8, i \in 1 .. Len(r)
      <4> QED
        BY ONLY <1>7, <4>1
    <3>2. ASSUME NEW i \in 1 .. Len(d) PROVE Len(r) + i \in 1 .. Len(v) /\ v[Len(r) + i] = d[i]
      <4>1. Len(r) + i \in 1 .. Len(r) + Len(d) /\ ~(Len(r) + i <= Len(r)) /\ Len(r) + i - Len(r) = i
        BY ONLY <1>8, i \in 1 .. Len(d)
      <4>2. ASSUME NEW j \in 1 .. Len(r) + Len(d), ~(j <= Len(r)), j - Len(r) = i
            PROVE  j \in 1 .. Len(v) /\ v[j] = d[i]
        BY ONLY <1>7, <4>2
      <4> QED
        BY ONLY <4>1, <4>2
    <3> QED
      BY <1>9, <3>1, <3>2 DEF In
  <2>3. In(x, c) <=> In(x, d) \/ x = c[m]
    <3>1. ASSUME NEW k \in 1 .. Len(d) PROVE \E i \in 1 .. Len(c) : d[k] = c[i]
      <4>1. At(k) \in 1 .. Len(c) /\ d[k] = c[At(k)]
        BY <1>1, <1>2
      <4> QED
        BY <4>1
    <3>2. ASSUME NEW i \in 1 .. Len(c), i # m PROVE \E k \in 1 .. Len(d) : d[k] = c[i]
      <4> DEFINE k == IF i < m THEN i ELSE i - 1
      <4>1. k \in 1 .. Len(c) - 1 /\ At(k) = i
        BY <3>2 DEF At
      <4> QED
        BY <1>1, <4>1
    <3> QED
      BY <3>1, <3>2 DEF In
  <2> QED
    BY <2>1, <2>2, <2>3
<1> QED
  <2>1. Parted(u, v, n, s, r, c)
    BY <1>6, <1>7, <1>11, <1>12, <1>13, <1>14, <1>15 DEF Parted
  <2> QED
    BY <2>1 DEF u, v, d, Chosen, Back

(* Between two multiples of m there is none.                                  *)
LEMMA NoGap ==
    ASSUME NEW q \in Nat, NEW m \in Nat \ {0}, NEW x \in Nat, q * m < x, x < q * m + m
    PROVE  ~Gap(x, m)
<1> SUFFICES ASSUME NEW j \in Nat \ {0}, x = j * m PROVE FALSE
  BY DEF Gap
<1>1. CASE j <= q
  <2>1. (q - j) * m = q * m - j * m /\ (q - j) * m >= 0
    BY <1>1
  <2> QED
    BY <2>1
<1>2. CASE j >= q + 1
  <2>1. (j - (q + 1)) * m = j * m - (q * m + m) /\ (j - (q + 1)) * m >= 0
    BY <1>2
  <2> QED
    BY <2>1
<1> QED
  BY <1>1, <1>2

(* The next slice meets what lies between two multiples of m.                 *)
LEMMA SliceMeets ==
    ASSUME NEW q \in Nat, NEW m \in Nat \ {0}, NEW l \in Nat, NEW x \in Nat
    PROVE  Met(x, q * m + m, l, m) <=>
             Met(x, q * m, l, m) \/ (x < l /\ q * m < x /\ x < q * m + m)
<1>1. q * m \in Nat
  OBVIOUS
<1>2. Gap(q * m + m, m)
  <2>1. (q + 1) * m = q * m + m /\ q + 1 \in Nat \ {0}
    OBVIOUS
  <2> QED
    BY <2>1 DEF Gap
<1>3. x <= q * m + m => x <= q * m \/ (q * m < x /\ x < q * m + m) \/ x = q * m + m
  BY <1>1
<1>4. x <= q * m \/ (q * m < x /\ x < q * m + m) => x <= q * m + m
  BY <1>1
<1> QED
  BY <1>2, <1>3, <1>4, NoGap DEF Met

(* The empty sequence has no elements.                                        *)
LEMMA NotIn == \A x : ~In(x, << >>)
BY DEF In

(* The candidates, and what stays in unused_pool: different points, with the  *)
(* samples all that the slices have met after this round.                     *)
LEMMA CandidatesAre ==
    ASSUME Sampling
    PROVE  LET rest == IF next_points # << >> THEN unused_pool
                       ELSE SubSeq(unused_pool, Len(cands) + 1, Len(unused_pool))
               n == last_used + 1 + job.candidates
           IN  /\ cands \in Seq(Nat) /\ rest \in Seq(Nat)
               /\ UpTo(cands, n) /\ UpTo(rest, n)
               /\ Distinct(cands) /\ Distinct(rest)
               /\ Apart(samples, rest) /\ Apart(samples, cands) /\ Apart(rest, cands)
               /\ n \in Nat
               /\ Covered(samples, rest, cands, n, job.length, job.candidates + 1)
               /\ cands = << >> => rest = << >> /\ job.length <= n
<1> DEFINE rest == IF next_points # << >> THEN unused_pool
                   ELSE SubSeq(unused_pool, Len(cands) + 1, Len(unused_pool))
           n == last_used + 1 + job.candidates
           L == job.length
           K == job.candidates
           k == Min({K, L - Min({L, last_used + 1})})
<1>1. L \in Nat /\ K \in Nat /\ K >= 1 /\ last_used \in Nat /\ n \in Nat /\ n = last_used + 1 + K
  BY DEF Sampling
<1>2. k = IF L <= last_used + 1 THEN 0 ELSE IF K <= L - (last_used + 1) THEN K ELSE L - (last_used + 1)
  <2>1. Min({L, last_used + 1}) = IF L <= last_used + 1 THEN L ELSE last_used + 1
    BY <1>1, MinIs
  <2>2. L - Min({L, last_used + 1}) = IF L <= last_used + 1 THEN 0 ELSE L - (last_used + 1)
    BY <1>1, <2>1
  <2> DEFINE rm == L - Min({L, last_used + 1})
  <2>3. rm \in Nat
    BY <1>1, <2>2
  <2> HIDE DEF rm, K
  <2>4. Min({K, rm}) = IF K <= rm THEN K ELSE rm
    BY <1>1, <2>3, MinIs
  <2> QED
    BY <1>1, <2>2, <2>3, <2>4 DEF rm, K
<1>3. next_points = [i \in 1 .. k |-> last_used + i]
  BY DEF next_points
<1>4. samples \in Seq(Nat) /\ unused_pool \in Seq(Nat) /\ Len(samples) \in Nat /\ Len(unused_pool) \in Nat
  BY DEF Sampling
<1>5. /\ Distinct(samples) /\ Distinct(unused_pool) /\ Apart(samples, unused_pool)
      /\ UpTo(samples, last_used) /\ UpTo(unused_pool, last_used)
      /\ Covered(samples, unused_pool, << >>, last_used, L, K + 1)
      /\ last_used = (Len(samples) - 1) * (K + 1) /\ Len(samples) # 0
  BY DEF Sampling
<1> HIDE DEF k, L, K
<1>10. ASSUME NEW x \in Nat
       PROVE  Met(x, n, L, K + 1) <=>
                Met(x, last_used, L, K + 1) \/ (x < L /\ last_used < x /\ x <= last_used + K)
  <2> DEFINE q == Len(samples) - 1
             M == K + 1
  <2>1. q \in Nat /\ M \in Nat \ {0} /\ q * M = last_used /\ q * M + M = n
    BY <1>1, <1>4, <1>5
  <2>2. x < last_used + M <=> x <= last_used + K
    BY <1>1
  <2> HIDE DEF q, M, n
  <2>3. Met(x, q * M + M, L, M) <=>
          Met(x, q * M, L, M) \/ (x < L /\ q * M < x /\ x < q * M + M)
    BY <1>1, <2>1, SliceMeets
  <2> QED
    BY <2>1, <2>2, <2>3 DEF M
<1>11. ASSUME NEW x \in Nat
       PROVE  In(x, samples) \/ In(x, unused_pool) <=> Met(x, last_used, L, K + 1)
  BY <1>5, NotIn DEF Covered
<1>6. /\ k \in Nat /\ k <= K /\ next_points \in Seq(Nat) /\ Len(next_points) = k
      /\ \A i \in 1 .. k : next_points[i] = last_used + i
  BY <1>1, <1>2, <1>3
<1>7. \A s \in Seq(Nat) : UpTo(s, last_used) => UpTo(s, n)
  BY <1>1 DEF UpTo
<1>8. CASE k # 0
  <2>1. cands = next_points /\ rest = unused_pool /\ cands # << >>
    BY <1>6, <1>8 DEF cands
  <2>2. Distinct(cands) /\ UpTo(cands, n)
    BY <1>1, <1>6, <2>1 DEF Distinct, UpTo
  <2>3. ASSUME NEW s \in Seq(Nat), UpTo(s, last_used)
        PROVE  Apart(s, cands)
    BY <1>1, <1>6, <2>1, <2>3 DEF Apart, UpTo
  <2>4. Covered(samples, rest, cands, n, L, K + 1)
    <3> SUFFICES ASSUME NEW x \in Nat
                 PROVE  In(x, samples) \/ In(x, rest) \/ In(x, cands) <=> Met(x, n, L, K + 1)
      BY DEF Covered
    <3>1. In(x, cands) <=> last_used < x /\ x <= last_used + k
      <4>1. ASSUME last_used < x, x <= last_used + k
            PROVE  x - last_used \in 1 .. k /\ next_points[x - last_used] = x
        BY <1>1, <1>6, <4>1
      <4>2. ASSUME NEW i \in 1 .. k, next_points[i] = x
            PROVE  last_used < x /\ x <= last_used + k
        BY <1>1, <1>6, <4>2
      <4> QED
        BY <1>6, <2>1, <4>1, <4>2 DEF In
    <3>2. (x < L /\ last_used < x /\ x <= last_used + K) <=> (last_used < x /\ x <= last_used + k)
      BY <1>1, <1>2, <1>8
    <3> HIDE DEF rest, n
    <3> QED
      BY <1>10, <1>11, <2>1, <3>1, <3>2
  <2> QED
    BY <1>1, <1>4, <1>5, <1>6, <1>7, <2>1, <2>2, <2>3, <2>4 DEF L, K
<1>9. CASE k = 0
  <2>1. next_points = << >> /\ L <= last_used + 1
    BY <1>1, <1>2, <1>6, <1>9
  <2> DEFINE m == Min({K, Len(unused_pool)})
             q == SubSeq(unused_pool, 1, m)
             r == SubSeq(unused_pool, m + 1, Len(unused_pool))
  <2>2. m \in Nat /\ m <= Len(unused_pool) /\ (m = 0 => Len(unused_pool) = 0)
    <3> DEFINE P == Len(unused_pool)
    <3> HIDE DEF P
    <3>1. P \in Nat
      BY <1>4 DEF P
    <3>2. Min({K, P}) = IF K <= P THEN K ELSE P
      BY <1>1, <3>1, MinIs
    <3> QED
      BY <1>1, <3>1, <3>2 DEF P
  <2>3. cands = q
    BY <2>1 DEF cands, K
  <2> HIDE DEF m
  <2>4. q \in Seq(Nat) /\ Len(q) = m /\ \A i \in 1 .. m : q[i] = unused_pool[i]
    BY <1>4, <2>2
  <2>5. /\ r \in Seq(Nat) /\ Len(r) = Len(unused_pool) - m
        /\ \A i \in 1 .. Len(unused_pool) - m : r[i] = unused_pool[m + i]
    BY <1>4, <2>2
  <2>6. rest = r
    BY <2>1, <2>3, <2>4
  <2> HIDE DEF q, r
  <2>7. Distinct(q) /\ Distinct(r) /\ Apart(r, q)
    <3>1. \A i, j \in 1 .. Len(unused_pool) : unused_pool[i] = unused_pool[j] => i = j
      BY <1>5 DEF Distinct
    <3>2. Distinct(q)
      <4>1. ASSUME NEW i \in 1 .. Len(q) PROVE i \in 1 .. Len(unused_pool) /\ q[i] = unused_pool[i]
        BY <1>4, <2>2, <2>4
      <4> QED
        BY <3>1, <4>1 DEF Distinct
    <3>3. Distinct(r)
      <4>1. ASSUME NEW i \in 1 .. Len(r)
            PROVE  m + i \in 1 .. Len(unused_pool) /\ r[i] = unused_pool[m + i]
        BY <1>4, <2>2, <2>5
      <4>2. \A i, j \in 1 .. Len(r) : m + i = m + j => i = j
        BY <2>2, <2>5
      <4> QED
        BY <3>1, <4>1, <4>2 DEF Distinct
    <3>4. Apart(r, q)
      <4>1. ASSUME NEW i \in 1 .. Len(r), NEW j \in 1 .. Len(q)
            PROVE  /\ m + i \in 1 .. Len(unused_pool) /\ r[i] = unused_pool[m + i]
                   /\ j \in 1 .. Len(unused_pool) /\ q[j] = unused_pool[j] /\ m + i # j
        <5>1. m + i \in 1 .. Len(unused_pool) /\ r[i] = unused_pool[m + i]
          BY <1>4, <2>2, <2>5
        <5>2. j \in 1 .. Len(unused_pool) /\ q[j] = unused_pool[j]
          BY <1>4, <2>2, <2>4
        <5>3. m + i # j
          BY <2>2, <2>4, <2>5
        <5> QED
          BY <5>1, <5>2, <5>3
      <4> QED
        BY <3>1, <4>1 DEF Apart
    <3> QED
      BY <3>2, <3>3, <3>4
  <2>8. UpTo(q, last_used) /\ UpTo(r, last_used) /\ Apart(samples, q) /\ Apart(samples, r)
    <3>1. ASSUME NEW i \in 1 .. Len(q) PROVE i \in 1 .. Len(unused_pool) /\ q[i] = unused_pool[i]
      BY <1>4, <2>2, <2>4
    <3>2. ASSUME NEW i \in 1 .. Len(r)
          PROVE  m + i \in 1 .. Len(unused_pool) /\ r[i] = unused_pool[m + i]
      BY <1>4, <2>2, <2>5
    <3>3. UpTo(q, last_used) /\ UpTo(r, last_used)
      BY <1>5, <3>1, <3>2 DEF UpTo
    <3>4. Apart(samples, q) /\ Apart(samples, r)
      BY <1>5, <3>1, <3>2 DEF Apart
    <3> QED
      BY <3>3, <3>4
  <2>9. Covered(samples, rest, cands, n, L, K + 1)
    <3> SUFFICES ASSUME NEW x \in Nat
                 PROVE  In(x, samples) \/ In(x, rest) \/ In(x, cands) <=> Met(x, n, L, K + 1)
      BY DEF Covered
    <3>1. In(x, r) \/ In(x, q) <=> In(x, unused_pool)
      <4>1. ASSUME NEW i \in 1 .. Len(unused_pool)
            PROVE  \/ i \in 1 .. Len(q) /\ q[i] = unused_pool[i]
                   \/ i - m \in 1 .. Len(r) /\ r[i - m] = unused_pool[i]
        <5>1. CASE i <= m
          BY <2>2, <2>4, <5>1
        <5>2. CASE i > m
          <6>1. i - m \in 1 .. Len(unused_pool) - m /\ m + (i - m) = i
            BY <1>4, <2>2, <5>2
          <6> QED
            BY <2>5, <6>1
        <5> QED
          BY <2>2, <5>1, <5>2
      <4>2. ASSUME NEW i \in 1 .. Len(q) PROVE i \in 1 .. Len(unused_pool) /\ q[i] = unused_pool[i]
        BY <1>4, <2>2, <2>4
      <4>3. ASSUME NEW i \in 1 .. Len(r)
            PROVE  m + i \in 1 .. Len(unused_pool) /\ r[i] = unused_pool[m + i]
        BY <1>4, <2>2, <2>5
      <4> QED
        BY <4>1, <4>2, <4>3 DEF In
    <3>2. Met(x, n, L, K + 1) <=> Met(x, last_used, L, K + 1)
      <4>1. ~(x < L /\ last_used < x)
        BY <1>1, <2>1
      <4> HIDE DEF n
      <4> QED
        BY <1>10, <4>1
    <3> HIDE DEF rest, n
    <3> QED
      BY <1>11, <2>3, <2>6, <3>1, <3>2
  <2>10. q = << >> => r = << >> /\ L <= n
    <3>1. L <= n
      BY <1>1, <2>1
    <3>2. q = << >> => m = 0 /\ Len(unused_pool) = 0
      BY <2>2, <2>4
    <3>3. q = << >> => Len(r) = 0
      BY <2>5, <3>2
    <3> QED
      BY <2>5, <3>1, <3>3, EmptySeq
  <2> HIDE DEF n, rest
  <2>11. cands = q /\ rest = r /\ UpTo(q, n) /\ UpTo(r, n)
    BY <1>7, <2>3, <2>4, <2>5, <2>6, <2>8
  <2> QED
    BY <1>1, <2>4, <2>5, <2>7, <2>8, <2>9, <2>10, <2>11 DEF L, K, n, rest
<1> QED
  BY <1>8, <1>9

(* Every round preserves the invariant.                                       *)
LEMMA SimplifyStep ==
    ASSUME SimplifyInv, [SimplifyNext]_simplifyVars
    PROVE  SimplifyInv'
<1>1. CASE Simplify
  <2>1. PICK length \in 2 .. MaxPool, candidates \in Candidates :
           \E num_samples \in 1 .. length - 1 :
              job' = [length |-> length, num_samples |-> num_samples, candidates |-> candidates]
    BY <1>1 DEF Simplify
  <2>2. job' \in [length: Nat, num_samples: Nat, candidates: Nat \ {0}] /\ job'.length >= 2
    BY <2>1, SimplifyAssumption
  <2>3. last_used = 0 /\ unused_pool = << >>
    BY <1>1, SimplifyAssumption DEF Simplify, SimplifyInv, Sampling
  <2>4. samples' = <<0>> /\ last_used' = 0 /\ unused_pool' = << >>
    BY <1>1, <2>3 DEF Simplify
  <2>5. /\ <<0>> \in Seq(Nat) /\ Len(<<0>>) = 1 /\ <<0>>[1] = 0
        /\ << >> \in Seq(Nat) /\ Len(<< >>) = 0 /\ 1 .. 0 = {} /\ 1 .. 1 = {1}
    OBVIOUS
  <2>6. Distinct(<<0>>) /\ Distinct(<< >>) /\ Apart(<<0>>, << >>) /\ UpTo(<<0>>, 0) /\ UpTo(<< >>, 0)
    BY <2>5 DEF Distinct, Apart, UpTo
  <2> DEFINE L == job'.length
             M == job'.candidates + 1
  <2>7. L \in Nat /\ L >= 2 /\ M \in Nat \ {0} /\ (1 - 1) * M = 0
    BY <2>2
  <2> HIDE DEF L, M
  <2>8. Covered(<<0>>, << >>, << >>, 0, L, M)
    <3> SUFFICES ASSUME NEW x \in Nat PROVE In(x, <<0>>) <=> Met(x, 0, L, M)
      BY NotIn DEF Covered
    <3>1. In(x, <<0>>) <=> x = 0
      BY <2>5 DEF In
    <3>2. ~Gap(0, M)
      <4>1. \A j \in Nat \ {0} : j * M # 0
        BY <2>7
      <4> QED
        BY <4>1 DEF Gap
    <3> QED
      BY <2>7, <3>1, <3>2 DEF Met
  <2> QED
    BY <2>2, <2>4, <2>5, <2>6, <2>7, <2>8 DEF SimplifyInv, Sampling, L, M
<1>2. CASE Sample
  <2>1. Sampling
    BY <1>2 DEF Sample, SimplifyInv
  <2> DEFINE rest == IF next_points # << >> THEN unused_pool
                     ELSE SubSeq(unused_pool, Len(cands) + 1, Len(unused_pool))
             n == last_used + 1 + job.candidates
  <2>2. PICK maxi \in DOMAIN cands :
           /\ samples' = Append(samples, cands[maxi])
           /\ unused_pool' = rest \o RemoveAt(cands, maxi)
    BY <1>2 DEF Sample, recycled
  <2>3. last_used' = n /\ job' = job
    BY <1>2 DEF Sample
  <2>4. /\ cands \in Seq(Nat) /\ rest \in Seq(Nat) /\ UpTo(cands, n) /\ UpTo(rest, n)
        /\ Distinct(cands) /\ Distinct(rest)
        /\ Apart(samples, rest) /\ Apart(samples, cands) /\ Apart(rest, cands)
        /\ n \in Nat
        /\ Covered(samples, rest, cands, n, job.length, job.candidates + 1)
    BY <2>1, CandidatesAre
  <2>5. /\ samples \in Seq(Nat) /\ last_used \in Nat /\ Distinct(samples) /\ UpTo(samples, last_used)
        /\ job \in [length: Nat, num_samples: Nat, candidates: Nat \ {0}]
        /\ Len(samples) # 0 /\ last_used = (Len(samples) - 1) * (job.candidates + 1)
    BY <2>1 DEF Sampling
  <2>6. UpTo(samples, n)
    <3>1. \A a, l, k \in Nat : a <= l => a <= l + 1 + k
      OBVIOUS
    <3>2. ASSUME NEW i \in 1 .. Len(samples)
          PROVE  samples[i] \in Nat /\ samples[i] <= last_used
      BY <2>5 DEF UpTo
    <3>3. last_used \in Nat /\ job.candidates \in Nat
      BY ONLY <2>5
    <3> QED
      BY ONLY <3>1, <3>2, <3>3 DEF UpTo
  <2>7. maxi \in 1 .. Len(cands)
    BY <2>2, <2>4
  <2>9. n = Len(samples) * (job.candidates + 1)
    <3> DEFINE q == Len(samples)
               M == job.candidates + 1
    <3>1. q \in Nat /\ M \in Nat
      BY <2>5
    <3>3. last_used = (q - 1) * M
      BY <2>5
    <3>4. n = last_used + M
      <4>1. \A a, b \in Nat : a + 1 + b = a + (b + 1)
        OBVIOUS
      <4> QED
        BY ONLY <2>5, <4>1
    <3> HIDE DEF q, M, n
    <3>2. (q - 1) * M + M = q * M
      BY <3>1
    <3> QED
      BY <3>2, <3>3, <3>4 DEF q, M
  <2> HIDE DEF rest, n
  <2>8. /\ samples' \in Seq(Nat) /\ unused_pool' \in Seq(Nat)
        /\ UpTo(samples', n) /\ UpTo(unused_pool', n)
        /\ Distinct(samples') /\ Distinct(unused_pool') /\ Apart(samples', unused_pool')
        /\ \A x : (In(x, samples') \/ In(x, unused_pool')) <=>
                    (In(x, samples) \/ In(x, rest) \/ In(x, cands))
        /\ Len(samples') = Len(samples) + 1
    <3> DEFINE u == Chosen(samples, cands, maxi)
               v == Back(rest, cands, maxi)
    <3>1. Parted(u, v, n, samples, rest, cands)
      BY <2>4, <2>5, <2>6, <2>7, RoundKeeps
    <3>2. samples' = u /\ unused_pool' = v
      BY <2>2 DEF Chosen, Back
    <3> HIDE DEF u, v
    <3> QED
      BY <3>1, <3>2 DEF Parted
  <2>10. Covered(samples', unused_pool', << >>, n, job.length, job.candidates + 1)
    BY <2>4, <2>8, NotIn DEF Covered
  <2>11. Len(samples') # 0 /\ last_used' = (Len(samples') - 1) * (job'.candidates + 1)
    <3>1. Len(samples') - 1 = Len(samples) /\ Len(samples') # 0
      BY <2>5, <2>8
    <3> QED
      BY <2>3, <2>9, <3>1
  <2> QED
    BY <2>3, <2>4, <2>5, <2>8, <2>10, <2>11 DEF SimplifyInv, Sampling
<1>3. CASE UNCHANGED simplifyVars
  BY <1>3 DEF SimplifyInv, Sampling, simplifyVars
<1> QED
  BY <1>1, <1>2, <1>3 DEF SimplifyNext
(* The invariant of the simplification.                                       *)
LEMMA SimplifyInvariant == SimplifySpec => []SimplifyInv
<1>1. SimplifyInit => SimplifyInv
  BY DEF SimplifyInit, SimplifyInv
<1> QED
  BY <1>1, SimplifyStep, PTL DEF SimplifySpec

(* However many points and candidates, resample takes no point twice, though  *)
(* the candidates that were not chosen come back from unused_pool.            *)
THEOREM SamplesAreDistinct == SimplifySpec => []SamplesDistinct
<1>1. SimplifyInv => SamplesDistinct
  <2>1. CASE samples = << >>
    <3>1. << >> \in Seq(Nat) /\ Distinct(<< >>)
      BY DEF Distinct
    <3> QED
      BY <2>1, <3>1, DistinctCount DEF SamplesDistinct
  <2>2. CASE Sampling
    BY <2>2, DistinctCount DEF Sampling, SamplesDistinct
  <2> QED
    BY <2>1, <2>2 DEF SimplifyInv
<1> QED
  BY <1>1, SimplifyInvariant, PTL

(* When resample runs out of candidates, every point is a sample but the ones *)
(* between two slices: what is not chosen comes back, whatever the lengths.   *)
THEOREM OnlyGapsAreMissing == SimplifySpec => []OnlyGapsMissing
<1>1. SimplifyInv => OnlyGapsMissing
  <2> SUFFICES ASSUME SimplifyInv, Returns, Len(samples) < job.num_samples
               PROVE  ToSet(samples) = (0 .. job.length - 1) \ gaps
    BY DEF OnlyGapsMissing
  <2> DEFINE L == job.length
             M == job.candidates + 1
             n == last_used + 1 + job.candidates
  <2>1. Sampling /\ cands = << >>
    BY DEF Returns, SimplifyInv, Sampling
  <2>2. L \in Nat /\ M \in Nat \ {0} /\ samples \in Seq(Nat) /\ n \in Nat
    BY <2>1 DEF Sampling
  <2>3. Covered(samples, << >>, << >>, n, L, M) /\ L <= n
    BY <2>1, CandidatesAre
  <2> HIDE DEF n
  <2>4. ASSUME NEW x \in Nat
        PROVE  x \in ToSet(samples) <=> x < L /\ ~Gap(x, M)
    <3>1. x \in ToSet(samples) <=> In(x, samples)
      BY <2>2 DEF ToSet, In
    <3>2. In(x, samples) <=> Met(x, n, L, M)
      BY <2>3, NotIn DEF Covered
    <3> QED
      BY <2>2, <2>3, <3>1, <3>2 DEF Met
  <2>5. ASSUME NEW x \in Nat, x < L
        PROVE  x \in gaps <=> Gap(x, M)
    <3>1. ASSUME NEW j \in Nat \ {0}, x = j * M PROVE j \in 1 .. L
      <4>1. j * M = j + j * (M - 1) /\ j * (M - 1) >= 0
        BY <2>2
      <4> QED
        BY <2>2, <2>5, <3>1, <4>1
    <3>2. \A j \in 1 .. L : j \in Nat \ {0}
      BY <2>2
    <3> QED
      BY <3>1, <3>2 DEF gaps, Gap
  <2>6. ToSet(samples) \subseteq Nat
    BY <2>2 DEF ToSet
  <2> HIDE DEF L, M
  <2>7. \A x : x \in ToSet(samples) <=> x \in (0 .. L - 1) \ gaps
    BY <2>2, <2>4, <2>5, <2>6
  <2> QED
    BY <2>7 DEF L
<1> QED
  BY <1>1, SimplifyInvariant, PTL
-----------------------------------------------------------------------------
(* The picture of one cloud.                                                  *)

(* A set of naturals that is not empty has a least element.                   *)
LEMMA LeastOf ==
    ASSUME NEW T \in SUBSET Nat, T # {}
    PROVE  \E m \in T : \A k \in T : m <= k
<1> DEFINE R == OpToRel(<, Nat)
<1>1. IsWellFoundedOn(R, Nat)
  BY NatLessThanWellFounded DEF OpToRel
<1>2. \E m \in T : \A k \in T : <<k, m>> \notin R
  <2> HIDE DEF R
  <2> QED
    BY <1>1, WFMin
<1>3. \A k, m \in Nat : <<k, m>> \in R <=> k < m
  BY DEF OpToRel
<1> HIDE DEF R
<1>4. PICK m \in T : \A k \in T : <<k, m>> \notin R
  BY <1>2
<1>5. ASSUME NEW k \in T PROVE m <= k
  <2>1. ~(k < m)
    BY <1>3, <1>4
  <2> QED
    BY <2>1
<1> QED
  BY <1>5

(* f is what the first n shaders make of st.                                  *)
IsDrawing(st, n, f) ==
    f = [i \in 0 .. n |-> IF i = 0 THEN st ELSE draw_extra(f[i - 1], Extras[i])]

(* The shaders can be run one after the other.                                *)
LEMMA DrawingExists ==
    ASSUME NEW st, NEW n \in Nat
    PROVE  \E f : IsDrawing(st, n, f)
<1> DEFINE T == {m \in Nat : ~\E f : IsDrawing(st, m, f)}
<1> SUFFICES ASSUME T # {} PROVE FALSE
  OBVIOUS
<1>1. PICK m \in T : \A k \in T : m <= k
  BY LeastOf
<1>2. CASE m = 0
  <2> DEFINE f == [i \in 0 .. 0 |-> st]
  <2>1. IsDrawing(st, 0, f)
    BY DEF IsDrawing
  <2> QED
    BY <1>1, <1>2, <2>1
<1>3. CASE m # 0
  <2>1. m - 1 \in Nat /\ m - 1 \notin T
    BY <1>1, <1>3
  <2>2. PICK g : IsDrawing(st, m - 1, g)
    BY <2>1
  <2> DEFINE f == [i \in 0 .. m |-> IF i = m THEN draw_extra(g[m - 1], Extras[m]) ELSE g[i]]
  <2>3. m \in Nat /\ m > 0
    BY <1>1, <1>3
  <2>4. ASSUME NEW i \in 0 .. m
        PROVE  f[i] = IF i = 0 THEN st ELSE draw_extra(f[i - 1], Extras[i])
    <3>1. CASE i = m
      <4>1. m - 1 \in 0 .. m /\ m - 1 # m
        BY <2>3
      <4>2. f[m - 1] = g[m - 1] /\ f[i] = draw_extra(g[m - 1], Extras[m])
        BY <3>1, <4>1
      <4> QED
        BY <2>3, <3>1, <4>2
    <3>2. CASE i # m
      <4>1. i \in 0 .. m - 1 /\ f[i] = g[i]
        BY <2>3, <3>2
      <4>2. g[i] = IF i = 0 THEN st ELSE draw_extra(g[i - 1], Extras[i])
        <5> HIDE DEF f
        <5> QED
          BY <2>2, <4>1 DEF IsDrawing
      <4>3. i # 0 => f[i - 1] = g[i - 1]
        BY <2>3, <3>2, <4>1
      <4> QED
        BY <4>1, <4>2, <4>3
    <3> QED
      BY <3>1, <3>2
  <2>5. f = [i \in 0 .. m |-> f[i]]
    OBVIOUS
  <2>6. IsDrawing(st, m, f)
    <3> HIDE DEF f
    <3> QED
      BY <2>4, <2>5, Zenon DEF IsDrawing
  <2> QED
    BY <1>1, <2>6
<1> QED
  BY <1>2, <1>3
(* The fields of an entry of the cache, of the properties of an object, and   *)
(* of a drawing.                                                              *)
IsEntry(c) == DOMAIN c = {"n", "display_length", "current_display_length", "illumination",
                          "batch", "vertex_normals", "extra", "selection", "object"}
IsProps(p) == DOMAIN p = {"uuid", "visible", "percent", "illumination", "has_normals",
                          "vertex_normals", "on", "override", "false_colors", "circles",
                          "selecting"}
IsState(st) == /\ DOMAIN st = {"c", "p", "drawn", "ended"}
               /\ IsEntry(st.c) /\ IsProps(st.p)

(* The entries c and b say the same of the points, whatever is stored of the  *)
(* other shaders.                                                             *)
SameEntry(c, b) ==
    /\ c.n = b.n /\ c.display_length = b.display_length
    /\ c.current_display_length = b.current_display_length
    /\ c.illumination = b.illumination /\ c.batch = b.batch
    /\ c.selection = b.selection /\ c.object = b.object

(* The drawing q goes on where st was: unless it is over, the shader s that   *)
(* is on is drawn.                                                            *)
GoesOn(st, q) ==
    /\ IsState(q) /\ SameEntry(q.c, st.c) /\ q.p = st.p
    /\ st.drawn \subseteq q.drawn
    /\ q.ended = "no" => st.ended = "no"

(* One shader.                                                                *)
LEMMA ExtraGoesOn ==
    ASSUME NEW st, IsState(st), NEW s
    PROVE  /\ GoesOn(st, draw_extra(st, s))
           /\ draw_extra(st, s).ended = "no" /\ s \in st.p.on => s \in draw_extra(st, s).drawn
<1> DEFINE q == draw_extra(st, s)
           x == [t \in DOMAIN st.c.extra \union {s} |->
                   IF t = s THEN NewExtra(s, st.c, st.p) ELSE st.c.extra[t]]
           st1 == [st EXCEPT !.c.extra = x]
<1>1. /\ IsState(st1) /\ SameEntry(st1.c, st.c) /\ st1.p = st.p
      /\ st1.drawn = st.drawn /\ st1.ended = st.ended
  <2> HIDE DEF x
  <2> QED
    BY DEF IsState, IsEntry, IsProps, SameEntry
<1>2. \/ q = st /\ (st.ended # "no" \/ s \notin st.p.on)
      \/ q = [st EXCEPT !.ended = "raised"]
      \/ q = [st EXCEPT !.drawn = st.drawn \union {s}]
      \/ q = [st1 EXCEPT !.ended = "raised"]
      \/ q = [st1 EXCEPT !.drawn = st1.drawn \union {s}] /\ st.ended = "no"
  BY Zenon DEF draw_extra
<1> HIDE DEF q, st1
<1>3. CASE q = st /\ (st.ended # "no" \/ s \notin st.p.on)
  BY <1>3 DEF GoesOn, SameEntry, q
<1>4. CASE q = [st EXCEPT !.ended = "raised"] \/ q = [st1 EXCEPT !.ended = "raised"]
  BY <1>1, <1>4 DEF GoesOn, SameEntry, IsState, q
<1>5. CASE q = [st EXCEPT !.drawn = st.drawn \union {s}]
  BY <1>5 DEF GoesOn, SameEntry, IsState, q
<1>6. CASE q = [st1 EXCEPT !.drawn = st1.drawn \union {s}] /\ st.ended = "no"
  BY <1>1, <1>6 DEF GoesOn, SameEntry, IsState, q
<1> QED
  BY <1>2, <1>3, <1>4, <1>5, <1>6

(* All the shaders: those that are on are drawn, or the drawing is over.      *)
LEMMA ExtrasGoOn ==
    ASSUME NEW st, IsState(st)
    PROVE  LET q == draw_extras(st)
           IN  /\ GoesOn(st, q)
               /\ q.ended = "no" => \A i \in 1 .. Len(Extras) :
                                        Extras[i] \in st.p.on => Extras[i] \in q.drawn
<1> DEFINE N == Len(Extras)
           f == CHOOSE g : IsDrawing(st, N, g)
           OK(i) == /\ GoesOn(st, f[i])
                    /\ f[i].ended = "no" => \A j \in 1 .. i : Extras[j] \in st.p.on =>
                                                                 Extras[j] \in f[i].drawn
<1>1. N \in Nat
  BY DEF Extras
<1> HIDE DEF N
<1>2. IsDrawing(st, N, f)
  BY <1>1, DrawingExists
<1>3. draw_extras(st) = f[N]
  BY DEF draw_extras, IsDrawing, N
<1> HIDE DEF f
<1>4. f[0] = st /\ \A i \in 1 .. N : f[i] = draw_extra(f[i - 1], Extras[i])
  <2> DEFINE F(i) == IF i = 0 THEN st ELSE draw_extra(f[i - 1], Extras[i])
  <2>1. f = [i \in 0 .. N |-> F(i)]
    BY <1>2, Zenon DEF IsDrawing
  <2>2. \A i \in 0 .. N : f[i] = F(i)
    <3> HIDE DEF F
    <3> QED
      BY <2>1
  <2> QED
    BY <1>1, <2>2
<1>5. OK(0)
  BY <1>4 DEF GoesOn, SameEntry
<1>6. ASSUME NEW i \in 1 .. N, OK(i - 1)
      PROVE  OK(i)
  <2> DEFINE q == f[i - 1]
             r == f[i]
  <2>1. r = draw_extra(q, Extras[i])
    BY <1>4
  <2>2. GoesOn(st, q) /\ (q.ended = "no" => \A j \in 1 .. i - 1 : Extras[j] \in st.p.on =>
                                                                     Extras[j] \in q.drawn)
    BY <1>6
  <2> HIDE DEF q, r
  <2>3. GoesOn(q, r) /\ (r.ended = "no" /\ Extras[i] \in q.p.on => Extras[i] \in r.drawn)
    BY <2>1, <2>2, ExtraGoesOn DEF GoesOn
  <2>4. GoesOn(st, r)
    BY <2>2, <2>3 DEF GoesOn, SameEntry
  <2>5. ASSUME r.ended = "no", NEW j \in 1 .. i, Extras[j] \in st.p.on
        PROVE  Extras[j] \in r.drawn
    <3>1. CASE j = i
      BY <2>2, <2>3, <2>5, <3>1 DEF GoesOn
    <3>2. CASE j # i
      <4>1. j \in 1 .. i - 1
        BY <1>1, <3>2
      <4> QED
        BY <2>2, <2>3, <2>5, <4>1 DEF GoesOn
    <3> QED
      BY <3>1, <3>2
  <2> QED
    BY <2>4, <2>5 DEF r
<1> HIDE DEF OK
<1>7. \A i \in 0 .. N : OK(i)
  <2> DEFINE T == {i \in 0 .. N : ~OK(i)}
  <2> SUFFICES ASSUME T # {} PROVE FALSE
    OBVIOUS
  <2>1. PICK m \in T : \A k \in T : m <= k
    <3>1. T \in SUBSET Nat
      BY <1>1
    <3> QED
      BY <3>1, LeastOf
  <2>2. m \in 1 .. N /\ m - 1 \in 0 .. N /\ ~(m <= m - 1)
    BY <1>1, <1>5, <2>1
  <2>3. OK(m - 1)
    BY <2>1, <2>2
  <2> QED
    BY <1>6, <2>1, <2>2, <2>3
<1>8. OK(N)
  BY <1>1, <1>7
<1> QED
  BY <1>3, <1>8 DEF OK, N
(* What an entry says of itself is true.                                      *)
EntryOK(c) ==
    /\ IsEntry(c)
    /\ c.n \in Nat /\ c.display_length \in 0 .. c.n /\ c.current_display_length \in 0 .. c.n
    /\ c.selection \in Nat
    /\ c.batch = Batch(c.current_display_length, c.illumination)

(* The properties p and b leave the choice of the shaders the same.           *)
SameChoice(p, b) == p.on = b.on /\ p.override = b.override /\ p.percent = b.percent

(* The default shader: its batch is built again when it has to be, and the    *)
(* object has its uuid again.                                                 *)
LEMMA DefaultDraws ==
    ASSUME NEW c, EntryOK(c), NEW p, IsProps(p)
    PROVE  LET st == draw_default(c, p)
           IN  /\ IsState(st) /\ EntryOK(st.c) /\ st.c.object /\ SameChoice(st.p, p)
               /\ (c.object => p.uuid) => st.p.uuid
               /\ st.ended = "no" => (~p.override => st.drawn # {})
<1> DEFINE c1 == IF c.current_display_length = c.display_length THEN c
                 ELSE [c EXCEPT !.current_display_length = c.display_length,
                                !.batch = Batch(c.display_length, c.illumination)]
           c2 == [c1 EXCEPT !.object = TRUE]
           p2 == IF c.object THEN p ELSE [p EXCEPT !.uuid = TRUE]
           c3 == IF c2.illumination = p.illumination THEN c2
                 ELSE [c2 EXCEPT !.illumination = p.illumination,
                                 !.batch = Batch(c2.current_display_length, p.illumination)]
           st == draw_default(c, p)
<1>1. EntryOK(c1)
  BY DEF EntryOK, IsEntry, Batch
<1> HIDE DEF c1
<1>2. EntryOK(c2) /\ c2.object
  BY <1>1 DEF EntryOK, IsEntry
<1> HIDE DEF c2
<1>3. EntryOK(c3) /\ c3.object
  BY <1>2 DEF EntryOK, IsEntry, Batch
<1> HIDE DEF c3
<1>4. IsProps(p2) /\ SameChoice(p2, p) /\ ((c.object => p.uuid) => p2.uuid)
  BY DEF IsProps, SameChoice
<1> HIDE DEF p2
<1>5. st = IF ~p.visible
           THEN [c |-> c2, p |-> p2, drawn |-> {}, ended |-> "returned"]
           ELSE [c |-> c3, p |-> p2, ended |-> "no",
                 drawn |-> IF p.override THEN {} ELSE {"DEFAULT"}]
  BY Zenon DEF draw_default, c1, c2, c3, p2
<1> HIDE DEF st
<1>6. CASE ~p.visible
  <2>1. st = [c |-> c2, p |-> p2, drawn |-> {}, ended |-> "returned"]
    BY <1>5, <1>6
  <2>2. IsState(st) /\ st.c = c2 /\ st.p = p2 /\ st.ended # "no"
    BY <1>2, <1>4, <2>1 DEF IsState, EntryOK
  <2> QED
    BY <1>2, <1>4, <2>2 DEF st
<1>7. CASE p.visible
  <2> DEFINE dr == IF p.override THEN {} ELSE {"DEFAULT"}
  <2>1. ~p.override => dr # {}
    OBVIOUS
  <2>2. st = [c |-> c3, p |-> p2, ended |-> "no", drawn |-> dr]
    BY <1>5, <1>7
  <2> HIDE DEF dr
  <2>3. IsState(st) /\ st.c = c3 /\ st.p = p2 /\ st.drawn = dr
    BY <1>3, <1>4, <2>2 DEF IsState, EntryOK
  <2> QED
    BY <1>3, <1>4, <2>1, <2>3 DEF st
<1> QED
  BY <1>6, <1>7

(* A redraw: the entry stays true, the object names it, and a redraw that is  *)
(* not over has shown every shader that is on, or the default one.            *)
LEMMA RenderDraws ==
    ASSUME NEW c, EntryOK(c), NEW p, IsProps(p)
    PROVE  LET st == render(c, p)
           IN  /\ EntryOK(st.c) /\ IsProps(st.p) /\ st.c.object /\ SameChoice(st.p, p)
               /\ (c.object => p.uuid) => st.p.uuid
               /\ st.ended = "no" =>
                     /\ ~p.override => st.drawn # {}
                     /\ \A i \in 1 .. Len(Extras) : Extras[i] \in p.on => Extras[i] \in st.drawn
                     /\ st.p.selecting => st.c.selection <= st.c.n
<1> DEFINE d == draw_default(c, p)
           e == draw_vertex_normals(d)
           f == draw_extras(e)
           g == draw_selection(f)
<1>1. /\ IsState(d) /\ EntryOK(d.c) /\ d.c.object /\ SameChoice(d.p, p)
      /\ (c.object => p.uuid) => d.p.uuid
      /\ d.ended = "no" => (~p.override => d.drawn # {})
  BY DefaultDraws
<1> HIDE DEF d
<1>2. GoesOn(d, e)
  <2> DEFINE l == {d.c.current_display_length}
  <2>1. CASE e = d
    BY <1>1, <2>1 DEF GoesOn, SameEntry
  <2>2. CASE e = [d EXCEPT !.c.vertex_normals = l, !.drawn = d.drawn \union {"NORMALS"}]
    <3> HIDE DEF e, l
    <3> QED
      BY <1>1, <2>2 DEF GoesOn, SameEntry, IsState, IsEntry
  <2>3. \/ e = d
        \/ e = [d EXCEPT !.c.vertex_normals = l, !.drawn = d.drawn \union {"NORMALS"}]
    BY Zenon DEF draw_vertex_normals
  <2> QED
    BY <2>1, <2>2, <2>3
<1> HIDE DEF e
<1>3. /\ GoesOn(e, f)
      /\ f.ended = "no" => \A i \in 1 .. Len(Extras) : Extras[i] \in e.p.on => Extras[i] \in f.drawn
  BY <1>2, ExtrasGoOn DEF GoesOn
<1> HIDE DEF f
<1>4. /\ IsState(f) /\ EntryOK(f.c) /\ f.c.object /\ f.p = d.p
      /\ f.ended = "no" => d.ended = "no" /\ d.drawn \subseteq f.drawn
  BY <1>1, <1>2, <1>3 DEF GoesOn, SameEntry, EntryOK, IsState
<1>5. /\ EntryOK(g.c) /\ IsProps(g.p) /\ g.c.object /\ SameChoice(g.p, f.p) /\ g.p.uuid = f.p.uuid
      /\ g.drawn = f.drawn /\ g.ended = f.ended
      /\ g.ended = "no" => (g.p.selecting => g.c.selection <= g.c.n)
  <2>1. CASE f.ended # "no" \/ ~f.p.selecting \/ f.c.selection = 0
    <3>1. g = f
      BY <2>1 DEF draw_selection
    <3> HIDE DEF g
    <3>2. f.c.selection = 0 => f.c.selection <= f.c.n
      BY <1>4 DEF EntryOK
    <3> QED
      BY <1>4, <2>1, <3>1, <3>2 DEF SameChoice, IsState
  <2>2. CASE /\ ~(f.ended # "no" \/ ~f.p.selecting \/ f.c.selection = 0)
             /\ f.c.selection <= f.c.n
    <3>1. g = f
      BY <2>2 DEF draw_selection
    <3> HIDE DEF g
    <3> QED
      BY <1>4, <2>2, <3>1 DEF SameChoice, IsState
  <2>3. CASE /\ ~(f.ended # "no" \/ ~f.p.selecting \/ f.c.selection = 0)
             /\ ~(f.c.selection <= f.c.n)
    <3>1. g = [f EXCEPT !.p.selecting = FALSE, !.c.selection = 0]
      BY <2>3 DEF draw_selection
    <3> HIDE DEF g
    <3>2. /\ g.c = [f.c EXCEPT !.selection = 0] /\ g.p = [f.p EXCEPT !.selecting = FALSE]
          /\ g.drawn = f.drawn /\ g.ended = f.ended
      BY <1>4, <3>1 DEF IsState
    <3>3. EntryOK(g.c) /\ g.c.object
      BY <1>4, <3>2 DEF EntryOK, IsEntry
    <3>4. IsProps(g.p) /\ SameChoice(g.p, f.p) /\ g.p.uuid = f.p.uuid /\ g.p.selecting = FALSE
      BY <1>4, <3>2 DEF IsState, IsProps, SameChoice
    <3> QED
      BY <3>2, <3>3, <3>4
  <2> QED
    BY <2>1, <2>2, <2>3
<1> HIDE DEF g
<1>6. render(c, p) = g
  BY DEF render, d, e, f, g
<1>7. e.p = d.p
  BY <1>2 DEF GoesOn
<1> QED
  BY <1>1, <1>3, <1>4, <1>5, <1>6, <1>7 DEF SameChoice
-----------------------------------------------------------------------------
(* The share of n points that is shown is a number of points of n.            *)
LEMMA LengthInRange ==
    ASSUME NEW n \in Nat, NEW percent \in 0 .. 100
    PROVE  display_length(n, percent) \in 0 .. n
<1>1. n * percent \in Nat /\ n * percent <= n * 100
  OBVIOUS
<1> DEFINE m == n * percent
<1>2. m \in Nat /\ m <= n * 100
  BY <1>1
<1> HIDE DEF m
<1>3. m \div 100 \in 0 .. n
  BY <1>2
<1> QED
  BY <1>3 DEF display_length, m

(* New points in an entry, under properties with a percentage.                *)
LEMMA UpdateIsTrue ==
    ASSUME NEW c, EntryOK(c), NEW p, p.percent \in 0 .. 100, NEW n \in Nat
    PROVE  EntryOK(update(c, p, n)) /\ update(c, p, n).object = c.object
<1> DEFINE nl == display_length(n, p.percent)
<1>1. nl \in 0 .. n
  BY LengthInRange
<1>2. update(c, p, n) = [c EXCEPT !.n = n, !.display_length = nl, !.current_display_length = nl,
                                  !.batch = Batch(nl, c.illumination)]
  BY DEF update
<1> HIDE DEF nl
<1> QED
  BY <1>1, <1>2 DEF EntryOK, IsEntry, Batch

(* A new entry.                                                               *)
LEMMA LoadedIsTrue ==
    ASSUME NEW p, p.percent \in 0 .. 100, NEW n \in Nat
    PROVE  EntryOK(load_ply_to_cache(p, n))
<1> DEFINE l == display_length(n, p.percent)
           c == load_ply_to_cache(p, n)
<1>1. l \in 0 .. n
  BY LengthInRange
<1>2. c = [n |-> n, display_length |-> l, current_display_length |-> l,
           illumination |-> p.illumination, batch |-> Batch(l, p.illumination),
           vertex_normals |-> {}, extra |-> << >>, selection |-> 0, object |-> TRUE]
  BY DEF load_ply_to_cache
<1> HIDE DEF l, c
<1>3. EntryOK(c)
  BY <1>1, <1>2 DEF EntryOK, IsEntry
<1> QED
  BY <1>3 DEF c

(* The choice of the shaders, with "at most one" as the equality of any two.  *)
ChoiceOK(on, override) ==
    LET shaders == on \ {"BOUNDING_BOX"}
    IN /\ on \subseteq ToSet(Extras)
       /\ override => shaders # {}
       /\ \A a, b \in shaders \ {"COLOR_ADJUSTMENT"} : a = b
       /\ "COLOR_ADJUSTMENT" \in shaders =>
              shaders \subseteq {"COLOR_ADJUSTMENT", "DEPTH", "NORMAL", "POSITION"}

(* The properties of the object.                                              *)
PropsOK(p) ==
    IsProps(p) /\ p.percent \in 0 .. 100 /\ ChoiceOK(p.on, p.override)

(* Switching shader s on keeps the choice.                                    *)
LEMMA SwitchedOnChooses ==
    ASSUME NEW p, PropsOK(p), NEW s \in ToSet(Extras)
    PROVE  PropsOK(switched_on(p, s)) /\ switched_on(p, s).uuid = p.uuid
<1> DEFINE q == switched_on(p, s)
           E == ToSet(Extras)
<1>0. "COLOR_ADJUSTMENT" # "BOUNDING_BOX"
  OBVIOUS
<1>1. CASE s = "BOUNDING_BOX"
  <2>1. q = [p EXCEPT !.on = p.on \union {s}]
    BY <1>1 DEF switched_on
  <2> HIDE DEF q
  <2>2. IsProps(q) /\ q.on = p.on \union {s} /\ q.override = p.override /\ q.percent = p.percent
        /\ q.uuid = p.uuid
    BY <2>1 DEF PropsOK, IsProps
  <2>3. ChoiceOK(q.on, q.override)
    BY <1>1, <2>2, Zenon DEF PropsOK, ChoiceOK
  <2> QED
    BY <2>2, <2>3 DEF PropsOK, q
<1>2. CASE s \in {"DEPTH", "NORMAL", "POSITION"}
  <2> DEFINE X == (p.on \intersect {"COLOR_ADJUSTMENT", "BOUNDING_BOX"}) \union {s}
  <2>1. q = [p EXCEPT !.on = X, !.override = TRUE]
    BY <1>2 DEF switched_on, _update_dev
  <2>2. s # "COLOR_ADJUSTMENT" /\ s # "BOUNDING_BOX"
    BY <1>2
  <2>3. ChoiceOK(X, TRUE)
    BY <1>0, <1>2, <2>2 DEF PropsOK, ChoiceOK
  <2> HIDE DEF q, X
  <2>4. IsProps(q) /\ q.on = X /\ q.override = TRUE /\ q.percent = p.percent /\ q.uuid = p.uuid
    BY <2>1 DEF PropsOK, IsProps
  <2> QED
    BY <2>3, <2>4 DEF PropsOK, q
<1>3. CASE s = "COLOR_ADJUSTMENT"
  <2> DEFINE X == (p.on \intersect {"BOUNDING_BOX"}) \union {s}
  <2>1. q = [p EXCEPT !.on = X, !.illumination = FALSE, !.override = TRUE]
    BY <1>3 DEF switched_on, _update_color_adjustment
  <2>3. ChoiceOK(X, TRUE)
    BY <1>0, <1>3 DEF PropsOK, ChoiceOK
  <2> HIDE DEF q, X
  <2>4. IsProps(q) /\ q.on = X /\ q.override = TRUE /\ q.percent = p.percent /\ q.uuid = p.uuid
    BY <2>1 DEF PropsOK, IsProps
  <2> QED
    BY <2>3, <2>4 DEF PropsOK, q
<1>4. CASE s \notin {"BOUNDING_BOX", "DEPTH", "NORMAL", "POSITION", "COLOR_ADJUSTMENT"}
  <2> DEFINE X == (p.on \intersect {"BOUNDING_BOX"}) \union {s}
  <2>1. q = [p EXCEPT !.on = X, !.illumination = FALSE, !.override = TRUE]
    BY <1>4 DEF switched_on, _update_shader
  <2>3. ChoiceOK(X, TRUE)
    BY <1>0, <1>4 DEF PropsOK, ChoiceOK
  <2> HIDE DEF q, X
  <2>4. IsProps(q) /\ q.on = X /\ q.override = TRUE /\ q.percent = p.percent /\ q.uuid = p.uuid
    BY <2>1 DEF PropsOK, IsProps
  <2> QED
    BY <2>3, <2>4 DEF PropsOK, q
<1> QED
  BY <1>1, <1>2, <1>3, <1>4

(* Switching any shader off keeps it too.                                     *)
LEMMA SwitchedOffChooses ==
    ASSUME NEW p, PropsOK(p), NEW s
    PROVE  PropsOK(switched_off(p, s)) /\ switched_off(p, s).uuid = p.uuid
<1> DEFINE q == switched_off(p, s)
<1>1. CASE s = "BOUNDING_BOX"
  <2>1. q = [p EXCEPT !.on = p.on \ {s}]
    BY <1>1 DEF switched_off
  <2>2. ChoiceOK(p.on \ {s}, p.override)
    BY <1>1 DEF PropsOK, ChoiceOK
  <2> HIDE DEF q
  <2>3. IsProps(q) /\ q.on = p.on \ {s} /\ q.override = p.override /\ q.percent = p.percent
        /\ q.uuid = p.uuid
    BY <2>1 DEF PropsOK, IsProps
  <2> QED
    BY <2>2, <2>3 DEF PropsOK, q
<1>2. CASE s # "BOUNDING_BOX"
  <2>1. q = [p EXCEPT !.on = p.on \ {s}, !.override = FALSE]
    BY <1>2 DEF switched_off
  <2>2. ChoiceOK(p.on \ {s}, FALSE)
    BY DEF PropsOK, ChoiceOK
  <2> HIDE DEF q
  <2>3. IsProps(q) /\ q.on = p.on \ {s} /\ q.override = FALSE /\ q.percent = p.percent
        /\ q.uuid = p.uuid
    BY <2>1 DEF PropsOK, IsProps
  <2> QED
    BY <2>2, <2>3 DEF PropsOK, q
<1> QED
  BY <1>1, <1>2
(* The inductive invariant: the entry is true, the choice of the shaders is   *)
(* sound, and the object names the entry as long as the reference works.      *)
ShadingInv ==
    /\ used \in ShaderSets
    /\ EntryOK(ci) /\ PropsOK(props)
    /\ ci.object => props.uuid

(* Properties that differ in nothing the invariant speaks of.                 *)
LEMMA SameProps ==
    ASSUME NEW p, PropsOK(p), NEW q, IsProps(q), SameChoice(q, p)
    PROVE  PropsOK(q)
  BY DEF PropsOK, SameChoice

(* Init.                                                                      *)
LEMMA ShadingStarts == ShadingInit => ShadingInv
<1> SUFFICES ASSUME ShadingInit PROVE ShadingInv
  OBVIOUS
<1>1. PropsOK(Defaults) /\ IsProps(Defaults)
  BY DEF PropsOK, IsProps, ChoiceOK, Defaults
<1>2. PropsOK(props) /\ props.uuid
  <2>1. /\ props = [Defaults EXCEPT !.uuid = TRUE, !.has_normals = TRUE,
                                    !.illumination = Defaults.illumination /\ TRUE]
    BY DEF ShadingInit, Loaded
  <2>2. IsProps(props) /\ SameChoice(props, Defaults) /\ props.uuid
    BY <1>1, <2>1 DEF IsProps, SameChoice
  <2> QED
    BY <1>1, <2>2, SameProps
<1>3. EntryOK(ci)
  BY <1>2, LoadedIsTrue, ShadingAssumption DEF ShadingInit, PropsOK
<1> QED
  BY <1>2, <1>3 DEF ShadingInv, ShadingInit

(* A redraw.                                                                  *)
LEMMA RedrawKeeps ==
    ASSUME ShadingInv, Redraw
    PROVE  ShadingInv'
<1> DEFINE st == render(ci, props)
<1>1. EntryOK(ci) /\ IsProps(props)
  BY DEF ShadingInv, PropsOK
<1>2. /\ EntryOK(st.c) /\ IsProps(st.p) /\ SameChoice(st.p, props)
      /\ (ci.object => props.uuid) => st.p.uuid
  BY <1>1, RenderDraws
<1>3. ci' = st.c /\ props' = st.p /\ used' = used
  BY DEF Redraw
<1> HIDE DEF st
<1>4. PropsOK(props')
  BY <1>2, <1>3, SameProps DEF ShadingInv
<1> QED
  BY <1>2, <1>3, <1>4 DEF ShadingInv

(* A new file.                                                                *)
LEMMA LoadKeeps ==
    ASSUME ShadingInv, Load
    PROVE  ShadingInv'
<1>1. PICK n \in 1 .. MaxPoints, h \in BOOLEAN :
         props' = Loaded(props, h) /\ ci' = load_ply_to_cache(props', n) /\ used' = used
  BY DEF Load
<1>2. props' = [props EXCEPT !.uuid = TRUE, !.has_normals = h,
                             !.illumination = props.illumination /\ h]
  BY <1>1 DEF Loaded
<1>3. IsProps(props') /\ SameChoice(props', props) /\ props'.uuid
  BY <1>2 DEF ShadingInv, PropsOK, IsProps, SameChoice
<1>4. PropsOK(props')
  BY <1>3, SameProps DEF ShadingInv
<1>5. EntryOK(ci')
  BY <1>1, <1>4, LoadedIsTrue, ShadingAssumption DEF PropsOK
<1> QED
  BY <1>1, <1>3, <1>4, <1>5 DEF ShadingInv

(* The switches.                                                              *)
LEMMA SwitchesKeep ==
    ASSUME ShadingInv, (\E s \in used : Toggle(s)) \/ clip_planes_from \/ clip_planes_reset
    PROVE  ShadingInv'
<1>1. used \subseteq ToSet(Extras)
  BY ShadingAssumption DEF ShadingInv
<1>2. PropsOK(props) /\ used \in ShaderSets /\ EntryOK(ci) /\ (ci.object => props.uuid)
  BY DEF ShadingInv
<1>3. ASSUME NEW s \in used, Toggle(s) PROVE ShadingInv'
  <2>1. /\ props' = (IF s \in props.on THEN switched_off(props, s) ELSE switched_on(props, s))
        /\ ci' = ci /\ used' = used
    BY <1>3 DEF Toggle
  <2>2. PropsOK(props') /\ props'.uuid = props.uuid
    BY <1>1, <1>2, <2>1, SwitchedOnChooses, SwitchedOffChooses
  <2> QED
    BY <1>2, <2>1, <2>2 DEF ShadingInv
<1>4. CASE clip_planes_from
  <2>1. props' = switched_on(props, "CLIP") /\ ci' = ci /\ used' = used /\ "CLIP" \in used
    BY <1>4 DEF clip_planes_from
  <2>2. PropsOK(props') /\ props'.uuid = props.uuid
    BY <1>1, <1>2, <2>1, SwitchedOnChooses
  <2> QED
    BY <1>2, <2>1, <2>2 DEF ShadingInv
<1>5. CASE clip_planes_reset
  <2>1. props' = switched_off(props, "CLIP") /\ ci' = ci /\ used' = used
    BY <1>5 DEF clip_planes_reset
  <2>2. PropsOK(props') /\ props'.uuid = props.uuid
    BY <1>2, <2>1, SwitchedOffChooses
  <2> QED
    BY <1>2, <2>1, <2>2 DEF ShadingInv
<1> QED
  BY <1>3, <1>4, <1>5

(* The other settings, which touch neither the entry nor the choice.          *)
LEMMA SettingsKeep ==
    ASSUME ShadingInv,
           ToggleIllumination \/ ToggleNormals \/ ToggleVisible \/ ShaderOptions
    PROVE  ShadingInv'
<1>1. PropsOK(props) /\ IsProps(props) /\ used \in ShaderSets /\ EntryOK(ci)
      /\ (ci.object => props.uuid)
  BY DEF ShadingInv, PropsOK
<1>2. ci' = ci /\ used' = used
  BY DEF ToggleIllumination, ToggleNormals, ToggleVisible, ShaderOptions
<1>3. IsProps(props') /\ SameChoice(props', props) /\ props'.uuid = props.uuid
  <2>1. \/ props' = [props EXCEPT !.illumination = ~props.illumination]
        \/ props' = [props EXCEPT !.vertex_normals = ~props.vertex_normals]
        \/ props' = [props EXCEPT !.visible = ~props.visible]
        \/ props' = [props EXCEPT !.false_colors = ~props.false_colors]
        \/ props' = [props EXCEPT !.circles = ~props.circles]
    BY DEF ToggleIllumination, ToggleNormals, ToggleVisible, ShaderOptions
  <2> QED
    BY <1>1, <2>1 DEF IsProps, SameChoice
<1>4. PropsOK(props')
  BY <1>1, <1>3, SameProps
<1> QED
  BY <1>1, <1>2, <1>3, <1>4 DEF ShadingInv

(* The percentage of the points that are shown.                               *)
LEMMA PercentKeeps ==
    ASSUME ShadingInv, NEW percent \in Percents, _display_percent_update(percent)
    PROVE  ShadingInv'
<1>1. PropsOK(props) /\ used \in ShaderSets /\ EntryOK(ci) /\ (ci.object => props.uuid)
  BY DEF ShadingInv
<1>2. percent \in 0 .. 100
  BY ShadingAssumption
<1> DEFINE l == display_length(ci.n, percent)
<1>3. l \in 0 .. ci.n
  BY <1>1, <1>2, LengthInRange DEF EntryOK
<1>4. /\ props' = [props EXCEPT !.percent = percent]
      /\ ci' = [ci EXCEPT !.display_length = l]
      /\ used' = used
  BY DEF _display_percent_update
<1> HIDE DEF l
<1>5. PropsOK(props') /\ props'.uuid = props.uuid
  <2>1. /\ IsProps(props') /\ props'.percent = percent /\ props'.on = props.on
        /\ props'.override = props.override /\ props'.uuid = props.uuid
    BY <1>1, <1>4 DEF PropsOK, IsProps
  <2> QED
    BY <1>1, <1>2, <2>1 DEF PropsOK
<1>6. EntryOK(ci') /\ ci'.object = ci.object
  BY <1>1, <1>3, <1>4 DEF EntryOK, IsEntry
<1> QED
  BY <1>1, <1>4, <1>5, <1>6 DEF ShadingInv

(* The filters that only compute new points.                                  *)
LEMMA FiltersKeep ==
    ASSUME ShadingInv,
           \/ filter_simplify \/ filter_project \/ filter_join
           \/ filter_boolean_intersect \/ filter_boolean_exclude
    PROVE  ShadingInv'
<1>1. PropsOK(props) /\ used \in ShaderSets /\ EntryOK(ci) /\ (ci.object => props.uuid)
  BY DEF ShadingInv
<1>2. PICK n \in Nat : NewPoints(n)
  <2>1. ci.n \in Nat
    BY <1>1 DEF EntryOK
  <2>2. MaxPoints \in Nat
    BY ShadingAssumption
  <2> QED
    BY <2>1, <2>2 DEF filter_simplify, filter_project, filter_join, filter_boolean_intersect,
                      filter_boolean_exclude
<1>3. ci' = update(ci, props, n) /\ used' = used /\ props' = props
  BY <1>2 DEF NewPoints
<1>4. EntryOK(ci') /\ ci'.object = ci.object
  BY <1>1, <1>3, UpdateIsTrue DEF PropsOK
<1> QED
  BY <1>1, <1>3, <1>4 DEF ShadingInv

(* The points of another file.                                                *)
LEMMA MergeKeeps ==
    ASSUME ShadingInv, filter_merge
    PROVE  ShadingInv'
<1>1. PropsOK(props) /\ used \in ShaderSets /\ EntryOK(ci) /\ (ci.object => props.uuid)
  BY DEF ShadingInv
<1>2. PICK n \in ci.n + 1 .. MaxPoints, h \in BOOLEAN :
         /\ props' = [props EXCEPT !.has_normals = h, !.illumination = @ /\ h]
         /\ ci' = update(ci, props', n)
         /\ used' = used
  BY Zenon DEF filter_merge
<1>3. IsProps(props') /\ SameChoice(props', props) /\ props'.uuid = props.uuid
  BY <1>1, <1>2 DEF PropsOK, IsProps, SameChoice
<1>4. PropsOK(props')
  BY <1>1, <1>3, SameProps
<1>5. n \in Nat
  BY <1>1, ShadingAssumption DEF EntryOK
<1>6. EntryOK(ci') /\ ci'.object = ci.object
  BY <1>1, <1>2, <1>4, <1>5, UpdateIsTrue DEF PropsOK
<1> QED
  BY <1>1, <1>2, <1>3, <1>4, <1>6 DEF ShadingInv

(* The selection of points by their colour, and what is done with it.         *)
LEMMA SelectionKeeps ==
    ASSUME ShadingInv,
           \/ filter_remove_color \/ filter_remove_color_deselect
           \/ filter_remove_color_delete_selected
    PROVE  ShadingInv'
<1>1. PropsOK(props) /\ used \in ShaderSets /\ EntryOK(ci) /\ (ci.object => props.uuid)
  BY DEF ShadingInv
<1>2. ASSUME NEW b, props' = [props EXCEPT !.selecting = b]
      PROVE  PropsOK(props') /\ props'.uuid = props.uuid
  <2>1. IsProps(props') /\ SameChoice(props', props) /\ props'.uuid = props.uuid
    BY <1>1, <1>2 DEF PropsOK, IsProps, SameChoice
  <2> QED
    BY <1>1, <2>1, SameProps
<1>3. ASSUME NEW c, EntryOK(c), NEW k \in Nat
      PROVE  EntryOK([c EXCEPT !.selection = k]) /\ [c EXCEPT !.selection = k].object = c.object
  BY <1>3 DEF EntryOK, IsEntry
<1>4. CASE filter_remove_color
  <2>1. PICK k \in 1 .. ci.n : /\ props' = [props EXCEPT !.selecting = TRUE]
                               /\ ci' = [ci EXCEPT !.selection = k] /\ used' = used
    BY <1>4 DEF filter_remove_color
  <2>2. k \in Nat
    BY <1>1, <2>1 DEF EntryOK
  <2>3. EntryOK(ci') /\ ci'.object = ci.object
    BY <1>1, <1>3, <2>1, <2>2
  <2> QED
    BY <1>1, <1>2, <2>1, <2>3 DEF ShadingInv
<1>5. CASE filter_remove_color_deselect
  <2>1. /\ props' = [props EXCEPT !.selecting = FALSE]
        /\ ci' = [ci EXCEPT !.selection = 0] /\ used' = used
    BY <1>5 DEF filter_remove_color_deselect
  <2> QED
    BY <1>1, <1>2, <1>3, <2>1 DEF ShadingInv
<1>6. CASE filter_remove_color_delete_selected
  <2>1. /\ props' = [props EXCEPT !.selecting = FALSE] /\ used' = used
        /\ ci.selection \in 1 .. ci.n
    BY <1>6 DEF filter_remove_color_delete_selected
  <2>2. PICK r \in 1 .. ci.selection :
           ci' = [update(ci, props, ci.n - r) EXCEPT !.selection = 0]
    BY <1>6 DEF filter_remove_color_delete_selected
  <2>3. ci.n - r \in Nat
    BY <1>1, <2>1, <2>2 DEF EntryOK
  <2>4. EntryOK(update(ci, props, ci.n - r)) /\ update(ci, props, ci.n - r).object = ci.object
    BY <1>1, <2>3, UpdateIsTrue DEF PropsOK
  <2>5. EntryOK(ci') /\ ci'.object = ci.object
    BY <1>3, <2>2, <2>4
  <2> QED
    BY <1>1, <1>2, <2>1, <2>5 DEF ShadingInv
<1> QED
  BY <1>4, <1>5, <1>6

(* The colours are computed for good.                                         *)
LEMMA AdjustmentKeeps ==
    ASSUME ShadingInv, color_adjustment_shader_apply
    PROVE  ShadingInv'
<1>1. PropsOK(props) /\ used \in ShaderSets /\ EntryOK(ci) /\ (ci.object => props.uuid)
  BY DEF ShadingInv
<1> DEFINE c == [ci EXCEPT !.extra = << >>]
<1>2. /\ props' = switched_off(props, "COLOR_ADJUSTMENT")
      /\ ci' = update(c, props, ci.n) /\ used' = used
  BY DEF color_adjustment_shader_apply
<1>3. EntryOK(c) /\ c.object = ci.object
  BY <1>1 DEF EntryOK, IsEntry
<1> HIDE DEF c
<1>4. EntryOK(ci') /\ ci'.object = ci.object
  BY <1>1, <1>2, <1>3, UpdateIsTrue DEF PropsOK, EntryOK
<1>5. PropsOK(props') /\ props'.uuid = props.uuid
  BY <1>1, <1>2, SwitchedOffChooses
<1> QED
  BY <1>1, <1>2, <1>4, <1>5 DEF ShadingInv

(* An undo: the properties are the defaults and the reference is dead.        *)
LEMMA UndoKeeps ==
    ASSUME ShadingInv, Undo
    PROVE  ShadingInv'
<1>1. PropsOK(Defaults)
  BY DEF PropsOK, IsProps, ChoiceOK, Defaults
<1>2. props' = Defaults /\ ci' = [ci EXCEPT !.object = FALSE] /\ used' = used
  BY DEF Undo
<1>3. EntryOK(ci') /\ ci'.object = FALSE
  BY <1>2 DEF ShadingInv, EntryOK, IsEntry
<1> QED
  BY <1>1, <1>2, <1>3 DEF ShadingInv

(* Every step.                                                                *)
LEMMA ShadingKeeps == ShadingInv /\ [ShadingNext]_shadingVars => ShadingInv'
<1> SUFFICES ASSUME ShadingInv, [ShadingNext]_shadingVars PROVE ShadingInv'
  OBVIOUS
<1>1. CASE UNCHANGED shadingVars
  BY <1>1 DEF ShadingInv, shadingVars
<1>2. CASE Redraw
  BY <1>2, RedrawKeeps
<1>3. CASE Command
  BY <1>3, LoadKeeps, SwitchesKeep, SettingsKeep, PercentKeeps, FiltersKeep, MergeKeeps,
     SelectionKeeps, AdjustmentKeeps, UndoKeeps DEF Command
<1> QED
  BY <1>1, <1>2, <1>3 DEF ShadingNext

(* The invariant always holds.                                                *)
LEMMA ShadingInvariant == ShadingSpec => []ShadingInv
  BY ShadingStarts, ShadingKeeps, PTL DEF ShadingSpec

(* The batch of the default shader holds what the entry says of it, for any   *)
(* number of points, any percentages and any shaders, however update, the     *)
(* callbacks of the properties, undo and render alternate.                    *)
THEOREM BatchesAreCurrent == ShadingSpec => []BatchCurrent
<1>1. ShadingInv => BatchCurrent
  BY DEF ShadingInv, EntryOK, BatchCurrent, Batch
<1> QED
  BY <1>1, ShadingInvariant, PTL

(* The callbacks of the switches leave one shader on, the colour adjustment   *)
(* with one of the dev shaders excepted, and override the default shader only *)
(* for another one, whichever of the shaders are used and in which order.     *)
THEOREM ShadersAreChosen == ShadingSpec => []ShaderChoice
<1>1. ShadingInv => ShaderChoice
  <2> SUFFICES ASSUME ShadingInv PROVE ShaderChoice
    OBVIOUS
  <2> DEFINE shaders == props.on \ {"BOUNDING_BOX"}
             S == shaders \ {"COLOR_ADJUSTMENT"}
  <2>1. /\ props.override => shaders # {}
        /\ \A a, b \in S : a = b
        /\ "COLOR_ADJUSTMENT" \in shaders =>
               shaders \subseteq {"COLOR_ADJUSTMENT", "DEPTH", "NORMAL", "POSITION"}
    BY Zenon DEF ShadingInv, PropsOK, ChoiceOK
  <2>2. Cardinality(S) <= 1
    <3> HIDE DEF S
    <3>1. CASE S = {}
      <4>1. Cardinality({}) = 0
        BY FS_EmptySet, Zenon
      <4> QED
        BY <3>1, <4>1
    <3>2. CASE S # {}
      <4>1. PICK a : a \in S
        BY <3>2
      <4>2. S = {a}
        BY <2>1, <4>1
      <4>3. Cardinality({a}) = 1
        BY FS_Singleton, Zenon
      <4> QED
        BY <4>2, <4>3
    <3> QED
      BY <3>1, <3>2
  <2> QED
    BY <2>1, <2>2 DEF ShaderChoice
<1> QED
  BY <1>1, ShadingInvariant, PTL

(* In every reachable state a redraw that comes to its end shows the cloud,   *)
(* what it shows of the selection exists, and the object names the entry.     *)
THEOREM RedrawsShow == ShadingSpec => []RedrawShows
<1>1. ShadingInv => RedrawShows
  <2> SUFFICES ASSUME ShadingInv PROVE RedrawShows
    OBVIOUS
  <2> DEFINE st == render(ci, props)
  <2>1. EntryOK(ci) /\ IsProps(props) /\ (ci.object => props.uuid)
    BY DEF ShadingInv, PropsOK
  <2>2. /\ (ci.object => props.uuid) => st.p.uuid
        /\ st.ended = "no" =>
              /\ ~props.override => st.drawn # {}
              /\ \A i \in 1 .. Len(Extras) : Extras[i] \in props.on => Extras[i] \in st.drawn
              /\ st.p.selecting => st.c.selection <= st.c.n
    BY <2>1, RenderDraws
  <2> HIDE DEF st
  <2>3. ASSUME props.override
        PROVE  \E i \in 1 .. Len(Extras) : Extras[i] \in props.on
    <3>1. PICK s : s \in props.on /\ s \in ToSet(Extras)
      BY <2>3 DEF ShadingInv, PropsOK, ChoiceOK
    <3>2. DOMAIN Extras = 1 .. Len(Extras)
      BY DEF Extras
    <3> QED
      BY <3>1, <3>2 DEF ToSet
  <2>4. st.ended = "no" => st.drawn # {} /\ (st.p.selecting => st.c.selection <= st.c.n)
                           /\ st.p.uuid
    BY <2>1, <2>2, <2>3
  <2> QED
    BY <2>4 DEF RedrawShows, st
<1> QED
  BY <1>1, ShadingInvariant, PTL
-----------------------------------------------------------------------------
(* Flattened sequences.                                                       *)

(* f holds what FlattenSeq has put together of s, up to each index.           *)
IsFlat(S, s, f) ==
    /\ s \in Seq(Seq(S))
    /\ f \in [0 .. Len(s) -> Seq(S)]
    /\ f[0] = << >>
    /\ \A i \in 1 .. Len(s) : f[i] = f[i - 1] \o s[i]

(* The equation of the recursion in FlattenSeq, up to index n.                *)
Flattens(s, n, f) ==
    f = [i \in 1 .. n |-> IF i = 1 THEN s[i] ELSE f[i - 1] \o s[i]]

LEMMA FlattensExists ==
    ASSUME NEW s, NEW n \in Nat
    PROVE  \E f : Flattens(s, n, f)
<1> DEFINE T == {m \in Nat : ~\E f : Flattens(s, m, f)}
<1> SUFFICES ASSUME T # {} PROVE FALSE
  OBVIOUS
<1>1. PICK m \in T : \A k \in T : m <= k
  BY LeastOf
<1>2. CASE m = 0
  <2> DEFINE f == [i \in 1 .. 0 |-> s]
  <2>1. Flattens(s, 0, f)
    BY DEF Flattens
  <2> QED
    BY <1>1, <1>2, <2>1
<1>3. CASE m # 0
  <2>1. m \in Nat /\ m > 0 /\ m - 1 \in Nat /\ m - 1 \notin T
    BY <1>1, <1>3
  <2>2. PICK g : Flattens(s, m - 1, g)
    BY <2>1
  <2> DEFINE F(i, h) == IF i = 1 THEN s[i] ELSE h[i - 1] \o s[i]
             f == [i \in 1 .. m |-> IF i = m THEN F(i, g) ELSE g[i]]
  <2>3. \A i \in 1 .. m - 1 : g[i] = F(i, g)
    <3>1. g = [i \in 1 .. m - 1 |-> F(i, g)]
      BY <2>2, Zenon DEF Flattens
    <3> HIDE DEF F
    <3> QED
      BY <3>1
  <2>4. ASSUME NEW i \in 1 .. m
        PROVE  f[i] = F(i, f)
    <3>1. i # 1 => i - 1 \in 1 .. m /\ i - 1 # m
      BY <2>1
    <3>2. i # 1 => f[i - 1] = g[i - 1]
      BY <3>1
    <3>3. F(i, f) = F(i, g)
      BY <3>2
    <3>4. f[i] = F(i, g)
      <4>1. CASE i = m
        BY <4>1
      <4>2. CASE i # m
        <5>1. i \in 1 .. m - 1 /\ f[i] = g[i]
          BY <2>1, <4>2
        <5> QED
          BY <2>3, <5>1
      <4> QED
        BY <4>1, <4>2
    <3> QED
      BY <3>3, <3>4
  <2>5. f = [i \in 1 .. m |-> f[i]]
    OBVIOUS
  <2>6. Flattens(s, m, f)
    <3> HIDE DEF f
    <3> QED
      BY <2>4, <2>5, Zenon DEF Flattens
  <2> QED
    BY <1>1, <2>6
<1> QED
  BY <1>2, <1>3

(* FlattenSeq puts the sequences together, one after the other.               *)
LEMMA FlattenIs ==
    ASSUME NEW S, NEW s \in Seq(Seq(S))
    PROVE  \E f : IsFlat(S, s, f) /\ FlattenSeq(s) = f[Len(s)]
<1> DEFINE N == Len(s)
           g == CHOOSE h : Flattens(s, N, h)
           f == [i \in 0 .. N |-> IF i = 0 THEN << >> ELSE g[i]]
<1>1. N \in Nat /\ \A i \in 1 .. N : s[i] \in Seq(S)
  OBVIOUS
<1>2. FlattenSeq(s) = IF N = 0 THEN s ELSE g[N]
  BY DEF FlattenSeq, Flattens
<1> HIDE DEF N
<1>3. Flattens(s, N, g)
  BY <1>1, FlattensExists
<1> HIDE DEF g
<1>4. \A i \in 1 .. N : g[i] = IF i = 1 THEN s[i] ELSE g[i - 1] \o s[i]
  <2> DEFINE F(i) == IF i = 1 THEN s[i] ELSE g[i - 1] \o s[i]
  <2>1. g = [i \in 1 .. N |-> F(i)]
    BY <1>3, Zenon DEF Flattens
  <2> HIDE DEF F
  <2>2. \A i \in 1 .. N : g[i] = F(i)
    BY <2>1
  <2> QED
    BY <2>2 DEF F
<1>5. f[0] = << >> /\ \A i \in 1 .. N : f[i] = g[i]
  BY <1>1
<1>6. ASSUME NEW i \in 1 .. N
      PROVE  f[i] = f[i - 1] \o s[i]
  <2>1. CASE i = 1
    <3>1. f[i] = s[i] /\ f[i - 1] = << >> /\ s[i] \in Seq(S)
      BY <1>1, <1>4, <1>5, <2>1
    <3> HIDE DEF f
    <3>2. << >> \o s[i] = s[i]
      BY <3>1, ConcatEmptySeq
    <3> QED
      BY <3>1, <3>2
  <2>2. CASE i # 1
    <3>1. i - 1 \in 1 .. N
      BY <1>1, <2>2
    <3> QED
      BY <1>4, <1>5, <2>2, <3>1
  <2> QED
    BY <2>1, <2>2
<1>7. ASSUME NEW i \in 0 .. N PROVE f[i] \in Seq(S)
  <2> HIDE DEF f
  <2> DEFINE T == {m \in Nat : m <= N /\ f[m] \notin Seq(S)}
  <2> SUFFICES ASSUME T # {} PROVE FALSE
    BY <1>1
  <2>1. PICK m \in T : \A k \in T : m <= k
    BY LeastOf
  <2>2. CASE m = 0
    <3>1. f[m] = << >> /\ << >> \in Seq(S)
      BY <1>5, <2>2, EmptySeq
    <3> QED
      BY <2>1, <3>1
  <2>3. CASE m # 0
    <3>1. m \in 1 .. N /\ m - 1 \in Nat /\ m - 1 <= N /\ m - 1 \notin T
      BY <1>1, <2>1, <2>3
    <3>2. f[m - 1] \in Seq(S) /\ s[m] \in Seq(S) /\ f[m] = f[m - 1] \o s[m]
      BY <1>1, <1>6, <3>1
    <3>3. f[m] \in Seq(S)
      BY <3>2, ConcatProperties
    <3> QED
      BY <2>1, <3>3
  <2> QED
    BY <2>2, <2>3
<1>8. f \in [0 .. N -> Seq(S)]
  BY <1>7
<1>9. FlattenSeq(s) = f[N]
  <2>1. CASE N = 0
    <3>1. s = << >>
      BY <2>1 DEF N
    <3> QED
      BY <1>2, <1>5, <2>1, <3>1
  <2>2. CASE N # 0
    <3>1. N \in 1 .. N
      BY <1>1, <2>2
    <3> QED
      BY <1>2, <1>5, <2>2, <3>1
  <2> QED
    BY <2>1, <2>2
<1> HIDE DEF f
<1> QED
  BY <1>5, <1>6, <1>8, <1>9 DEF IsFlat, N
(* c is a and then b.                                                         *)
Joins(S, a, b, c) ==
    /\ a \in Seq(S) /\ b \in Seq(S) /\ c \in Seq(S)
    /\ Len(c) = Len(a) + Len(b)
    /\ \A k \in 1 .. Len(a) : c[k] = a[k]
    /\ \A k \in 1 .. Len(b) : c[Len(a) + k] = b[k]

LEMMA Joined ==
    ASSUME NEW S, NEW a \in Seq(S), NEW b \in Seq(S), NEW c, c = a \o b
    PROVE  Joins(S, a, b, c)
<1>1. /\ c \in Seq(S) /\ Len(c) = Len(a) + Len(b)
      /\ \A i \in 1 .. Len(a) + Len(b) : c[i] = IF i <= Len(a) THEN a[i] ELSE b[i - Len(a)]
  BY ConcatProperties
<1>2. Len(a) \in Nat /\ Len(b) \in Nat
  OBVIOUS
<1> QED
  BY <1>1, <1>2 DEF Joins

(* One more sequence.                                                         *)
LEMMA FlatStep ==
    ASSUME NEW S, NEW s, NEW f, IsFlat(S, s, f), NEW i \in 1 .. Len(s)
    PROVE  Joins(S, f[i - 1], s[i], f[i])
<1>1. s \in Seq(Seq(S)) /\ f \in [0 .. Len(s) -> Seq(S)]
  BY DEF IsFlat
<1>2. s[i] \in Seq(S)
  BY <1>1, ElementOfSeq
<1>3. Len(s) \in Nat
  BY <1>1, LenProperties
<1>4. i - 1 \in 0 .. Len(s)
  BY <1>3
<1>5. f[i - 1] \in Seq(S)
  BY <1>1, <1>4, Zenon
<1>6. f[i] = f[i - 1] \o s[i]
  BY Zenon DEF IsFlat
<1> QED
  BY <1>2, <1>5, <1>6, Joined

(* What was put together first stays where it is.                             *)
LEMMA FlatPrefix ==
    ASSUME NEW S, NEW s, NEW f, IsFlat(S, s, f),
           NEW i \in 0 .. Len(s), NEW j \in i .. Len(s)
    PROVE  Len(f[i]) <= Len(f[j]) /\ \A k \in 1 .. Len(f[i]) : f[j][k] = f[i][k]
<1> DEFINE P(m) == Len(f[i]) <= Len(f[m]) /\ \A k \in 1 .. Len(f[i]) : f[m][k] = f[i][k]
           T == {m \in Nat : i <= m /\ m <= Len(s) /\ ~P(m)}
<1>0. Len(s) \in Nat /\ Len(f[i]) \in Nat
  <2>1. s \in Seq(Seq(S)) /\ f[i] \in Seq(S)
    BY Zenon DEF IsFlat
  <2> QED
    BY <2>1, LenProperties
<1> SUFFICES ASSUME T # {} PROVE FALSE
  <2> HIDE DEF P
  <2>1. j \in Nat /\ i <= j /\ j <= Len(s) /\ j \notin T
    BY <1>0
  <2>2. P(j)
    BY <2>1
  <2> QED
    BY <2>2 DEF P
<1>1. PICK m \in T : \A k \in T : m <= k
  BY LeastOf
<1>2. m # i
  <2>1. P(i)
    BY <1>0
  <2> QED
    BY <1>1, <2>1
<1>3. m \in 1 .. Len(s) /\ m - 1 \in Nat /\ i <= m - 1 /\ m - 1 <= Len(s) /\ m - 1 \notin T
  <2> HIDE DEF P
  <2> QED
    BY <1>0, <1>1, <1>2
<1>4. P(m - 1)
  <2> HIDE DEF P
  <2> QED
    BY <1>3
<1>5. Joins(S, f[m - 1], s[m], f[m])
  BY <1>3, FlatStep
<1>6. P(m)
  <2> DEFINE a == f[i]
             b == f[m - 1]
             c == f[m]
  <2>1. /\ Len(a) \in Nat /\ Joins(S, b, s[m], c)
        /\ Len(a) <= Len(b) /\ \A k \in 1 .. Len(a) : b[k] = a[k]
    BY <1>0, <1>4, <1>5
  <2> HIDE DEF a, b, c
  <2>2. Len(b) \in Nat /\ Len(s[m]) \in Nat
    BY <2>1, LenProperties DEF Joins
  <2>3. Len(a) <= Len(c) /\ \A k \in 1 .. Len(a) : c[k] = a[k]
    BY <2>1, <2>2 DEF Joins
  <2> QED
    BY <2>3 DEF a, c
<1> QED
  BY <1>1, <1>6

(* The elements of the i-th sequence follow those of the ones before.         *)
Follows(S, s, f, i) ==
    /\ Joins(S, f[i - 1], s[i], f[i])
    /\ f[Len(s)] \in Seq(S) /\ Len(f[i]) <= Len(f[Len(s)])
    /\ \A k \in 1 .. Len(s[i]) : f[Len(s)][Len(f[i - 1]) + k] = s[i][k]

LEMMA FlatPiece ==
    ASSUME NEW S, NEW s, NEW f, IsFlat(S, s, f),
           NEW i \in 1 .. Len(s)
    PROVE  Follows(S, s, f, i)
<1>1. Len(s) \in Nat
  BY LenProperties DEF IsFlat
<1>2. Len(s) \in 0 .. Len(s) /\ i \in 0 .. Len(s) /\ Len(s) \in i .. Len(s)
  BY <1>1
<1>3. f[Len(s)] \in Seq(S)
  BY <1>2, Zenon DEF IsFlat
<1>4. Joins(S, f[i - 1], s[i], f[i])
  BY FlatStep
<1>5. Len(f[i]) <= Len(f[Len(s)]) /\ \A k \in 1 .. Len(f[i]) : f[Len(s)][k] = f[i][k]
  BY <1>2, FlatPrefix
<1>6. \A k \in 1 .. Len(s[i]) : f[Len(s)][Len(f[i - 1]) + k] = s[i][k]
  <2> DEFINE a == f[i - 1]
             b == s[i]
             c == f[i]
             d == f[Len(s)]
  <2>1. Joins(S, a, b, c) /\ \A k \in 1 .. Len(c) : d[k] = c[k]
    BY <1>4, <1>5
  <2> HIDE DEF a, b, c, d
  <2>2. Len(a) \in Nat /\ Len(b) \in Nat
    BY <2>1, LenProperties DEF Joins
  <2>3. \A k \in 1 .. Len(b) : d[Len(a) + k] = b[k]
    BY <2>1, <2>2 DEF Joins
  <2> QED
    BY <2>3 DEF a, b, d
<1> QED
  BY <1>3, <1>4, <1>5, <1>6 DEF Follows

(* Sequences of one length.                                                   *)
LEMMA FlatLength ==
    ASSUME NEW S, NEW s \in Seq(Seq(S)), NEW n \in Nat, \A i \in 1 .. Len(s) : Len(s[i]) = n
    PROVE  FlattenSeq(s) \in Seq(S) /\ Len(FlattenSeq(s)) = Len(s) * n
<1>1. PICK f : IsFlat(S, s, f) /\ FlattenSeq(s) = f[Len(s)]
  BY FlattenIs
<1> DEFINE T == {m \in Nat : m <= Len(s) /\ Len(f[m]) # m * n}
<1>2. ASSUME T # {} PROVE FALSE
  <2>1. PICK m \in T : \A k \in T : m <= k
    BY <1>2, LeastOf
  <2>2. CASE m = 0
    <3>1. Len(f[m]) = 0 /\ m * n = 0
      BY <1>1, <2>2 DEF IsFlat
    <3> QED
      BY <2>1, <3>1
  <2>3. CASE m # 0
    <3>1. m \in 1 .. Len(s) /\ m - 1 \in Nat /\ m - 1 <= Len(s) /\ m - 1 \notin T
      <4>1. Len(s) \in Nat /\ m \in Nat /\ m <= Len(s) /\ \A k \in T : m <= k
        BY <2>1, LenProperties
      <4> HIDE DEF T
      <4> QED
        BY <2>3, <4>1
    <3>2. Joins(S, f[m - 1], s[m], f[m])
      BY <1>1, <3>1, FlatStep
    <3>3. Len(f[m - 1]) = (m - 1) * n /\ Len(s[m]) = n
      BY <3>1
    <3>4. (m - 1) * n + n = m * n
      BY <3>1
    <3>5. Len(f[m]) = m * n
      BY <3>2, <3>3, <3>4 DEF Joins
    <3> QED
      BY <2>1, <3>5
  <2> QED
    BY <2>2, <2>3
<1>3. Len(s) \in Nat /\ Len(s) \notin T
  BY <1>2
<1>4. FlattenSeq(s) \in Seq(S)
  <2>1. Len(s) \in 0 .. Len(s)
    BY <1>3
  <2> QED
    BY <1>1, <2>1, Zenon DEF IsFlat
<1> QED
  BY <1>1, <1>3, <1>4
-----------------------------------------------------------------------------
(* The reader of PLY files.                                                   *)

Element == [type: {"vertex", "other"}, count: Nat, size: Nat \ {0}]

(* Reading from the start as much as the first part holds.                    *)
LEMMA ReadFirst ==
    ASSUME NEW S, NEW s \in Seq(Seq(S)), Len(s) # 0
    PROVE  /\ From(FlattenSeq(s), 0, Len(s[1])) = s[1]
           /\ Len(FlattenSeq(s)) \in Nat /\ Len(s[1]) \in Nat
<1>1. PICK f : IsFlat(S, s, f) /\ FlattenSeq(s) = f[Len(s)]
  BY FlattenIs
<1>2. Len(s) \in Nat /\ 1 \in 1 .. Len(s)
  BY LenProperties
<1>3. /\ Joins(S, f[1 - 1], s[1], f[1])
      /\ f[Len(s)] \in Seq(S) /\ Len(f[1]) <= Len(f[Len(s)])
      /\ \A k \in 1 .. Len(s[1]) : f[Len(s)][Len(f[1 - 1]) + k] = s[1][k]
  BY <1>1, <1>2, FlatPiece DEF Follows
<1>4. f[1 - 1] = << >>
  BY <1>1 DEF IsFlat
<1> DEFINE a == s[1]
           d == f[Len(s)]
<1>5. /\ a \in Seq(S) /\ d \in Seq(S) /\ Len(a) <= Len(d) /\ Len(a) \in Nat /\ Len(d) \in Nat
      /\ \A k \in 1 .. Len(a) : d[k] = a[k]
  <2>1. Len(f[1 - 1]) = 0 /\ s[1] \in Seq(S) /\ Len(f[1]) = Len(f[1 - 1]) + Len(s[1])
    BY <1>3, <1>4 DEF Joins
  <2>2. Len(s[1]) \in Nat /\ Len(f[Len(s)]) \in Nat
    BY <1>3, <2>1, LenProperties
  <2> QED
    BY <1>3, <2>1, <2>2
<1> HIDE DEF a, d
<1>6. Min({0 + Len(a), Len(d)}) = Len(a)
  <2>1. 0 + Len(a) = Len(a)
    BY <1>5
  <2>2. Min({Len(a), Len(d)}) = IF Len(a) <= Len(d) THEN Len(a) ELSE Len(d)
    BY <1>5, MinIs
  <2> QED
    BY <1>5, <2>1, <2>2
<1>7. SubSeq(d, 0 + 1, Len(a)) = a
  <2>1. \A k \in 1 .. Len(a) : d[k] \in S
    BY <1>5
  <2>2. /\ SubSeq(d, 1, Len(a)) \in Seq(S) /\ Len(SubSeq(d, 1, Len(a))) = Len(a)
        /\ \A k \in 1 .. Len(a) : SubSeq(d, 1, Len(a))[k] = d[k]
    BY <1>5, <2>1
  <2> QED
    BY <1>5, <2>2, SeqEqual
<1>8. From(d, 0, Len(a)) = a
  BY <1>6, <1>7 DEF From
<1> QED
  BY <1>1, <1>5, <1>8 DEF a, d

(* Vertices come first, and in one block.                                     *)
OneBlock ==
    /\ header \in Seq(Element)
    /\ header # << >> /\ header[1].type = "vertex"
    /\ \A i \in 2 .. Len(header) : header[i].type # "vertex"

(* After the first element the readers only pass by.                          *)
LEMMA BinaryReads ==
    ASSUME OneBlock
    PROVE  _data_binary = array(From(bytes, 0, header[1].count * header[1].size))
<1> DEFINE N == Len(header)
           start == [points |-> no_points, read_from |-> 0]
           F(i, h) == IF i = 0 THEN start ELSE read_block(h[i - 1], header[i])
           found == read_block(start, header[1])
           g == CHOOSE h : h = [i \in 0 .. N |-> F(i, h)]
           f == [i \in 0 .. N |-> IF i = 0 THEN start ELSE found]
<1>1. N \in Nat /\ N >= 1
  BY DEF OneBlock
<1>2. _data_binary = g[N].points
  BY DEF _data_binary
<1>3. \A st : \A i \in 2 .. N : read_block(st, header[i]) = st
  BY DEF OneBlock, read_block
<1>4. found.points = array(From(bytes, 0, header[1].count * header[1].size))
  BY DEF OneBlock, read_block
<1> HIDE DEF N, start, found, g
<1>5. f = [i \in 0 .. N |-> F(i, f)]
  <2>1. ASSUME NEW i \in 0 .. N PROVE f[i] = F(i, f)
    <3>1. CASE i = 0
      BY <3>1
    <3>2. CASE i = 1
      BY <1>1, <3>2 DEF found
    <3>3. CASE i \in 2 .. N
      <4>0. i \in 0 .. N /\ i # 0 /\ i - 1 \in 0 .. N /\ i - 1 # 0
        BY <1>1, <3>3
      <4>1. f[i] = found /\ f[i - 1] = found
        BY <4>0
      <4>2. read_block(found, header[i]) = found
        BY <1>3, <3>3
      <4> QED
        BY <3>3, <4>1, <4>2
    <3> QED
      BY <1>1, <3>1, <3>2, <3>3
  <2>2. f = [i \in 0 .. N |-> f[i]]
    OBVIOUS
  <2> HIDE DEF F, f
  <2> QED
    BY <2>1, <2>2, Zenon
<1>6. g = [i \in 0 .. N |-> F(i, g)]
  BY <1>5, Zenon DEF g
<1>7. \A i \in 0 .. N : g[i] = F(i, g)
  <2> HIDE DEF F
  <2> QED
    BY <1>6
<1> HIDE DEF f
<1> DEFINE T == {m \in Nat : 1 <= m /\ m <= N /\ g[m] # found}
<1>8. T = {}
  <2> SUFFICES ASSUME T # {} PROVE FALSE
    OBVIOUS
  <2>1. PICK m \in T : \A k \in T : m <= k
    BY LeastOf
  <2>2. CASE m = 1
    <3>1. g[0] = start /\ g[1] = read_block(g[0], header[1])
      BY <1>1, <1>7
    <3> QED
      BY <2>1, <2>2, <3>1 DEF found
  <2>3. CASE m # 1
    <3>1. m \in 2 .. N /\ m \in 0 .. N /\ m - 1 \in Nat /\ m - 1 \notin T
      BY <1>1, <2>1, <2>3
    <3>2. g[m - 1] = found /\ g[m] = read_block(g[m - 1], header[m])
      BY <1>1, <1>7, <3>1
    <3> QED
      BY <1>3, <2>1, <3>1, <3>2
  <2> QED
    BY <2>2, <2>3
<1> QED
  BY <1>1, <1>2, <1>4, <1>8

LEMMA AsciiReads ==
    ASSUME OneBlock
    PROVE  _data_ascii = squeezed(From(lines, 0, (Len(lines) - (Len(lines) - header[1].count)) - 0))
<1> DEFINE N == Len(header)
           start == [points |-> no_points, skip_header |-> 0, skip_footer |-> Len(lines)]
           F(i, h) == IF i = 0 THEN start ELSE genfromtxt(h[i - 1], header[i])
           found == genfromtxt(start, header[1])
           g == CHOOSE h : h = [i \in 0 .. N |-> F(i, h)]
           f == [i \in 0 .. N |-> IF i = 0 THEN start ELSE found]
<1>1. N \in Nat /\ N >= 1
  BY DEF OneBlock
<1>2. _data_ascii = g[N].points
  BY DEF _data_ascii
<1>3. \A st : \A i \in 2 .. N : genfromtxt(st, header[i]) = st
  BY DEF OneBlock, genfromtxt
<1>4. found.points = squeezed(From(lines, 0, (Len(lines) - (Len(lines) - header[1].count)) - 0))
  BY DEF OneBlock, genfromtxt
<1> HIDE DEF N, start, found, g
<1>5. f = [i \in 0 .. N |-> F(i, f)]
  <2>1. ASSUME NEW i \in 0 .. N PROVE f[i] = F(i, f)
    <3>1. CASE i = 0
      BY <3>1
    <3>2. CASE i = 1
      BY <1>1, <3>2 DEF found
    <3>3. CASE i \in 2 .. N
      <4>0. i \in 0 .. N /\ i # 0 /\ i - 1 \in 0 .. N /\ i - 1 # 0
        BY <1>1, <3>3
      <4>1. f[i] = found /\ f[i - 1] = found
        BY <4>0
      <4>2. genfromtxt(found, header[i]) = found
        BY <1>3, <3>3
      <4> QED
        BY <3>3, <4>1, <4>2
    <3> QED
      BY <1>1, <3>1, <3>2, <3>3
  <2>2. f = [i \in 0 .. N |-> f[i]]
    OBVIOUS
  <2> HIDE DEF F, f
  <2> QED
    BY <2>1, <2>2, Zenon
<1>6. g = [i \in 0 .. N |-> F(i, g)]
  BY <1>5, Zenon DEF g
<1>7. \A i \in 0 .. N : g[i] = F(i, g)
  <2> HIDE DEF F
  <2> QED
    BY <1>6
<1> HIDE DEF f
<1> DEFINE T == {m \in Nat : 1 <= m /\ m <= N /\ g[m] # found}
<1>8. T = {}
  <2> SUFFICES ASSUME T # {} PROVE FALSE
    OBVIOUS
  <2>1. PICK m \in T : \A k \in T : m <= k
    BY LeastOf
  <2>2. CASE m = 1
    <3>1. g[0] = start /\ g[1] = genfromtxt(g[0], header[1])
      BY <1>1, <1>7
    <3> QED
      BY <2>1, <2>2, <3>1 DEF found
  <2>3. CASE m # 1
    <3>1. m \in 2 .. N /\ m \in 0 .. N /\ m - 1 \in Nat /\ m - 1 \notin T
      BY <1>1, <2>1, <2>3
    <3>2. g[m - 1] = found /\ g[m] = genfromtxt(g[m - 1], header[m])
      BY <1>1, <1>7, <3>1
    <3> QED
      BY <1>3, <2>1, <3>1, <3>2
  <2> QED
    BY <2>2, <2>3
<1> QED
  BY <1>1, <1>2, <1>4, <1>8

(* The points are the vertices.                                               *)
LEMMA OneBlockRead ==
    ASSUME OneBlock
    PROVE  /\ _data_ascii = squeezed(Records(1)) /\ Len(Records(1)) = header[1].count
           /\ _data_binary = array(FlattenSeq([r \in DOMAIN Records(1) |->
                                                [b \in 1 .. header[1].size |-> <<1, r>>]]))
<1> DEFINE S == Nat \X Nat
           N == Len(header)
           block(i) == [r \in 1 .. header[i].count |-> [b \in 1 .. header[i].size |-> <<i, r>>]]
           texts == [i \in 1 .. N |-> Records(i)]
           parts == [i \in 1 .. N |-> FlattenSeq(block(i))]
<1>1. /\ N \in Nat /\ N >= 1 /\ DOMAIN header = 1 .. N
      /\ \A i \in 1 .. N : header[i].count \in Nat /\ header[i].size \in Nat
  <2>1. header \in Seq(Element) /\ header # << >>
    BY DEF OneBlock
  <2>2. N \in Nat /\ N >= 1 /\ DOMAIN header = 1 .. N /\ \A i \in 1 .. N : header[i] \in Element
    BY <2>1
  <2> QED
    BY <2>2 DEF Element
<1> HIDE DEF N
<1>2. ASSUME NEW i \in 1 .. N
      PROVE  Records(i) \in Seq(S) /\ Len(Records(i)) = header[i].count
  <2> DEFINE c == header[i].count
  <2>1. c \in Nat /\ i \in Nat
    BY <1>1
  <2>2. Records(i) = [r \in 1 .. c |-> <<i, r>>]
    BY DEF Records
  <2> HIDE DEF c
  <2>3. \A r \in 1 .. c : <<i, r>> \in S
    BY <2>1
  <2> HIDE DEF S
  <2>4. Records(i) \in Seq(S) /\ Len(Records(i)) = c
    BY <2>1, <2>2, <2>3
  <2> QED
    BY <2>4 DEF c
<1>3. ASSUME NEW i \in 1 .. N
      PROVE  FlattenSeq(block(i)) \in Seq(S)
             /\ Len(FlattenSeq(block(i))) = header[i].count * header[i].size
  <2> DEFINE c == header[i].count
             z == header[i].size
             row(r) == [b \in 1 .. z |-> <<i, r>>]
             rows == [r \in 1 .. c |-> row(r)]
  <2>1. c \in Nat /\ z \in Nat /\ i \in Nat
    BY <1>1
  <2>2. block(i) = rows
    OBVIOUS
  <2> HIDE DEF c, z
  <2>3. ASSUME NEW r \in 1 .. c PROVE row(r) \in Seq(S) /\ Len(row(r)) = z
    BY <2>1
  <2> HIDE DEF row, S
  <2>4. rows \in Seq(Seq(S)) /\ Len(rows) = c /\ \A r \in 1 .. c : rows[r] = row(r)
    BY <2>1, <2>3
  <2>5. \A r \in 1 .. Len(rows) : Len(rows[r]) = z
    BY <2>3, <2>4
  <2> HIDE DEF rows
  <2>6. FlattenSeq(rows) \in Seq(S) /\ Len(FlattenSeq(rows)) = Len(rows) * z
    BY <2>1, <2>4, <2>5, FlatLength
  <2> HIDE DEF block
  <2> QED
    BY <2>2, <2>4, <2>6 DEF c, z
<1> HIDE DEF S, block
<1>4. texts \in Seq(Seq(S)) /\ Len(texts) = N /\ texts[1] = Records(1)
  BY <1>1, <1>2
<1>5. parts \in Seq(Seq(S)) /\ Len(parts) = N /\ parts[1] = FlattenSeq(block(1))
  BY <1>1, <1>3
<1>6. lines = FlattenSeq(texts) /\ bytes = FlattenSeq(parts)
  BY <1>1 DEF lines, bytes, N, block
<1> HIDE DEF texts, parts
<1>7. _data_ascii = squeezed(Records(1)) /\ Len(Records(1)) = header[1].count
  <2>1. From(lines, 0, Len(Records(1))) = Records(1) /\ Len(lines) \in Nat
    BY <1>1, <1>4, <1>6, ReadFirst
  <2>2. Len(Records(1)) = header[1].count /\ header[1].count \in Nat
    BY <1>1, <1>2
  <2>3. (Len(lines) - (Len(lines) - header[1].count)) - 0 = Len(Records(1))
    BY <2>1, <2>2
  <2> QED
    BY <2>1, <2>2, <2>3, AsciiReads
<1>8. _data_binary = array(FlattenSeq(block(1)))
  <2>1. From(bytes, 0, Len(parts[1])) = parts[1]
    BY <1>1, <1>5, <1>6, ReadFirst
  <2>2. Len(parts[1]) = header[1].count * header[1].size
    BY <1>1, <1>3, <1>5
  <2> QED
    BY <1>5, <2>1, <2>2, BinaryReads
<1>9. DOMAIN Records(1) = 1 .. header[1].count
  BY DEF Records
<1> QED
  BY <1>7, <1>8, <1>9 DEF block

(* Whatever the header says of the other elements, and however large they     *)
(* are, the points that are read are the vertices, in both formats, if the    *)
(* vertices come first and in one block; of a text with one vertex nothing is *)
(* loaded.                                                                    *)
THEOREM VerticesAreRead == FilesSpec => []VerticesRead
<1> DEFINE Typed == header \in Seq(Element)
<1>1. FilesInit => Typed
  BY DEF FilesInit
<1>2. Typed /\ [FilesNext]_filesVars => Typed'
  <2> SUFFICES ASSUME Typed, [FilesNext]_filesVars PROVE Typed'
    OBVIOUS
  <2>1. CASE AddElement
    <3>1. PICK t \in {"vertex", "other"}, c \in 0 .. MaxCount, z \in 1 .. MaxSize :
             header' = Append(header, [type |-> t, count |-> c, size |-> z])
      BY <2>1 DEF AddElement
    <3>2. [type |-> t, count |-> c, size |-> z] \in Element
      BY <3>1, FilesAssumption DEF Element
    <3> QED
      BY <3>1, <3>2, AppendProperties
  <2>2. CASE UNCHANGED header
    BY <2>2
  <2> QED
    BY <2>1, <2>2 DEF FilesNext, filesVars, Export, WriteData, RemoveOriginal, Move, Crash
<1>3. Typed => VerticesRead
  <2> DEFINE stored == FlattenSeq([r \in DOMAIN Records(1) |->
                                     [b \in 1 .. header[1].size |-> <<1, r>>]])
  <2>1. OneBlock => /\ _data_ascii = squeezed(Records(1)) /\ Len(Records(1)) = header[1].count
                    /\ _data_binary = array(stored)
    BY OneBlockRead
  <2> HIDE DEF stored
  <2>2. OneBlock => (loads(_data_ascii) <=> header[1].count # 1) /\ _data_ascii.rows = Records(1)
    <3>1. ASSUME NEW r
          PROVE  (loads(squeezed(r)) <=> Len(r) # 1) /\ squeezed(r).rows = r
      BY DEF squeezed, loads
    <3> QED
      BY ONLY <2>1, <3>1
  <2>3. OneBlock => loads(_data_binary) /\ _data_binary.rows = stored
    BY <2>1 DEF array, loads
  <2> QED
    BY <2>2, <2>3 DEF VerticesRead, OneBlock, stored
<1> QED
  BY <1>1, <1>2, <1>3, PTL DEF FilesSpec
-----------------------------------------------------------------------------
(* The converter of certificates.                                             *)

(* The characters that the literal keeps, after the ends of lines were read,  *)
(* and what they are written as.                                              *)
Kept == {"LF", "hex", "printable", "control"}
Tokens == {"n_escape", "end", "hex", "printable", "x_control"}

(* A control character does not stand before a digit.                         *)
Separated(r) ==
    \A j \in 1 .. Len(r) : r[j] = "control" /\ j < Len(r) => r[j + 1] # "hex"

(* The characters one by one.                                                 *)
LEMMA EscapeIs ==
    ASSUME NEW c \in Kept
    PROVE  /\ escape(c) \in Seq(Tokens)
           /\ c = "LF" => escape(c) = <<"n_escape", "end">>
           /\ c # "LF" => escape(c) = <<hex_escape(c)>> /\ hex_escape(c) # "end"
           /\ c \in {"hex", "printable"} => hex_escape(c) = c
           /\ c = "control" => hex_escape(c) = "x_control"
<1>1. /\ c \in {"hex", "printable"} => hex_escape(c) = c
      /\ c = "control" => hex_escape(c) = "x_control"
  BY DEF hex_escape
<1>2. c # "LF" => hex_escape(c) \in Tokens \ {"end"}
  BY <1>1 DEF Tokens, Kept
<1>3. <<"n_escape", "end">> \in Seq(Tokens)
  BY DEF Tokens
<1>4. c # "LF" => <<hex_escape(c)>> \in Seq(Tokens)
  BY <1>2
<1> QED
  BY <1>1, <1>2, <1>3, <1>4 DEF escape

LEMMA CharacterIs ==
    ASSUME NEW t \in Seq(Tokens), NEW k \in 1 .. Len(t)
    PROVE  /\ t[k] # "end" => character(t, k) \in Kept \union {"wrong"}
           /\ t[k] = "n_escape" => character(t, k) = "LF"
           /\ t[k] \in {"hex", "printable"} => character(t, k) = t[k]
           /\ t[k] = "x_control" /\ ~(k < Len(t) /\ t[k + 1] = "hex") =>
                 character(t, k) = "control"
<1>1. t[k] \in Tokens
  OBVIOUS
<1> QED
  BY <1>1 DEF character, Tokens, Kept
(* The tokens of the i-th of the characters r, in a literal t, are what they  *)
(* are for itself, and a digit follows them only if one follows in r.         *)
Written(r, f, i) ==
    LET t == f[Len(r)]
        o == Len(f[i - 1])
    IN  /\ t \in Seq(Tokens) /\ o \in Nat /\ Len(f[i]) <= Len(t)
        /\ r[i] = "LF" => /\ Len(f[i]) = o + 2
                          /\ t[o + 1] = "n_escape" /\ t[o + 2] = "end"
        /\ r[i] # "LF" => Len(f[i]) = o + 1 /\ t[o + 1] = hex_escape(r[i])
        /\ t[o + 1] = "hex" => r[i] = "hex"

LEMMA TokensOf ==
    ASSUME NEW r \in Seq(Kept), NEW e, NEW f, Len(e) = Len(r),
           \A j \in 1 .. Len(r) : e[j] = escape(r[j]), IsFlat(Tokens, e, f),
           NEW i \in 1 .. Len(r)
    PROVE  Written(r, f, i)
<1> DEFINE t == f[Len(r)]
           o == Len(f[i - 1])
           x == e[i]
<1>1. r[i] \in Kept /\ x = escape(r[i]) /\ Len(r) \in Nat /\ Len(e) = Len(r)
  OBVIOUS
<1>2. Follows(Tokens, e, f, i)
  BY <1>1, FlatPiece
<1>3. /\ t \in Seq(Tokens) /\ Len(f[i]) <= Len(t) /\ Len(f[i]) = o + Len(x)
      /\ \A k \in 1 .. Len(x) : t[o + k] = x[k]
  BY <1>1, <1>2 DEF Follows, Joins
<1>4. o \in Nat
  BY <1>2, LenProperties DEF Follows, Joins
<1> HIDE DEF t, o, x
<1>5. CASE r[i] = "LF"
  <2>1. x = <<"n_escape", "end">>
    BY <1>1, <1>5, EscapeIs
  <2>2. Len(x) = 2 /\ x[1] = "n_escape" /\ x[2] = "end"
    BY <2>1
  <2> QED
    BY <1>3, <1>4, <1>5, <2>2 DEF Written, t, o
<1>6. CASE r[i] # "LF"
  <2>1. x = <<hex_escape(r[i])>>
    BY <1>1, <1>6, EscapeIs
  <2>2. Len(x) = 1 /\ x[1] = hex_escape(r[i])
    BY <2>1
  <2>3. hex_escape(r[i]) = "hex" => r[i] = "hex"
    BY <1>1, <1>6, EscapeIs DEF Kept
  <2> QED
    BY <1>3, <1>4, <1>6, <2>2, <2>3 DEF Written, t, o
<1> QED
  BY <1>5, <1>6

(* The compiler gives back what was escaped.                                  *)
LEMMA CompilesBack ==
    ASSUME NEW r \in Seq(Kept), Separated(r)
    PROVE  compiled(FlattenSeq([i \in DOMAIN r |-> escape(r[i])])) = r
<1> DEFINE N == Len(r)
           C == Kept \union {"wrong"}
           e == [i \in 1 .. N |-> escape(r[i])]
<1>1. N \in Nat /\ DOMAIN r = 1 .. N /\ \A i \in 1 .. N : r[i] \in Kept
  OBVIOUS
<1>2. e \in Seq(Seq(Tokens)) /\ Len(e) = N /\ \A i \in 1 .. N : e[i] = escape(r[i])
  <2>1. \A i \in 1 .. N : escape(r[i]) \in Seq(Tokens)
    BY <1>1, EscapeIs
  <2> HIDE DEF N
  <2> QED
    BY <1>1, <2>1
<1>3. PICK f : IsFlat(Tokens, e, f) /\ FlattenSeq(e) = f[Len(e)]
  BY <1>2, FlattenIs
<1> DEFINE t == f[N]
           char(k) == IF t[k] = "end" THEN << >> ELSE <<character(t, k)>>
           p == [k \in 1 .. Len(t) |-> char(k)]
<1>4. t \in Seq(Tokens) /\ Len(t) \in Nat /\ DOMAIN t = 1 .. Len(t) /\ f[0] = << >>
  <2>1. N \in 0 .. N /\ f \in [0 .. N -> Seq(Tokens)] /\ f[0] = << >>
    BY <1>1, <1>2, <1>3 DEF IsFlat
  <2>2. f[N] \in Seq(Tokens)
    BY <2>1, Zenon
  <2> HIDE DEF N
  <2> QED
    BY <2>1, <2>2
<1>5. FlattenSeq([i \in DOMAIN r |-> escape(r[i])]) = t
  BY <1>1, <1>2, <1>3
<1>6. compiled(t) = FlattenSeq(p)
  BY <1>4 DEF compiled
<1> HIDE DEF N, t, e
<1>7. \A k \in 1 .. Len(t) : char(k) \in Seq(C)
  <2> SUFFICES ASSUME NEW k \in 1 .. Len(t) PROVE char(k) \in Seq(C)
    OBVIOUS
  <2>1. t[k] # "end" => character(t, k) \in C
    BY <1>4, CharacterIs
  <2> HIDE DEF C
  <2> QED
    BY <2>1
<1> HIDE DEF C, char
<1>8. p \in Seq(Seq(C)) /\ Len(p) = Len(t) /\ \A k \in 1 .. Len(t) : p[k] = char(k)
  BY <1>4, <1>7
<1> HIDE DEF p
<1>9. PICK g : IsFlat(C, p, g) /\ FlattenSeq(p) = g[Len(p)]
  BY <1>8, FlattenIs
<1> DEFINE o(i) == Len(f[i])
           OK(i) == /\ g[o(i)] \in Seq(C) /\ Len(g[o(i)]) = i
                    /\ \A k \in 1 .. i : g[o(i)][k] = r[k]
<1>10. OK(0)
  <2>1. o(0) = 0 /\ g[0] = << >>
    BY <1>4, <1>9 DEF IsFlat
  <2> QED
    BY <2>1
<1>11. ASSUME NEW i \in 1 .. N
       PROVE  /\ o(i - 1) \in Nat /\ o(i) <= Len(t)
              /\ r[i] = "LF" => /\ o(i) = o(i - 1) + 2
                                /\ t[o(i - 1) + 1] = "n_escape" /\ t[o(i - 1) + 2] = "end"
              /\ r[i] # "LF" => o(i) = o(i - 1) + 1 /\ t[o(i - 1) + 1] = hex_escape(r[i])
              /\ t[o(i - 1) + 1] = "hex" => r[i] = "hex"
  <2>1. Written(r, f, i)
    BY <1>2, <1>3, TokensOf DEF N
  <2> QED
    BY <2>1 DEF Written, N, t
<1>12. ASSUME NEW k \in 1 .. Len(t)
       PROVE  Joins(C, g[k - 1], char(k), g[k])
  BY <1>8, <1>9, FlatStep
<1>13. \A k \in 1 .. Len(t) : char(k) = IF t[k] = "end" THEN << >> ELSE <<character(t, k)>>
  BY DEF char
<1>14. ASSUME NEW i \in 1 .. N, OK(i - 1)
       PROVE  OK(i)
  <2> DEFINE j == o(i - 1)
             a == g[j]
             c == r[i]
  <2>1. /\ a \in Seq(C) /\ Len(a) = i - 1 /\ \A k \in 1 .. i - 1 : a[k] = r[k]
        /\ j \in Nat /\ c \in Kept /\ i \in Nat /\ i >= 1
    BY <1>1, <1>11, <1>14
  <2>2. ASSUME NEW b, Joins(C, a, <<c>>, b)
        PROVE  b \in Seq(C) /\ Len(b) = i /\ \A k \in 1 .. i : b[k] = r[k]
    <3> HIDE DEF a, c
    <3>1. Len(<<c>>) = 1 /\ <<c>>[1] = c
      OBVIOUS
    <3>2. b \in Seq(C) /\ Len(b) = i /\ b[i] = c /\ \A k \in 1 .. i - 1 : b[k] = a[k]
      BY <2>1, <2>2, <3>1 DEF Joins
    <3> QED
      BY <2>1, <3>2 DEF c
  <2>3. CASE c = "LF"
    <3>1. /\ o(i) = j + 2 /\ j + 1 \in 1 .. Len(t) /\ j + 2 \in 1 .. Len(t)
          /\ t[j + 1] = "n_escape" /\ t[j + 2] = "end"
      BY <1>4, <1>11, <2>1, <2>3
    <3>2. char(j + 1) = <<c>> /\ char(j + 2) = << >>
      <4>1. character(t, j + 1) = "LF"
        BY <1>4, <3>1, CharacterIs
      <4> QED
        BY <1>13, <2>3, <3>1, <4>1
    <3> HIDE DEF j
    <3>3. Joins(C, g[j], <<c>>, g[j + 1]) /\ Joins(C, g[j + 1], << >>, g[j + 2])
      <4>1. (j + 1) - 1 = j /\ (j + 2) - 1 = j + 1
        BY <2>1
      <4> QED
        BY <1>12, <3>1, <3>2, <4>1
    <3>4. g[j + 2] = g[j + 1]
      <4> DEFINE u == g[j + 1]
                 v == g[j + 2]
      <4>1. Joins(C, u, << >>, v)
        BY <3>3
      <4> HIDE DEF u, v
      <4>2. u \in Seq(C) /\ v \in Seq(C) /\ Len(v) = Len(u) /\ \A k \in 1 .. Len(v) : v[k] = u[k]
        BY <4>1 DEF Joins
      <4>3. v = u
        BY <4>2, SeqEqual
      <4> QED
        BY <4>3 DEF u, v
    <3>5. g[o(i)] = g[j + 1]
      BY <3>1, <3>4
    <3> QED
      BY <2>2, <3>3, <3>5
  <2>4. CASE c # "LF"
    <3>1. o(i) = j + 1 /\ j + 1 \in 1 .. Len(t) /\ t[j + 1] = hex_escape(c)
      BY <1>4, <1>11, <2>1, <2>4
    <3>2. ASSUME c = "control", j + 1 < Len(t), t[(j + 1) + 1] = "hex"
          PROVE  FALSE
      <4>1. i # N
        BY <3>1, <3>2 DEF t
      <4>2. i + 1 \in 1 .. N /\ (i + 1) - 1 = i
        BY <1>1, <4>1
      <4>3. t[o(i) + 1] = "hex" => r[i + 1] = "hex"
        BY <1>11, <4>2
      <4>4. r[i + 1] # "hex"
        BY <1>1, <3>2, <4>2 DEF Separated, N
      <4> QED
        BY <3>1, <3>2, <4>3, <4>4
    <3>3. char(j + 1) = <<c>>
      <4>1. hex_escape(c) # "end"
        BY <2>1, <2>4, EscapeIs
      <4>2. character(t, j + 1) = c
        <5> HIDE DEF j
        <5>1. CASE c \in {"hex", "printable"}
          <6>1. t[j + 1] = c
            BY <2>1, <3>1, <5>1, EscapeIs
          <6> QED
            BY <1>4, <3>1, <5>1, <6>1, CharacterIs
        <5>2. CASE c = "control"
          <6>1. t[j + 1] = "x_control"
            BY <2>1, <3>1, <5>2, EscapeIs
          <6>2. ~(j + 1 < Len(t) /\ t[(j + 1) + 1] = "hex")
            BY <3>2, <5>2
          <6> QED
            BY <1>4, <3>1, <5>2, <6>1, <6>2, CharacterIs
        <5> QED
          BY <2>1, <2>4, <5>1, <5>2 DEF Kept
      <4> QED
        BY <1>13, <3>1, <4>1, <4>2
    <3>4. Joins(C, a, <<c>>, g[j + 1])
      <4>1. (j + 1) - 1 = j
        BY <2>1
      <4> QED
        BY <1>12, <3>1, <3>3, <4>1
    <3> QED
      BY <2>2, <3>1, <3>4
  <2> QED
    BY <2>3, <2>4
<1>15. ASSUME NEW i \in 0 .. N PROVE OK(i)
  <2> HIDE DEF OK
  <2> DEFINE T == {m \in Nat : m <= N /\ ~OK(m)}
  <2> SUFFICES ASSUME T # {} PROVE FALSE
    BY <1>1
  <2>1. PICK m \in T : \A k \in T : m <= k
    BY LeastOf
  <2>2. m # 0
    BY <1>10, <2>1
  <2>3. m \in 1 .. N /\ m - 1 \in Nat /\ m - 1 <= N /\ m - 1 \notin T
    BY <1>1, <2>1, <2>2
  <2> QED
    BY <1>14, <2>1, <2>3
<1>16. g[Len(t)] \in Seq(C) /\ Len(g[Len(t)]) = N /\ \A k \in 1 .. N : g[Len(t)][k] = r[k]
  <2>1. OK(N)
    BY <1>1, <1>15
  <2> QED
    BY <2>1 DEF t
<1>17. g[Len(t)] = r
  <2>1. r \in Seq(C)
    BY DEF C
  <2> QED
    BY <1>16, <2>1, SeqEqual DEF N
<1> QED
  BY <1>5, <1>6, <1>8, <1>9, <1>17
(* Reading the lines keeps what the converter relies on.                      *)
Plain ==
    /\ text \in Seq(Classes)
    /\ \A i \in 1 .. Len(text) :
          /\ text[i] \notin {"quote", "beyond"}
          /\ text[i] = "control" /\ i < Len(text) => text[i + 1] # "hex"

LEMMA LinesRead ==
    ASSUME Plain
    PROVE  readlines(text) \in Seq(Kept) /\ Separated(readlines(text))
<1> DEFINE N == Len(text)
           piece(i) == IF text[i] # "CR" THEN <<text[i]>>
                       ELSE IF i < N /\ text[i + 1] = "LF" THEN << >> ELSE <<"LF">>
           s == [i \in 1 .. N |-> piece(i)]
<1>1. N \in Nat /\ DOMAIN text = 1 .. N /\ \A i \in 1 .. N : text[i] \in Classes
  BY DEF Plain
<1>2. readlines(text) = FlattenSeq(s)
  BY <1>1 DEF readlines
<1>3. ASSUME NEW i \in 1 .. N
      PROVE  /\ piece(i) \in Seq(Kept)
             /\ \/ piece(i) = << >> /\ i < N /\ text[i + 1] = "LF"
                \/ \E c \in Kept : /\ piece(i) = <<c>> /\ (c = "hex" => text[i] = "hex")
                                   /\ c = "control" /\ i < N => text[i + 1] # "hex"
  <2>1. CASE text[i] # "CR"
    <3> DEFINE c == text[i]
    <3>1. c \in Kept /\ (c = "control" /\ i < N => text[i + 1] # "hex")
      BY <1>1, <2>1 DEF Plain, Classes, Kept
    <3>2. piece(i) = <<c>>
      BY <2>1
    <3>3. <<c>> \in Seq(Kept)
      BY <3>1
    <3> HIDE DEF piece
    <3> QED
      BY <3>1, <3>2, <3>3
  <2>2. CASE text[i] = "CR" /\ i < N /\ text[i + 1] = "LF"
    <3>1. piece(i) = << >>
      BY <2>2
    <3> HIDE DEF piece
    <3> QED
      BY <2>2, <3>1
  <2>3. CASE text[i] = "CR" /\ ~(i < N /\ text[i + 1] = "LF")
    <3>1. piece(i) = <<"LF">>
      BY <2>3
    <3>2. "LF" \in Kept /\ <<"LF">> \in Seq(Kept)
      BY DEF Kept
    <3> HIDE DEF piece
    <3> QED
      BY <3>1, <3>2
  <2> QED
    BY <2>1, <2>2, <2>3
<1> HIDE DEF N, piece
<1>4. s \in Seq(Seq(Kept)) /\ Len(s) = N /\ \A i \in 1 .. N : s[i] = piece(i)
  BY <1>1, <1>3
<1> HIDE DEF s
<1>5. PICK f : IsFlat(Kept, s, f) /\ FlattenSeq(s) = f[Len(s)]
  BY <1>4, FlattenIs
<1> DEFINE OK(i) ==
        /\ f[i] \in Seq(Kept) /\ Separated(f[i])
        /\ Len(f[i]) # 0 /\ f[i][Len(f[i])] = "control" /\ i < N => text[i + 1] # "hex"
<1>6. OK(0)
  <2>1. f[0] = << >>
    BY <1>5 DEF IsFlat
  <2> QED
    BY <2>1 DEF Separated
<1>7. ASSUME NEW i \in 1 .. N, OK(i - 1)
      PROVE  OK(i)
  <2> DEFINE a == f[i - 1]
             b == f[i]
  <2>1. Joins(Kept, a, piece(i), b)
    BY <1>4, <1>5, FlatStep
  <2>2. a \in Seq(Kept) /\ Separated(a) /\ Len(a) \in Nat /\ i - 1 < N /\ (i - 1) + 1 = i
    BY <1>1, <1>7
  <2>3. Len(a) # 0 /\ a[Len(a)] = "control" => text[i] # "hex"
    BY <1>7, <2>2
  <2> HIDE DEF a, b
  <2>4. CASE piece(i) = << >> /\ i < N /\ text[i + 1] = "LF"
    <3>1. b \in Seq(Kept) /\ Len(b) = Len(a) /\ \A k \in 1 .. Len(b) : b[k] = a[k]
      BY <2>1, <2>2, <2>4 DEF Joins
    <3>2. b = a
      BY <2>2, <3>1, SeqEqual
    <3> QED
      BY <2>2, <2>4, <3>1, <3>2 DEF b
  <2>5. ASSUME NEW c \in Kept, piece(i) = <<c>>, c = "hex" => text[i] = "hex",
               c = "control" /\ i < N => text[i + 1] # "hex"
        PROVE  OK(i)
    <3>1. Len(<<c>>) = 1 /\ <<c>>[1] = c
      OBVIOUS
    <3>2. /\ b \in Seq(Kept) /\ Len(b) = Len(a) + 1 /\ b[Len(a) + 1] = c
          /\ \A k \in 1 .. Len(a) : b[k] = a[k]
      BY <2>1, <2>2, <2>5, <3>1 DEF Joins
    <3>3. ASSUME NEW j \in 1 .. Len(b), b[j] = "control", j < Len(b)
          PROVE  b[j + 1] # "hex"
      <4>1. j \in 1 .. Len(a) /\ b[j] = a[j]
        BY <2>2, <3>2, <3>3
      <4>2. CASE j < Len(a)
        <5>1. j + 1 \in 1 .. Len(a) /\ b[j + 1] = a[j + 1]
          BY <2>2, <3>2, <4>1, <4>2
        <5> QED
          BY <2>2, <3>3, <4>1, <4>2, <5>1 DEF Separated
      <4>3. CASE j = Len(a)
        BY <2>3, <2>5, <3>2, <3>3, <4>1, <4>3
      <4> QED
        BY <2>2, <4>1, <4>2, <4>3
    <3>4. Separated(b)
      BY <3>3 DEF Separated
    <3> QED
      BY <2>2, <2>5, <3>2, <3>4 DEF b
  <2> QED
    BY <1>3, <2>4, <2>5
<1>8. ASSUME NEW i \in 0 .. N PROVE OK(i)
  <2> HIDE DEF OK
  <2> DEFINE T == {m \in Nat : m <= N /\ ~OK(m)}
  <2> SUFFICES ASSUME T # {} PROVE FALSE
    BY <1>1
  <2>1. PICK m \in T : \A k \in T : m <= k
    BY LeastOf
  <2>2. m # 0
    BY <1>6, <2>1
  <2>3. m \in 1 .. N /\ m - 1 \in Nat /\ m - 1 <= N /\ m - 1 \notin T
    BY <1>1, <2>1, <2>2
  <2> QED
    BY <1>7, <2>1, <2>3
<1>9. OK(N)
  <2> HIDE DEF OK
  <2> QED
    BY <1>1, <1>8
<1> QED
  BY <1>2, <1>4, <1>5, <1>9

(* However long the certificate is, and whichever ends its lines have, the    *)
(* string in the firmware is the certificate, if it is ASCII without quotes   *)
(* and backslashes and has no control character before a hexadecimal digit.   *)
THEOREM HeadersDenote == HeaderSpec => []HeaderDenotes
<1> DEFINE Typed == text \in Seq(Classes)
<1>1. HeaderInit => Typed
  BY DEF HeaderInit
<1>2. Typed /\ [HeaderNext]_text => Typed'
  <2> SUFFICES ASSUME Typed, [HeaderNext]_text PROVE Typed'
    OBVIOUS
  <2>1. CASE HeaderNext
    <3>1. PICK c \in Classes : text' = Append(text, c)
      BY <2>1 DEF HeaderNext, Extend
    <3> QED
      BY <3>1, AppendProperties
  <2>2. CASE UNCHANGED text
    BY <2>2
  <2> QED
    BY <2>1, <2>2
<1>3. Typed => HeaderDenotes
  <2>1. ASSUME Plain PROVE compiled(c_string(text)) = readlines(text)
    BY <2>1, LinesRead, CompilesBack DEF c_string
  <2>2. Typed => DOMAIN text = 1 .. Len(text)
    OBVIOUS
  <2> QED
    BY <2>1, <2>2 DEF HeaderDenotes, Plain
<1> QED
  BY <1>1, <1>2, <1>3, PTL DEF HeaderSpec
=============================================================================

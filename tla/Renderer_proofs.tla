--------------------------- MODULE Renderer_proofs ---------------------------
(***************************************************************************)
(* Proofs about the Go renderer for every number of goroutines and rows.   *)
(***************************************************************************)
EXTENDS Renderer, FiniteSetTheorems, TLAPS

(***************************************************************************)
(* Facts of arithmetic that the provers do not find by themselves.         *)
(***************************************************************************)
\* Division with remainder.
LEMMA DivMod ==
    ASSUME NEW n \in Nat \ {0}, NEW a \in Nat
    PROVE  /\ a = n * (a \div n) + (a % n)
           /\ a \div n \in Nat
           /\ a % n \in 0 .. n - 1
  BY SMT

\* Multiples of n are n apart.
LEMMA MultiplesApart ==
    ASSUME NEW n \in Nat \ {0}, NEW k \in Nat, NEW l \in Nat, k < l
    PROVE  n * k + n <= n * l
  <1>1. n * (l - k - 1) >= 0
    BY SMT
  <1>2. n * (l - k - 1) = n * l - n * k - n
    BY SMT
  <1> QED
    BY <1>1, <1>2, SMT

\* The remainder is unique: n more leaves it as it is.
LEMMA ModStep ==
    ASSUME NEW n \in Nat \ {0}, NEW a \in Nat
    PROVE  (a + n) % n = a % n
  <1> DEFINE q == a \div n
             p == (a + n) \div n
             r == a % n
             s == (a + n) % n
  <1>1. a = n * q + r /\ q \in Nat /\ r \in 0 .. n - 1
    BY DivMod
  <1>2. a + n = n * p + s /\ p \in Nat /\ s \in 0 .. n - 1
    <2>1. a + n \in Nat
      OBVIOUS
    <2> QED
      BY <2>1, DivMod
  <1>3. n * q + n = n * (q + 1)
    BY <1>1, SMT
  <1> HIDE DEF p, q, r, s
  <1>4. ~(p < q + 1)
    BY <1>1, <1>2, <1>3, MultiplesApart, SMT
  <1>5. ~(q + 1 < p)
    BY <1>1, <1>2, <1>3, MultiplesApart, SMT
  <1>6. r = s
    BY <1>1, <1>2, <1>3, <1>4, <1>5, SMT
  <1> QED
    BY <1>6 DEF r, s

\* Two numbers with the same remainder that are less than n apart are equal.
LEMMA ModInjective ==
    ASSUME NEW n \in Nat \ {0}, NEW a \in Nat, NEW b \in Nat,
           a % n = b % n, a <= b, b < a + n
    PROVE  a = b
  <1>1. a = n * (a \div n) + (a % n) /\ a \div n \in Nat /\ a % n \in 0 .. n - 1
    BY DivMod
  <1>2. b = n * (b \div n) + (b % n) /\ b \div n \in Nat /\ b % n \in 0 .. n - 1
    BY DivMod
  <1>3. ~(a \div n < b \div n)
    BY <1>1, <1>2, MultiplesApart, SMT
  <1>4. ~(b \div n < a \div n)
    BY <1>1, <1>2, MultiplesApart, SMT
  <1> QED
    BY <1>1, <1>2, <1>3, <1>4, SMT

\* Every row belongs to a goroutine, whose number is not larger.
LEMMA RowOwner ==
    ASSUME NEW r \in Nat
    PROVE  r % NumCPU \in CPUs /\ r % NumCPU <= r
  BY RendererAssumption, SMT DEF CPUs

-----------------------------------------------------------------------------
(***************************************************************************)
(* Type correctness.                                                       *)
(***************************************************************************)
\* Init is type correct.
LEMMA TypeInit == Init => TypeOK
  <1>1. [r \in Rows |-> [c \in Cols |-> 0]] \in Images
    BY DEF Images
  <1>2. \A i \in CPUs : i \in Nat
    BY RendererAssumption DEF CPUs
  <1>3. 0 \in Cols
    BY RendererAssumption DEF Cols
  <1> SUFFICES ASSUME Init PROVE TypeOK
    OBVIOUS
  <1>4. mainPc \in MainLabels /\ buffer \in Images
    BY <1>1 DEF Init, MainLabels
  <1>5. goPc \in [CPUs -> GoLabels] /\ loop \in [CPUs -> Loops]
          /\ y \in [CPUs -> Nat] /\ x \in [CPUs -> Cols]
          /\ left \in [CPUs -> Nat] /\ samples \in [CPUs -> Nat]
    BY <1>2, <1>3 DEF Init, GoLabels, Loops
  <1>6. ch \in 0 .. Height /\ received \in 0 .. Height /\ runs \in Nat
          /\ wg \in Int
    BY RendererAssumption DEF Init
  <1>7. \A i \in CPUs : goPc[i] = "returned"
    BY DEF Init
  <1>8. files \in [0 .. MaxRuns -> SUBSET Images] /\ images \subseteq Images
          /\ writers \subseteq [iteration : Nat, image : Images, opened : BOOLEAN]
    BY DEF Init
  <1> QED
    BY <1>4, <1>5, <1>6, <1>7, <1>8 DEF Init, TypeOK

\* What run() does keeps the types.
LEMMA TypeRun ==
    ASSUME TypeOK, Running, StartRun \/ Receive \/ EndRun
    PROVE  TypeOK'
  <1> USE DEF TypeOK, Running, callVars, runVars, chVars, fileVars
  <1>1. CASE StartRun
    <2>1. \A i \in CPUs : i \in Nat /\ (i < Height => i \in Rows)
      BY RendererAssumption DEF CPUs, Rows
    <2>2. BaseSamples \in Nat /\ 0 \in Cols
      BY RendererAssumption, SMT DEF BaseSamples, Cols
    <2>3. goPc' \in [CPUs -> GoLabels] /\ left' \in [CPUs -> Nat]
            /\ loop' \in [CPUs -> Loops] /\ x' \in [CPUs -> Cols]
            /\ y' \in [CPUs -> Nat] /\ mainPc' \in MainLabels
      BY <1>1, <2>1, <2>2 DEF StartRun, GoLabels, Loops, MainLabels
    <2>4. \A i \in CPUs : goPc'[i] # "returned" => y'[i] \in Rows
      BY <1>1, <2>1 DEF StartRun
    <2>5. \A i \in CPUs : goPc'[i] # "store"
      BY <1>1 DEF StartRun
    <2>6. ch' \in 0 .. Height /\ received' \in 0 .. Height
      BY <1>1, RendererAssumption DEF StartRun
    <2> QED
      BY <1>1, <2>3, <2>4, <2>5, <2>6 DEF StartRun
  <1>2. CASE Receive
    BY <1>2, RendererAssumption DEF Receive
  <1>3. CASE EndRun
    BY <1>3 DEF EndRun, MainLabels
  <1> QED
    BY <1>1, <1>2, <1>3

\* What a goroutine does keeps the types.
LEMMA TypeGoroutine ==
    ASSUME TypeOK, Running, NEW i \in CPUs, Goroutine(i)
    PROVE  TypeOK'
  <1> USE DEF TypeOK, Running, callVars, runVars, chVars, fileVars
  <1>0. goPc[i] # "returned" => buffer[y[i]][x[i]] \in Nat
    BY DEF Images
  <1>1. CASE Sample(i)
    BY <1>0, <1>1 DEF Sample, GoLabels
  <1>2. CASE AddSample(i)
    <2>1. buffer' \in Images
      <3>1. buffer[y[i]] \in [Cols -> Nat]
        BY <1>2 DEF AddSample, Images
      <3>2. buffer' = [buffer EXCEPT ![y[i]] = [buffer[y[i]] EXCEPT ![x[i]] = samples[i] + 1]]
        BY <1>2 DEF AddSample, Images
      <3>3. [buffer[y[i]] EXCEPT ![x[i]] = samples[i] + 1] \in [Cols -> Nat]
        BY <3>1
      <3> QED
        BY <3>2, <3>3 DEF Images
    <2>2. left' \in [CPUs -> Nat]
      BY <1>2 DEF AddSample
    <2>3. goPc' \in [CPUs -> GoLabels]
      BY <1>2 DEF AddSample, GoLabels
    <2>4. \A j \in CPUs : goPc'[j] = "store" => left'[j] > 0
      BY <1>2 DEF AddSample
    <2>5. \A j \in CPUs : goPc'[j] # "returned" => y'[j] \in Rows
      BY <1>2 DEF AddSample
    <2> QED
      BY <1>2, <2>1, <2>2, <2>3, <2>4, <2>5 DEF AddSample
  <1>3. CASE AdaptiveSampling(i)
    BY <1>3, RendererAssumption DEF AdaptiveSampling, Loops
  <1>4. CASE FireflyReduction(i)
    BY <1>4, RendererAssumption DEF FireflyReduction, Loops
  <1>5. BaseSamples \in Nat /\ 0 \in Cols
    BY RendererAssumption, SMT DEF BaseSamples, Cols
  <1>6. CASE NextPixel(i)
    <2>1. x' \in [CPUs -> Cols] /\ loop' \in [CPUs -> Loops]
            /\ left' \in [CPUs -> Nat] /\ goPc' \in [CPUs -> GoLabels]
      <3>1. CASE x[i] + 1 \in Cols
        <4>1. x' = [x EXCEPT ![i] = x[i] + 1] /\ UNCHANGED goPc
                /\ loop' = [loop EXCEPT ![i] = "base"]
                /\ left' = [left EXCEPT ![i] = BaseSamples]
          BY <1>6, <3>1 DEF NextPixel
        <4>2. x' \in [CPUs -> Cols]
          BY <3>1, <4>1
        <4> QED
          BY <1>5, <4>1, <4>2 DEF Loops
      <3>2. CASE x[i] + 1 \notin Cols
        BY <1>6, <3>2 DEF NextPixel, GoLabels
      <3> QED
        BY <3>1, <3>2
    <2>2. \A j \in CPUs : goPc'[j] = "store" => left'[j] > 0
      BY <1>5, <1>6 DEF NextPixel
    <2>3. \A j \in CPUs : goPc'[j] # "returned" => y'[j] \in Rows
      BY <1>6 DEF NextPixel
    <2> QED
      BY <1>6, <2>1, <2>2, <2>3 DEF NextPixel
  <1>7. CASE SendRow(i)
    <2>1. y' \in [CPUs -> Nat] /\ y'[i] = y[i] + NumCPU
      BY <1>7, RendererAssumption DEF SendRow
    <2>2. x' \in [CPUs -> Cols] /\ loop' \in [CPUs -> Loops]
            /\ left' \in [CPUs -> Nat] /\ goPc' \in [CPUs -> GoLabels]
      BY <1>5, <1>7 DEF SendRow, Loops, GoLabels
    <2>3. \A j \in CPUs : goPc'[j] = "store" => left'[j] > 0
      BY <1>7 DEF SendRow
    <2>4. \A j \in CPUs : goPc'[j] # "returned" => y'[j] \in Rows
      BY <1>7, <2>1, RendererAssumption DEF SendRow, Rows
    <2>5. ch' \in 0 .. Height
      BY <1>7, RendererAssumption DEF SendRow
    <2> QED
      BY <1>7, <2>1, <2>2, <2>3, <2>4, <2>5 DEF SendRow
  <1> QED
    BY <1>1, <1>2, <1>3, <1>4, <1>6, <1>7 DEF Goroutine

\* The functions that call run() keep the types.
LEMMA TypeCallers ==
    ASSUME TypeOK, Running,
           \/ RenderReturns \/ IterationSaved \/ IterativeRenderReturns
           \/ FrameIterates \/ FrameRenderReturns
           \/ TimedIterates \/ TimedRenderReturns \/ ChannelOffers
           \/ CallerReceives
    PROVE  TypeOK'
  <1> USE DEF TypeOK, Running, callVars, runVars, chVars, fileVars, MainLabels
  <1>0. [iteration |-> runs, image |-> buffer, opened |-> FALSE]
          \in [iteration : Nat, image : Images, opened : BOOLEAN]
    OBVIOUS
  <1>1. CASE RenderReturns
    BY <1>1 DEF RenderReturns, Return
  <1>2. CASE IterationSaved
    <2>1. writers' \subseteq [iteration : Nat, image : Images, opened : BOOLEAN]
      BY <1>0, <1>2 DEF IterationSaved, Save
    <2>2. wg' \in Int /\ mainPc' \in MainLabels
      BY <1>2 DEF IterationSaved, Save
    <2> QED
      BY <1>2, <2>1, <2>2 DEF IterationSaved
  <1>3. CASE IterativeRenderReturns
    BY <1>3 DEF IterativeRenderReturns, Return
  <1>4. CASE FrameIterates
    BY <1>4 DEF FrameIterates
  <1>5. CASE FrameRenderReturns
    <2>1. writers' \subseteq [iteration : Nat, image : Images, opened : BOOLEAN]
      BY <1>0, <1>5 DEF FrameRenderReturns, Save
    <2>2. wg' \in Int /\ mainPc' \in MainLabels /\ images' \subseteq Images
      BY <1>5 DEF FrameRenderReturns, Save, Return
    <2> QED
      BY <1>5, <2>1, <2>2 DEF FrameRenderReturns
  <1>6. CASE TimedIterates
    BY <1>6 DEF TimedIterates
  <1>7. CASE TimedRenderReturns
    BY <1>7 DEF TimedRenderReturns, Return
  <1>8. CASE ChannelOffers
    BY <1>8 DEF ChannelOffers
  <1>9. CASE CallerReceives
    BY <1>9 DEF CallerReceives
  <1> QED
    BY <1>1, <1>2, <1>3, <1>4, <1>5, <1>6, <1>7, <1>8, <1>9

\* writeImage keeps the types.
LEMMA TypeWriteImage ==
    ASSUME TypeOK, Running, WriteImage
    PROVE  TypeOK'
  <1> USE DEF TypeOK, Running, callVars, runVars, chVars, fileVars
  <1> PICK w \in writers : CreateFile(w) \/ EncodeFile(w) \/ SaveFails(w)
    BY DEF WriteImage
  <1>1. w \in [iteration : Nat, image : Images, opened : BOOLEAN]
    OBVIOUS
  <1>2. CASE CreateFile(w)
    BY <1>1, <1>2 DEF CreateFile
  <1>3. CASE EncodeFile(w)
    <2>1. files' \in [0 .. MaxRuns -> SUBSET Images]
      BY <1>1, <1>3 DEF EncodeFile
    <2>2. writers' \subseteq [iteration : Nat, image : Images, opened : BOOLEAN]
            /\ wg' \in Int
      BY <1>3 DEF EncodeFile
    <2> QED
      BY <1>3, <2>1, <2>2 DEF EncodeFile
  <1>4. CASE SaveFails(w)
    BY <1>4 DEF SaveFails
  <1> QED
    BY <1>2, <1>3, <1>4

\* TypeOK holds in every reachable state: a goroutine that has not returned is
\* in a row of the image.
THEOREM RendererTypeCorrect == Spec => []TypeOK
  <1>1. TypeOK /\ [Next]_vars => TypeOK'
    <2> SUFFICES ASSUME TypeOK, [Next]_vars PROVE TypeOK'
      OBVIOUS
    <2>1. CASE Running /\ Main
      BY <2>1, TypeRun, TypeCallers DEF Main
    <2>2. CASE Running /\ CallerReceives
      BY <2>2, TypeCallers
    <2>3. CASE \E i \in CPUs : Running /\ Goroutine(i)
      BY <2>3, TypeGoroutine
    <2>4. CASE Running /\ WriteImage
      BY <2>4, TypeWriteImage
    <2>5. CASE UNCHANGED vars
      BY <2>5 DEF TypeOK, vars, callVars, runVars, chVars, fileVars
    <2> QED
      BY <2>1, <2>2, <2>3, <2>4, <2>5 DEF Next
  <1> QED
    BY <1>1, TypeInit, PTL DEF Spec

-----------------------------------------------------------------------------
(***************************************************************************)
(* The rows: who is in which, and how many are finished.                   *)
(***************************************************************************)
FinishedRows == {r \in Rows : Finished(r)}

\* The image has Height rows.
LEMMA RowsFinite == IsFiniteSet(Rows) /\ Cardinality(Rows) = Height
  BY FS_Interval, RendererAssumption DEF Rows

\* The finished rows are some of them.
LEMMA FinishedRowsFinite ==
    /\ IsFiniteSet(FinishedRows)
    /\ Cardinality(FinishedRows) \in Nat
    /\ Cardinality(FinishedRows) <= Height
    /\ Cardinality(FinishedRows) = Height => FinishedRows = Rows
  <1>1. FinishedRows \in SUBSET Rows
    BY DEF FinishedRows
  <1>2. IsFiniteSet(FinishedRows) /\ Cardinality(FinishedRows) <= Height
          /\ (Cardinality(FinishedRows) = Height => FinishedRows = Rows)
    BY <1>1, RowsFinite, FS_Subset
  <1> QED
    BY <1>2, FS_CardinalityType

\* A goroutine that has not returned is in an unfinished row of its own.
LEMMA RowUnfinished ==
    ASSUME TypeOK, RunInv, NEW i \in CPUs, goPc[i] # "returned"
    PROVE  mainPc = "run" /\ y[i] \in Rows /\ y[i] % NumCPU = i /\ ~Finished(y[i])
  BY DEF TypeOK, RunInv, Finished, Rows

\* SendRow(i) finishes the row of goroutine i and no other.
LEMMA SendRowFinishes ==
    ASSUME TypeOK, RunInv, NEW i \in CPUs, SendRow(i)
    PROVE  \A r \in Rows : Finished(r)' <=> (Finished(r) \/ r = y[i])
  <1>1. y[i] \in Nat /\ y[i] \in Rows /\ y[i] % NumCPU = i /\ goPc[i] # "returned"
    BY RowUnfinished DEF SendRow, Rows, TypeOK
  <1>2. y' = [y EXCEPT ![i] = y[i] + NumCPU]
    BY DEF SendRow
  <1>3. goPc' = [goPc EXCEPT ![i] = IF y'[i] < Height THEN "sample" ELSE "returned"]
    BY DEF SendRow
  <1> SUFFICES ASSUME NEW r \in Rows
               PROVE  Finished(r)' <=> (Finished(r) \/ r = y[i])
    OBVIOUS
  <1>4. r \in Nat /\ r < Height /\ r % NumCPU \in CPUs
    BY RowOwner, RendererAssumption DEF Rows
  <1>5. CASE r % NumCPU # i
    <2>1. y'[r % NumCPU] = y[r % NumCPU] /\ goPc'[r % NumCPU] = goPc[r % NumCPU]
      BY <1>2, <1>3, <1>4, <1>5 DEF TypeOK
    <2> QED
      BY <1>1, <1>5, <2>1 DEF Finished
  <1>6. CASE r % NumCPU = i
    <2>1. y'[i] = y[i] + NumCPU
      BY <1>2 DEF TypeOK
    <2>2. Finished(r)' <=> r < y[i] + NumCPU
      <3>1. goPc'[i] = IF y[i] + NumCPU < Height THEN "sample" ELSE "returned"
        BY <1>3, <2>1 DEF TypeOK
      <3>2. Finished(r)' <=> goPc'[i] = "returned" \/ r < y[i] + NumCPU
        BY <1>6, <2>1 DEF Finished
      <3> QED
        BY <1>1, <1>4, <3>1, <3>2, RendererAssumption
    <2>3. Finished(r) <=> r < y[i]
      BY <1>1, <1>6 DEF Finished
    <2>4. y[i] <= r /\ r < y[i] + NumCPU => r = y[i]
      BY <1>1, <1>4, <1>6, ModInjective, RendererAssumption
    <2> QED
      BY <1>1, <1>4, <2>2, <2>3, <2>4, RendererAssumption
  <1> QED
    BY <1>5, <1>6

\* A step that moves no goroutine to another row and leaves the channel alone
\* keeps the invariant.
LEMMA RunInvKept ==
    ASSUME TypeOK, RunInv, y' = y, UNCHANGED chVars,
           mainPc' = mainPc \/ (mainPc # "run" /\ mainPc' # "run"),
           \A j \in CPUs : goPc'[j] = "returned" <=> goPc[j] = "returned"
    PROVE  RunInv'
  <1>1. \A r \in Rows : Finished(r)' <=> Finished(r)
    <2> SUFFICES ASSUME NEW r \in Rows PROVE Finished(r)' <=> Finished(r)
      OBVIOUS
    <2>1. r % NumCPU \in CPUs
      BY RowOwner DEF Rows
    <2> QED
      BY <2>1 DEF Finished
  <1>2. {r \in Rows : Finished(r)}' = {r \in Rows : Finished(r)}
    BY <1>1
  <1> QED
    BY <1>2 DEF RunInv, chVars

\* RunInv is inductive.
LEMMA RunInvStep ==
    ASSUME TypeOK, TypeOK', RunInv, [Next]_vars
    PROVE  RunInv'
  <1>1. CASE StartRun
    <2>1. \A i \in CPUs : i \in Nat /\ i % NumCPU = i
      BY RendererAssumption, SMT DEF CPUs
    <2>2. \A i \in CPUs : y'[i] = i /\ (goPc'[i] = "returned" <=> ~(i < Height))
      BY <1>1 DEF StartRun
    <2>3. {r \in Rows : Finished(r)}' = {}
      <3> SUFFICES ASSUME NEW r \in Rows PROVE ~Finished(r)'
        OBVIOUS
      <3>1. r % NumCPU \in CPUs /\ r % NumCPU <= r /\ r \in Nat /\ r < Height
        BY RowOwner, RendererAssumption DEF Rows
      <3> QED
        BY <2>1, <2>2, <3>1, RendererAssumption DEF Finished
    <2>4. ch' + received' = Cardinality({r \in Rows : Finished(r)}')
      BY <1>1, <2>3, FS_EmptySet DEF StartRun
    <2>5. \A i \in CPUs : y'[i] % NumCPU = i
      BY <2>1, <2>2
    <2>6. \A i \in CPUs : goPc'[i] = "returned" => y'[i] >= Height
      BY <2>1, <2>2, RendererAssumption
    <2>7. mainPc' = "run"
      BY <1>1 DEF StartRun
    <2> QED
      BY <2>4, <2>5, <2>6, <2>7 DEF RunInv
  <1>2. CASE Receive
    <2>1. ch' + received' = ch + received
      BY <1>2 DEF Receive, TypeOK
    <2>2. {r \in Rows : Finished(r)}' = {r \in Rows : Finished(r)}
      BY <1>2 DEF Receive, runVars, Finished
    <2> QED
      BY <1>2, <2>1, <2>2 DEF Receive, runVars, RunInv
  <1>3. CASE EndRun
    <2>1. ch + Height = Cardinality(FinishedRows)
      BY <1>3 DEF EndRun, RunInv, FinishedRows
    <2>2. ch = 0 /\ FinishedRows = Rows
      BY <2>1, FinishedRowsFinite, RendererAssumption DEF TypeOK
    <2>3. \A i \in CPUs : goPc[i] = "returned"
      BY <2>2, RowUnfinished DEF FinishedRows
    <2> QED
      BY <1>3, <2>2, <2>3 DEF EndRun, runVars, chVars, RunInv
  <1>4. CASE \E i \in CPUs : Goroutine(i)
    <2> PICK i \in CPUs : Goroutine(i)
      BY <1>4
    <2>1. CASE SendRow(i)
      <3>1. y[i] \in Nat /\ y[i] % NumCPU = i /\ y[i] \in Rows
              /\ mainPc = "run" /\ mainPc' = "run" /\ ~Finished(y[i])
        BY <2>1, RowUnfinished DEF SendRow, TypeOK, Rows
      <3>2. {r \in Rows : Finished(r)}' = FinishedRows \cup {y[i]}
        BY <2>1, <3>1, SendRowFinishes DEF FinishedRows
      <3>3. y[i] \notin FinishedRows
        BY <3>1 DEF FinishedRows
      <3>4. Cardinality({r \in Rows : Finished(r)}') = Cardinality(FinishedRows) + 1
        BY <3>2, <3>3, FinishedRowsFinite, FS_AddElement
      <3>5. ch' + received' = Cardinality({r \in Rows : Finished(r)}')
        BY <2>1, <3>1, <3>4, FinishedRowsFinite
        DEF SendRow, RunInv, FinishedRows, TypeOK
      <3>6. \A j \in CPUs : y'[j] % NumCPU = j
        BY <2>1, <3>1, ModStep, RendererAssumption DEF SendRow, RunInv, TypeOK
      <3>7. \A j \in CPUs : goPc'[j] = "returned" => y'[j] >= Height
        BY <2>1, <3>1, RendererAssumption DEF SendRow, RunInv, TypeOK
      <3> QED
        BY <3>1, <3>5, <3>6, <3>7 DEF RunInv
    <2>2. CASE ~SendRow(i)
      <3>1. y' = y /\ UNCHANGED chVars /\ mainPc' = mainPc
        BY <2>2 DEF Goroutine, Sample, AddSample, AdaptiveSampling,
                    FireflyReduction, NextPixel, chVars
      <3>2. \A j \in CPUs : goPc'[j] = "returned" <=> goPc[j] = "returned"
        BY <2>2 DEF Goroutine, Sample, AddSample, AdaptiveSampling,
                    FireflyReduction, NextPixel, TypeOK
      <3> QED
        BY <3>1, <3>2, RunInvKept
    <2> QED
      BY <2>1, <2>2
  <1>5. CASE RenderReturns \/ IterationSaved \/ IterativeRenderReturns
             \/ FrameIterates \/ FrameRenderReturns \/ TimedIterates
             \/ TimedRenderReturns \/ ChannelOffers \/ CallerReceives
    <2>1. UNCHANGED <<runVars, chVars>> /\ mainPc # "run" /\ mainPc' # "run"
      BY <1>5 DEF RenderReturns, IterationSaved, IterativeRenderReturns,
         FrameIterates, FrameRenderReturns, TimedIterates, TimedRenderReturns,
         ChannelOffers, CallerReceives, Return
    <2> QED
      BY <2>1, RunInvKept DEF runVars
  <1>6. CASE WriteImage \/ UNCHANGED vars
    <2>1. UNCHANGED <<runVars, chVars, mainPc>>
      BY <1>6 DEF WriteImage, CreateFile, EncodeFile, SaveFails, vars
    <2> QED
      BY <2>1, RunInvKept DEF runVars
  <1> QED
    BY <1>1, <1>2, <1>3, <1>4, <1>5, <1>6 DEF Next, Main

\* RunInv holds in every reachable state.
THEOREM RunInvInvariant == Spec => []RunInv
  <1>1. Init => RunInv
    <2>1. \A i \in CPUs : i % NumCPU = i
      BY RendererAssumption, SMT DEF CPUs
    <2> QED
      BY <2>1 DEF Init, RunInv
  <1> QED
    BY <1>1, RunInvStep, RendererTypeCorrect, PTL DEF Spec

\* No two goroutines are ever in one row.
THEOREM RowsExclusiveInvariant == Spec => []RowsExclusive
  <1>1. TypeOK /\ RunInv => RowsExclusive
    BY DEF RunInv, RowsExclusive
  <1> QED
    BY <1>1, RunInvInvariant, RendererTypeCorrect, PTL

\* No goroutine ever waits to send: its own row is not among the finished ones,
\* which the tokens count.
THEOREM SendNeverBlocksInvariant == Spec => []SendNeverBlocks
  <1>1. TypeOK /\ RunInv => SendNeverBlocks
    <2> SUFFICES ASSUME TypeOK, RunInv, NEW i \in CPUs, goPc[i] = "send"
                 PROVE  ch < Height
      BY DEF SendNeverBlocks
    <2>1. mainPc = "run" /\ y[i] \in Rows /\ ~Finished(y[i])
      BY RowUnfinished
    <2>2. Cardinality(FinishedRows) # Height
      BY <2>1, FinishedRowsFinite DEF FinishedRows
    <2> QED
      BY <2>1, <2>2, FinishedRowsFinite, RendererAssumption
      DEF RunInv, FinishedRows, TypeOK
  <1> QED
    BY <1>1, RunInvInvariant, RendererTypeCorrect, PTL

\* The buffer is copied and shown only while no goroutine of run() is left.
THEOREM SnapshotQuiescentInvariant == Spec => []SnapshotQuiescent
  <1>1. RunInv => SnapshotQuiescent
    BY DEF RunInv, SnapshotQuiescent
  <1> QED
    BY <1>1, RunInvInvariant, PTL

-----------------------------------------------------------------------------
(***************************************************************************)
(* The goroutines implement ProgressiveRender.                             *)
(***************************************************************************)
\* The initial states are those of ProgressiveRender.
LEMMA RefineInit == Init => Render!RenderInit
  <1> SUFFICES ASSUME Init PROVE Render!RenderInit
    OBVIOUS
  <1>1. \A r \in Rows : r % NumCPU \in CPUs
    BY RowOwner DEF Rows
  <1>2. \A r \in Rows : Finished(r)
    BY <1>1 DEF Init, Finished
  <1>3. mainPc # "run" /\ runs = 0
    BY DEF Init
  <1> QED
    BY <1>2, <1>3 DEF Render!RenderInit, Begun

\* A step that leaves the rows finished and the runs begun as they are is a
\* stuttering step of ProgressiveRender.
LEMMA RefineStutter ==
    ASSUME Begun' = Begun, \A r \in Rows : Finished(r)' <=> Finished(r)
    PROVE  UNCHANGED Render!renderVars
  BY DEF Render!renderVars

\* Every step maps to a step of ProgressiveRender or to a stuttering step.
LEMMA RefineStep ==
    ASSUME TypeOK, RunInv, RunInv', [Next]_vars
    PROVE  [Render!RenderNext]_(Render!renderVars)
  <1>1. CASE StartRun
    <2>1. \A r \in Rows : Finished(r)
      BY <1>1, RowOwner DEF StartRun, RunInv, Finished, Rows
    <2>2. \A r \in Rows : ~Finished(r)'
      <3> SUFFICES ASSUME NEW r \in Rows PROVE ~Finished(r)'
        OBVIOUS
      <3>1. r % NumCPU \in CPUs /\ r % NumCPU <= r /\ r \in Nat /\ r < Height
        BY RowOwner, RendererAssumption DEF Rows
      <3> QED
        BY <1>1, <3>1, RendererAssumption DEF Finished, StartRun, CPUs
    <2>3. Begun' = Begun + 1 /\ Begun \in Nat
      BY <1>1 DEF StartRun, Begun, TypeOK
    <2>4. Render!BeginRound
      BY <2>1, <2>2, <2>3 DEF Render!BeginRound
    <2> QED
      BY <2>4 DEF Render!RenderNext
  <1>2. CASE Receive
    <2>1. Begun' = Begun /\ \A r \in Rows : Finished(r)' <=> Finished(r)
      BY <1>2 DEF Receive, runVars, Begun, Finished
    <2> QED
      BY <2>1, RefineStutter
  <1>3. CASE EndRun
    <2>1. Begun' = Begun
      BY <1>3 DEF EndRun, Begun, TypeOK
    <2>2. \A r \in Rows : Finished(r)' <=> Finished(r)
      BY <1>3 DEF EndRun, runVars, Finished
    <2> QED
      BY <2>1, <2>2, RefineStutter
  <1>4. CASE \E i \in CPUs : Goroutine(i)
    <2> PICK i \in CPUs : Goroutine(i)
      BY <1>4
    <2>1. CASE SendRow(i)
      <3>1. y[i] \in Rows /\ ~Finished(y[i])
        BY <2>1, RowUnfinished DEF SendRow
      <3>2. \A r \in Rows : Finished(r)' <=> (Finished(r) \/ r = y[i])
        BY <2>1, SendRowFinishes
      <3>3. Begun' = Begun /\ Begun \in Nat
        BY <2>1 DEF SendRow, Begun, TypeOK
      <3>4. Render!FinishBucket(y[i])
        BY <3>1, <3>2, <3>3 DEF Render!FinishBucket
      <3> QED
        BY <3>1, <3>4 DEF Render!RenderNext
    <2>2. CASE ~SendRow(i)
      <3>1. y' = y /\ mainPc' = mainPc /\ runs' = runs
        BY <2>2 DEF Goroutine, Sample, AddSample, AdaptiveSampling,
                    FireflyReduction, NextPixel
      <3>2. \A j \in CPUs : goPc'[j] = "returned" <=> goPc[j] = "returned"
        BY <2>2 DEF Goroutine, Sample, AddSample, AdaptiveSampling,
                    FireflyReduction, NextPixel, TypeOK
      <3>3. \A r \in Rows : Finished(r)' <=> Finished(r)
        BY <3>1, <3>2, RowOwner DEF Finished, Rows
      <3> QED
        BY <3>1, <3>3, RefineStutter DEF Begun
    <2> QED
      BY <2>1, <2>2
  <1>5. CASE RenderReturns \/ IterationSaved \/ IterativeRenderReturns
             \/ FrameIterates \/ FrameRenderReturns \/ TimedIterates
             \/ TimedRenderReturns \/ ChannelOffers \/ CallerReceives
             \/ WriteImage \/ UNCHANGED vars
    <2>1. UNCHANGED <<runVars, runs>>
            /\ (mainPc' = mainPc \/ (mainPc # "run" /\ mainPc' # "run"))
      BY <1>5 DEF RenderReturns, IterationSaved, IterativeRenderReturns,
         FrameIterates, FrameRenderReturns, TimedIterates, TimedRenderReturns,
         ChannelOffers, CallerReceives, Return, WriteImage, CreateFile,
         EncodeFile, SaveFails, vars
    <2>2. Begun' = Begun /\ \A r \in Rows : Finished(r)' <=> Finished(r)
      BY <2>1 DEF runVars, Begun, Finished
    <2> QED
      BY <2>2, RefineStutter
  <1> QED
    BY <1>1, <1>2, <1>3, <1>4, <1>5 DEF Next, Main

\* Every run finishes every row exactly once, and the next run begins when the
\* last row is finished.
THEOREM RowsInRoundsRefinement == Spec => RowsInRounds
  <1> QED
    BY RefineInit, RefineStep, RunInvInvariant, RendererTypeCorrect, PTL
    DEF Spec, RowsInRounds, Render!RenderSpec

-----------------------------------------------------------------------------
(***************************************************************************)
(* The samples of every pixel.                                             *)
(***************************************************************************)
\* What n runs may give a pixel.
SamplesAfter(n) == n * BaseSamples .. MostSamples(n)

\* The current run is through with the pixel, or at it.
PixelDone(r, c) ==
    LET i == r % NumCPU IN r < y[i] \/ (r = y[i] /\ (goPc[i] = "send" \/ c < x[i]))
PixelNow(r, c) ==
    LET i == r % NumCPU IN r = y[i] /\ c = x[i] /\ goPc[i] \in {"sample", "store"}

\* What goroutine i may still do to the pixel it is at, by the loop it is in.
MostBase == MostSamples(runs) + BaseSamples
PixelInHand(i) ==
    LET v == buffer[y[i]][x[i]]
    IN  /\ goPc[i] = "store" => samples[i] = v
        /\ loop[i] = "base" => v + left[i] \in (runs + 1) * BaseSamples .. MostBase
        /\ loop[i] # "base" => v >= (runs + 1) * BaseSamples
        /\ loop[i] = "adaptive" =>
              v + left[i] <= MostBase + (IF MostBase >= 2 THEN AdaptiveSamples ELSE 0)
        /\ loop[i] = "firefly" => v + left[i] <= MostSamples(runs + 1)

\* A pixel that the run is through with, or has not come to.
PixelRight(r, c) ==
    /\ PixelDone(r, c) => buffer[r][c] \in SamplesAfter(runs + 1)
    /\ ~PixelDone(r, c) /\ ~PixelNow(r, c) => buffer[r][c] \in SamplesAfter(runs)

\* Between runs every pixel has what the runs gave it; in a run the pixels the goroutines
\* are through with have what one more run gives, and those not begun what they had.
BufferInv ==
    /\ mainPc # "run" => Exposed(buffer, runs)
    /\ mainPc = "run" =>
          /\ \A i \in CPUs : goPc[i] \in {"sample", "store"} => PixelInHand(i)
          /\ \A r \in Rows, c \in Cols : PixelRight(r, c)

\* Both samplings ask for a natural number of samples.
LEMMA SamplesNat ==
    /\ BaseSamples \in Nat /\ Extra \in Nat
    /\ AdaptiveSamples \in Nat /\ FireflySamples \in Nat
  BY RendererAssumption, SMT DEF BaseSamples, Extra

\* What one more run adds to the most samples a pixel may have.
LEMMA MostStep ==
    ASSUME NEW n \in Nat
    PROVE  /\ MostSamples(n) \in Nat /\ MostSamples(n + 1) \in Nat
           /\ n * BaseSamples \in Nat
           /\ (n + 1) * BaseSamples = n * BaseSamples + BaseSamples
           /\ MostSamples(n) + BaseSamples <= MostSamples(n + 1)
           /\ MostSamples(n) + BaseSamples >= 2 =>
                 MostSamples(n + 1) = MostSamples(n) + BaseSamples + Extra
  <1> DEFINE B == BaseSamples
             E == Extra
  <1>1. B \in Nat /\ E \in Nat
    BY SamplesNat
  <1>2. n * B \in Nat /\ (n + 1) * B = n * B + B
    <2> HIDE DEF B
    <2> QED
      BY <1>1, SMT
  <1>3. CASE B = 0
    BY <1>2, <1>3 DEF MostSamples
  <1>4. CASE B = 1 /\ n = 0
    <2>1. MostSamples(n) = 0 /\ MostSamples(n + 1) = 1
      <3>1. (0 + 1 - 1) * Extra = 0
        BY <1>1
      <3> QED
        BY <1>4, <3>1 DEF MostSamples
    <2> QED
      BY <1>2, <1>4, <2>1
  <1>5. CASE B = 1 /\ n > 0
    <2>1. MostSamples(n) = n + (n - 1) * E /\ MostSamples(n + 1) = n + 1 + n * E
      BY <1>5 DEF MostSamples
    <2>2. (n - 1) * E \in Nat /\ n * E = (n - 1) * E + E
      <3> HIDE DEF E
      <3> QED
        BY <1>1, <1>5, SMT
    <2> QED
      BY <1>1, <1>2, <1>5, <2>1, <2>2
  <1>6. CASE B > 1
    <2>1. MostSamples(n) = n * (B + E) /\ MostSamples(n + 1) = (n + 1) * (B + E)
      BY <1>1, <1>6 DEF MostSamples
    <2>2. n * (B + E) \in Nat /\ (n + 1) * (B + E) = n * (B + E) + (B + E)
      <3> HIDE DEF B, E
      <3> QED
        BY <1>1, SMT
    <2> QED
      BY <1>1, <1>2, <2>1, <2>2
  <1> QED
    BY <1>1, <1>3, <1>4, <1>5, <1>6

\* A goroutine in its loops is in a row of the image that it owns.
LEMMA PixelOwned ==
    ASSUME TypeOK, RunInv, NEW i \in CPUs, goPc[i] # "returned"
    PROVE  /\ mainPc = "run" /\ y[i] \in Rows /\ y[i] % NumCPU = i /\ x[i] \in Cols
           /\ y[i] \in Nat /\ x[i] \in Nat /\ buffer[y[i]][x[i]] \in Nat
  <1>1. mainPc = "run" /\ y[i] \in Rows /\ y[i] % NumCPU = i
    BY RowUnfinished
  <1>2. x[i] \in Cols /\ y[i] \in Nat /\ buffer \in [Rows -> [Cols -> Nat]]
    BY DEF TypeOK, Images
  <1>3. x[i] \in Nat
    BY <1>2, RendererAssumption DEF Cols
  <1> QED
    BY <1>1, <1>2, <1>3

\* A goroutine's step is its own: it touches no other goroutine and no other row.
LEMMA GoroutineTouches ==
    ASSUME TypeOK, RunInv, NEW i \in CPUs, Goroutine(i)
    PROVE  /\ mainPc = "run" /\ mainPc' = "run" /\ runs' = runs
           /\ \A j \in CPUs : j # i =>
                 /\ goPc'[j] = goPc[j] /\ y'[j] = y[j] /\ x'[j] = x[j]
                 /\ loop'[j] = loop[j] /\ left'[j] = left[j] /\ samples'[j] = samples[j]
           /\ \A r \in Rows : r # y[i] => buffer'[r] = buffer[r]
  <1>1. goPc[i] # "returned" /\ mainPc' = mainPc /\ runs' = runs
    BY DEF Goroutine, Sample, AddSample, AdaptiveSampling, FireflyReduction, NextPixel, SendRow
  <1>2. mainPc = "run"
    BY <1>1, PixelOwned
  <1>3. CASE Sample(i)
    BY <1>1, <1>2, <1>3 DEF Sample, TypeOK
  <1>4. CASE AddSample(i)
    BY <1>1, <1>2, <1>4 DEF AddSample, TypeOK, Images
  <1>5. CASE AdaptiveSampling(i)
    BY <1>1, <1>2, <1>5 DEF AdaptiveSampling, TypeOK
  <1>6. CASE FireflyReduction(i)
    BY <1>1, <1>2, <1>6 DEF FireflyReduction, TypeOK
  <1>7. CASE NextPixel(i)
    BY <1>1, <1>2, <1>7 DEF NextPixel, TypeOK
  <1>8. CASE SendRow(i)
    BY <1>1, <1>2, <1>8 DEF SendRow, TypeOK
  <1> QED
    BY <1>3, <1>4, <1>5, <1>6, <1>7, <1>8 DEF Goroutine

\* So only the goroutine itself and its rows are to be looked at.
LEMMA OwnStepSuffices ==
    ASSUME TypeOK, RunInv, BufferInv, NEW i \in CPUs, Goroutine(i),
           goPc'[i] \in {"sample", "store"} => PixelInHand(i)',
           \A r \in Rows, c \in Cols : r % NumCPU = i => PixelRight(r, c)'
    PROVE  BufferInv'
  <1>1. /\ mainPc = "run" /\ mainPc' = "run" /\ runs' = runs
        /\ \A j \in CPUs : j # i =>
              /\ goPc'[j] = goPc[j] /\ y'[j] = y[j] /\ x'[j] = x[j]
              /\ loop'[j] = loop[j] /\ left'[j] = left[j] /\ samples'[j] = samples[j]
        /\ \A r \in Rows : r # y[i] => buffer'[r] = buffer[r]
    BY GoroutineTouches
  <1>2. goPc[i] # "returned" /\ y[i] % NumCPU = i
    <2>1. goPc[i] # "returned"
      BY DEF Goroutine, Sample, AddSample, AdaptiveSampling, FireflyReduction, NextPixel, SendRow
    <2> QED
      BY <2>1, PixelOwned
  <1>3. ASSUME NEW j \in CPUs, j # i, goPc'[j] \in {"sample", "store"}
        PROVE  PixelInHand(j)'
    <2>1. goPc[j] \in {"sample", "store"} /\ y[j] \in Rows /\ y[j] # y[i]
      BY <1>1, <1>2, <1>3, PixelOwned
    <2>2. PixelInHand(j)
      BY <1>1, <2>1 DEF BufferInv
    <2> QED
      BY <1>1, <1>3, <2>1, <2>2 DEF PixelInHand, MostBase
  <1>4. ASSUME NEW r \in Rows, NEW c \in Cols, r % NumCPU # i
        PROVE  PixelRight(r, c)'
    <2>1. r % NumCPU \in CPUs /\ r # y[i]
      BY <1>2, <1>4, RowOwner DEF Rows
    <2>2. PixelRight(r, c)
      BY <1>1 DEF BufferInv
    <2>3. PixelDone(r, c)' = PixelDone(r, c) /\ PixelNow(r, c)' = PixelNow(r, c)
      BY <1>1, <1>4, <2>1 DEF PixelDone, PixelNow
    <2> QED
      BY <1>1, <1>4, <2>1, <2>2, <2>3 DEF PixelRight
  <1> QED
    BY <1>1, <1>3, <1>4 DEF BufferInv

\* The steps at one pixel.
LEMMA AtPixelKeepsBuffer ==
    ASSUME TypeOK, TypeOK', RunInv, BufferInv, NEW i \in CPUs,
           Sample(i) \/ AddSample(i) \/ AdaptiveSampling(i) \/ FireflyReduction(i)
    PROVE  BufferInv'
  <1> DEFINE r == y[i]
             c == x[i]
             v == buffer[r][c]
  <1>1. goPc[i] \in {"sample", "store"} /\ goPc'[i] \in {"sample", "store"}
          /\ UNCHANGED <<y, x, runs>> /\ Goroutine(i)
    BY DEF Sample, AddSample, AdaptiveSampling, FireflyReduction, Goroutine, TypeOK
  <1>2. /\ mainPc = "run" /\ r \in Rows /\ r % NumCPU = i /\ c \in Cols
        /\ v \in Nat /\ left[i] \in Nat /\ runs \in Nat
    BY <1>1, PixelOwned DEF TypeOK
  <1>3. PixelInHand(i)
    BY <1>1, <1>2 DEF BufferInv
  <1>4. /\ MostSamples(runs) \in Nat /\ MostSamples(runs + 1) \in Nat
        /\ MostBase <= MostSamples(runs + 1) /\ MostBase \in Nat
        /\ MostBase >= 2 => MostSamples(runs + 1) = MostBase + Extra
    BY <1>2, MostStep, SamplesNat DEF MostBase
  <1>5. \A q \in Rows, d \in Cols : q # r \/ d # c => buffer'[q][d] = buffer[q][d]
    <2>1. buffer \in [Rows -> [Cols -> Nat]]
      BY DEF TypeOK, Images
    <2>2. buffer' = buffer \/ buffer' = [buffer EXCEPT ![r][c] = samples[i] + 1]
      BY DEF Sample, AddSample, AdaptiveSampling, FireflyReduction
    <2> HIDE DEF r, c
    <2> QED
      BY <1>2, <2>1, <2>2
  <1>6. PixelInHand(i)'
    <2>1. CASE Sample(i)
      <3>1. samples'[i] = v /\ left' = left /\ loop' = loop /\ buffer' = buffer
        BY <2>1 DEF Sample, TypeOK
      <3> QED
        BY <1>1, <1>3, <3>1 DEF PixelInHand, MostBase
    <2>2. CASE AddSample(i)
      <3>1. /\ samples[i] = v /\ left[i] > 0
        BY <1>3, <2>2 DEF AddSample, PixelInHand, TypeOK
      <3>2. buffer'[r][c] = v + 1 /\ left'[i] = left[i] - 1 /\ loop' = loop /\ goPc'[i] = "sample"
        BY <1>2, <2>2, <3>1 DEF AddSample, TypeOK, Images
      <3>3. buffer'[r][c] + left'[i] = v + left[i] /\ buffer'[r][c] >= v
        BY <1>2, <3>1, <3>2
      <3>4. (runs + 1) * BaseSamples \in Int
        BY <1>2, SamplesNat, MostStep
      <3> HIDE DEF v
      <3>5. (loop'[i] # "base") => buffer'[r][c] >= (runs + 1) * BaseSamples
        <4>1. (loop[i] # "base") => v >= (runs + 1) * BaseSamples
          BY <1>3 DEF PixelInHand, v
        <4> QED
          BY <1>2, <3>2, <3>4, <4>1
      <3> QED
        BY <1>1, <1>3, <3>2, <3>3, <3>5 DEF PixelInHand, MostBase, v
    <2>3. CASE AdaptiveSampling(i)
      <3>1. PICK n \in 0 .. (IF MayDeviate(i) THEN AdaptiveSamples ELSE 0) :
                left' = [left EXCEPT ![i] = n]
        BY <2>3 DEF AdaptiveSampling
      <3>2. /\ loop[i] = "base" /\ left[i] = 0 /\ loop'[i] = "adaptive" /\ left'[i] = n
            /\ goPc'[i] = "sample" /\ buffer' = buffer
        BY <2>3, <3>1 DEF AdaptiveSampling, TypeOK
      <3>3. v \in (runs + 1) * BaseSamples .. MostBase
        BY <1>2, <1>3, <3>2 DEF PixelInHand
      <3>4. v + n <= MostBase + (IF MostBase >= 2 THEN AdaptiveSamples ELSE 0)
        <4>1. MayDeviate(i) <=> v >= 2
          BY DEF MayDeviate
        <4> QED
          BY <1>2, <1>4, <3>3, <4>1, SamplesNat
      <3> QED
        BY <1>1, <3>2, <3>3, <3>4 DEF PixelInHand, MostBase
    <2>4. CASE FireflyReduction(i)
      <3>1. PICK n \in {0} \cup (IF MayDeviate(i) THEN {FireflySamples} ELSE {}) :
                left' = [left EXCEPT ![i] = n]
        BY <2>4 DEF FireflyReduction
      <3>2. /\ loop[i] = "adaptive" /\ left[i] = 0 /\ loop'[i] = "firefly" /\ left'[i] = n
            /\ goPc'[i] = "sample" /\ buffer' = buffer
        BY <2>4, <3>1 DEF FireflyReduction, TypeOK
      <3>3. /\ v >= (runs + 1) * BaseSamples
            /\ v <= MostBase + (IF MostBase >= 2 THEN AdaptiveSamples ELSE 0)
        BY <1>2, <1>3, <3>2 DEF PixelInHand
      <3>4. v + n <= MostSamples(runs + 1)
        <4>1. MayDeviate(i) <=> v >= 2
          BY DEF MayDeviate
        <4> QED
          BY <1>2, <1>4, <3>3, <4>1, SamplesNat DEF Extra
      <3> QED
        BY <1>1, <3>2, <3>3, <3>4 DEF PixelInHand
    <2> QED
      BY <2>1, <2>2, <2>3, <2>4
  <1>7. ASSUME NEW q \in Rows, NEW d \in Cols, q % NumCPU = i
        PROVE  PixelRight(q, d)'
    <2>1. PixelDone(q, d)' = PixelDone(q, d)
      BY <1>1, <1>7 DEF PixelDone
    <2>2. PixelNow(q, d)' = PixelNow(q, d)
      BY <1>1, <1>7 DEF PixelNow
    <2>3. PixelRight(q, d)
      BY <1>2 DEF BufferInv
    <2>4. CASE q = r /\ d = c
      <3>1. PixelNow(q, d) /\ ~PixelDone(q, d)
        BY <1>1, <1>2, <2>4, RendererAssumption DEF PixelNow, PixelDone, Rows, Cols
      <3> QED
        BY <2>1, <2>2, <3>1 DEF PixelRight
    <2>5. CASE q # r \/ d # c
      BY <1>1, <1>5, <2>1, <2>2, <2>3, <2>5 DEF PixelRight
    <2> QED
      BY <2>4, <2>5
  <1> QED
    BY <1>1, <1>6, <1>7, OwnStepSuffices

\* The goroutine is through with the pixel, and with the row after its last.
LEMMA NextPixelKeepsBuffer ==
    ASSUME TypeOK, TypeOK', RunInv, BufferInv, NEW i \in CPUs, NextPixel(i)
    PROVE  BufferInv'
  <1> DEFINE r == y[i]
             c == x[i]
             v == buffer[r][c]
  <1>1. /\ goPc[i] = "sample" /\ loop[i] = "firefly" /\ left[i] = 0
        /\ UNCHANGED <<buffer, y, runs>> /\ Goroutine(i)
    BY DEF NextPixel, Goroutine
  <1>2. /\ mainPc = "run" /\ r \in Rows /\ r % NumCPU = i /\ c \in Cols
        /\ v \in Nat /\ runs \in Nat /\ r \in Nat /\ c \in Nat
    BY <1>1, PixelOwned DEF TypeOK
  <1>3. v \in SamplesAfter(runs + 1)
    <2>1. PixelInHand(i)
      BY <1>1, <1>2 DEF BufferInv
    <2>2. v >= (runs + 1) * BaseSamples /\ v + 0 <= MostSamples(runs + 1)
      BY <1>1, <2>1 DEF PixelInHand
    <2>3. (runs + 1) * BaseSamples \in Int /\ MostSamples(runs + 1) \in Int
      BY <1>2, MostStep, SamplesNat
    <2> HIDE DEF v
    <2> QED
      BY <1>2, <2>2, <2>3 DEF SamplesAfter
  <1>4. \A q \in Rows, d \in Cols : q \in Nat /\ d \in Nat /\ PixelRight(q, d)
    BY <1>2, RendererAssumption DEF BufferInv, Rows, Cols
  <1>5. CASE c + 1 \in Cols
    <2>1. /\ x'[i] = c + 1 /\ loop'[i] = "base" /\ left'[i] = BaseSamples
          /\ goPc'[i] = "sample"
      BY <1>1, <1>5 DEF NextPixel, TypeOK
    <2>2. buffer[r][c + 1] \in SamplesAfter(runs)
      <3>1. ~PixelDone(r, c + 1) /\ ~PixelNow(r, c + 1)
        BY <1>1, <1>2 DEF PixelDone, PixelNow
      <3> QED
        BY <1>2, <1>4, <1>5, <3>1 DEF PixelRight
    <2>3. PixelInHand(i)'
      <3>1. /\ (runs + 1) * BaseSamples = runs * BaseSamples + BaseSamples
            /\ runs * BaseSamples \in Nat /\ MostSamples(runs) \in Nat /\ BaseSamples \in Nat
        BY <1>2, MostStep, SamplesNat
      <3>2. buffer[r][c + 1] + BaseSamples \in (runs + 1) * BaseSamples .. MostBase
        BY <2>2, <3>1 DEF SamplesAfter, MostBase
      <3> QED
        BY <1>1, <2>1, <3>2 DEF PixelInHand, MostBase
    <2>4. ASSUME NEW q \in Rows, NEW d \in Cols, q % NumCPU = i
          PROVE  PixelRight(q, d)'
      <3>1. PixelDone(q, d)' <=> (PixelDone(q, d) \/ (q = r /\ d = c))
        BY <1>1, <1>2, <1>4, <2>1, <2>4 DEF PixelDone
      <3>2. ~PixelDone(q, d)' /\ ~PixelNow(q, d)' => ~PixelDone(q, d) /\ ~PixelNow(q, d)
        BY <1>1, <1>2, <2>4, <3>1 DEF PixelNow
      <3> QED
        BY <1>1, <1>3, <1>4, <3>1, <3>2 DEF PixelRight
    <2> QED
      BY <1>1, <2>3, <2>4, OwnStepSuffices
  <1>6. CASE c + 1 \notin Cols
    <2>1. x' = x /\ goPc'[i] = "send"
      BY <1>1, <1>6 DEF NextPixel, TypeOK
    <2>2. \A d \in Cols : d <= c
      BY <1>2, <1>6, RendererAssumption DEF Cols
    <2>3. ASSUME NEW q \in Rows, NEW d \in Cols, q % NumCPU = i
          PROVE  PixelRight(q, d)'
      <3>1. PixelDone(q, d)' <=> (PixelDone(q, d) \/ (q = r /\ d = c))
        BY <1>1, <1>2, <1>4, <2>1, <2>2, <2>3 DEF PixelDone
      <3>2. ~PixelDone(q, d)' => ~PixelDone(q, d) /\ ~PixelNow(q, d)
        BY <1>1, <1>2, <2>3, <3>1 DEF PixelNow
      <3> QED
        BY <1>1, <1>3, <1>4, <3>1, <3>2 DEF PixelRight
    <2> QED
      BY <1>1, <2>1, <2>3, OwnStepSuffices
  <1> QED
    BY <1>5, <1>6

\* The goroutine goes on to a row that nobody has begun.
LEMMA SendRowKeepsBuffer ==
    ASSUME TypeOK, TypeOK', RunInv, BufferInv, NEW i \in CPUs, SendRow(i)
    PROVE  BufferInv'
  <1>1. goPc[i] = "send" /\ UNCHANGED <<buffer, runs>> /\ Goroutine(i)
    BY DEF SendRow, Goroutine
  <1>2. /\ mainPc = "run" /\ y[i] \in Rows /\ y[i] % NumCPU = i /\ y[i] \in Nat
        /\ runs \in Nat /\ NumCPU \in Nat \ {0}
    BY <1>1, PixelOwned, RendererAssumption DEF TypeOK
  <1>3. /\ y'[i] = y[i] + NumCPU /\ x'[i] = 0 /\ loop'[i] = "base" /\ left'[i] = BaseSamples
        /\ goPc'[i] = IF y'[i] < Height THEN "sample" ELSE "returned"
    BY DEF SendRow, TypeOK
  <1>4. \A q \in Rows, d \in Cols : q \in Nat /\ d \in Nat /\ PixelRight(q, d)
    BY <1>2, RendererAssumption DEF BufferInv, Rows, Cols
  <1>5. ASSUME NEW q \in Rows, NEW d \in Cols, q % NumCPU = i
        PROVE  PixelRight(q, d)'
    <2>1. q < y[i] + NumCPU => q <= y[i]
      BY <1>2, <1>4, <1>5, ModInjective
    <2>2. PixelDone(q, d)' <=> PixelDone(q, d)
      BY <1>1, <1>2, <1>3, <1>4, <1>5, <2>1 DEF PixelDone
    <2>3. ~PixelNow(q, d)
      BY <1>1, <1>5 DEF PixelNow
    <2> QED
      BY <1>1, <1>4, <2>2, <2>3 DEF PixelRight
  <1>6. ASSUME goPc'[i] \in {"sample", "store"}
        PROVE  PixelInHand(i)'
    <2>1. y'[i] \in Rows /\ 0 \in Cols /\ goPc'[i] = "sample"
      BY <1>2, <1>3, <1>6, RendererAssumption DEF Rows, Cols
    <2>2. y'[i] % NumCPU = i
      BY <1>2, <1>3, ModStep
    <2>3. ~PixelDone(y'[i], 0) /\ ~PixelNow(y'[i], 0)
      BY <1>1, <1>2, <1>3, <2>2 DEF PixelDone, PixelNow
    <2>4. buffer[y'[i]][0] \in SamplesAfter(runs)
      BY <1>4, <2>1, <2>3 DEF PixelRight
    <2>5. /\ (runs + 1) * BaseSamples = runs * BaseSamples + BaseSamples
          /\ runs * BaseSamples \in Nat /\ MostSamples(runs) \in Nat /\ BaseSamples \in Nat
      BY <1>2, MostStep, SamplesNat
    <2>6. buffer[y'[i]][0] + BaseSamples \in (runs + 1) * BaseSamples .. MostBase
      BY <2>4, <2>5 DEF SamplesAfter, MostBase
    <2> QED
      BY <1>1, <1>3, <2>1, <2>6 DEF PixelInHand, MostBase
  <1> QED
    BY <1>1, <1>5, <1>6, OwnStepSuffices

\* A run begins with every pixel as the last one left it.
LEMMA StartRunKeepsBuffer ==
    ASSUME TypeOK, BufferInv, StartRun
    PROVE  BufferInv'
  <1>1. /\ mainPc' = "run" /\ UNCHANGED <<buffer, runs>> /\ runs \in Nat
        /\ \A i \in CPUs : /\ y'[i] = i /\ x'[i] = 0 /\ loop'[i] = "base"
                           /\ left'[i] = BaseSamples
                           /\ goPc'[i] = IF i < Height THEN "sample" ELSE "returned"
    BY DEF StartRun, TypeOK
  <1>2. \A q \in Rows, d \in Cols : buffer[q][d] \in SamplesAfter(runs)
    BY DEF StartRun, BufferInv, Exposed, SamplesAfter
  <1>3. ASSUME NEW q \in Rows, NEW d \in Cols
        PROVE  PixelRight(q, d)'
    <2>1. q % NumCPU \in CPUs /\ q % NumCPU <= q /\ q \in Nat /\ d \in Nat /\ q % NumCPU \in Nat
      BY RowOwner, RendererAssumption DEF Rows, Cols, CPUs
    <2>2. ~PixelDone(q, d)'
      BY <1>1, <2>1 DEF PixelDone
    <2> QED
      BY <1>1, <1>2, <2>2 DEF PixelRight
  <1>4. ASSUME NEW i \in CPUs, goPc'[i] \in {"sample", "store"}
        PROVE  PixelInHand(i)'
    <2>1. i \in Rows /\ 0 \in Cols /\ goPc'[i] = "sample"
      BY <1>1, <1>4, RendererAssumption DEF CPUs, Rows, Cols
    <2>2. /\ (runs + 1) * BaseSamples = runs * BaseSamples + BaseSamples
          /\ runs * BaseSamples \in Nat /\ MostSamples(runs) \in Nat /\ BaseSamples \in Nat
      BY <1>1, MostStep, SamplesNat
    <2>3. buffer[i][0] + BaseSamples \in (runs + 1) * BaseSamples .. MostBase
      <3>1. buffer[i][0] \in SamplesAfter(runs)
        BY <1>2, <2>1
      <3> QED
        BY <2>2, <3>1 DEF SamplesAfter, MostBase
    <2> QED
      BY <1>1, <2>1, <2>3 DEF PixelInHand, MostBase
  <1> QED
    BY <1>1, <1>3, <1>4 DEF BufferInv

\* run() returns when every pixel is done.
LEMMA EndRunKeepsBuffer ==
    ASSUME TypeOK, RunInv, BufferInv, EndRun
    PROVE  BufferInv'
  <1>1. ch + Height = Cardinality(FinishedRows)
    BY DEF EndRun, RunInv, FinishedRows
  <1>2. FinishedRows = Rows
    BY <1>1, FinishedRowsFinite, RendererAssumption DEF TypeOK
  <1>3. ASSUME NEW q \in Rows, NEW d \in Cols
        PROVE  buffer[q][d] \in SamplesAfter(runs + 1)
    <2>1. Finished(q) /\ q % NumCPU \in CPUs /\ q \in Nat /\ q < Height
      BY <1>2, RowOwner, RendererAssumption DEF FinishedRows, Rows
    <2>2. q < y[q % NumCPU]
      BY <2>1, RendererAssumption DEF Finished, EndRun, RunInv, TypeOK
    <2>3. PixelDone(q, d)
      BY <2>2 DEF PixelDone
    <2> QED
      BY <2>3 DEF EndRun, BufferInv, PixelRight
  <1> QED
    BY <1>3 DEF EndRun, BufferInv, Exposed, SamplesAfter

\* Nobody touches the buffer or the goroutines between runs.
LEMMA BufferKept ==
    ASSUME BufferInv, UNCHANGED <<buffer, runVars, runs>>,
           mainPc' = mainPc \/ (mainPc # "run" /\ mainPc' # "run")
    PROVE  BufferInv'
  BY DEF BufferInv, Exposed, runVars, PixelInHand, MostBase, PixelRight, PixelDone, PixelNow

\* No sample is lost and none is added too many.
LEMMA BufferInvStep ==
    ASSUME TypeOK, TypeOK', RunInv, BufferInv, [Next]_vars
    PROVE  BufferInv'
  <1>1. CASE StartRun
    BY <1>1, StartRunKeepsBuffer
  <1>2. CASE EndRun
    BY <1>2, EndRunKeepsBuffer
  <1>3. CASE \E i \in CPUs : Goroutine(i)
    BY <1>3, AtPixelKeepsBuffer, NextPixelKeepsBuffer, SendRowKeepsBuffer DEF Goroutine
  <1>4. CASE Receive \/ RenderReturns \/ IterationSaved \/ IterativeRenderReturns
             \/ FrameIterates \/ FrameRenderReturns \/ TimedIterates
             \/ TimedRenderReturns \/ ChannelOffers \/ CallerReceives
             \/ WriteImage \/ UNCHANGED vars
    <2>1. UNCHANGED <<buffer, runVars, runs>>
            /\ (mainPc' = mainPc \/ (mainPc # "run" /\ mainPc' # "run"))
      BY <1>4 DEF Receive, RenderReturns, IterationSaved, IterativeRenderReturns,
         FrameIterates, FrameRenderReturns, TimedIterates, TimedRenderReturns,
         ChannelOffers, CallerReceives, Return, WriteImage, CreateFile,
         EncodeFile, SaveFails, vars
    <2> QED
      BY <2>1, BufferKept
  <1> QED
    BY <1>1, <1>2, <1>3, <1>4 DEF Next, Main

\* Every image was taken between runs.
CopiesInv ==
    /\ \A w \in writers : Exposed(w.image, w.iteration)
    /\ \A image \in images : \E n \in 0 .. runs : Exposed(image, n)

\* What was copied stays; what is copied is copied between runs.
LEMMA CopiesInvStep ==
    ASSUME TypeOK, BufferInv, CopiesInv, [Next]_vars
    PROVE  CopiesInv'
  <1>1. CASE RenderReturns \/ IterativeRenderReturns \/ TimedRenderReturns \/ CallerReceives
    <2>1. mainPc # "run" /\ writers' = writers /\ runs' = runs /\ images' = images \cup {buffer}
      BY <1>1 DEF RenderReturns, IterativeRenderReturns, TimedRenderReturns, CallerReceives,
                  Return, fileVars
    <2>2. Exposed(buffer, runs) /\ runs \in 0 .. runs
      BY <2>1 DEF BufferInv, TypeOK
    <2> QED
      BY <2>1, <2>2 DEF CopiesInv, Exposed
  <1>2. CASE IterationSaved \/ FrameRenderReturns
    <2>1. /\ mainPc # "run" /\ runs' = runs /\ images' = images
          /\ writers' = writers \cup {[iteration |-> runs, image |-> buffer, opened |-> FALSE]}
      BY <1>2 DEF IterationSaved, FrameRenderReturns, Save, Return
    <2>2. Exposed(buffer, runs)
      BY <2>1 DEF BufferInv
    <2> QED
      BY <2>1, <2>2 DEF CopiesInv, Exposed
  <1>3. CASE WriteImage
    <2> PICK w \in writers : CreateFile(w) \/ EncodeFile(w) \/ SaveFails(w)
      BY <1>3 DEF WriteImage
    <2>1. /\ runs' = runs /\ images' = images
          /\ writers' \subseteq writers \cup {[w EXCEPT !.opened = TRUE]}
      BY DEF CreateFile, EncodeFile, SaveFails
    <2>2. /\ [w EXCEPT !.opened = TRUE].image = w.image
          /\ [w EXCEPT !.opened = TRUE].iteration = w.iteration
      BY DEF TypeOK
    <2> QED
      BY <2>1, <2>2 DEF CopiesInv, Exposed
  <1>4. CASE \/ StartRun \/ Receive \/ EndRun \/ (\E i \in CPUs : Goroutine(i))
             \/ FrameIterates \/ TimedIterates \/ ChannelOffers \/ UNCHANGED vars
    <2>1. writers' = writers /\ images' = images /\ runs \in Nat /\ runs' \in {runs, runs + 1}
      BY <1>4 DEF StartRun, Receive, EndRun, Goroutine, Sample, AddSample, AdaptiveSampling,
         FireflyReduction, NextPixel, SendRow, FrameIterates, TimedIterates, ChannelOffers,
         vars, fileVars, TypeOK
    <2>2. 0 .. runs \subseteq 0 .. runs'
      BY <2>1
    <2> QED
      BY <2>1, <2>2 DEF CopiesInv, Exposed
  <1> QED
    BY <1>1, <1>2, <1>3, <1>4 DEF Next, Main

\* No run, no sample, no image.
LEMMA ImagesInit == Init => BufferInv /\ CopiesInv
  <1> SUFFICES ASSUME Init PROVE BufferInv /\ CopiesInv
    OBVIOUS
  <1>1. mainPc # "run" /\ runs = 0 /\ buffer = [r \in Rows |-> [c \in Cols |-> 0]]
    BY DEF Init
  <1>2. 0 \in SamplesAfter(0)
    <2>1. 0 * BaseSamples = 0 /\ MostSamples(0) \in Nat
      BY MostStep, SamplesNat
    <2> QED
      BY <2>1 DEF SamplesAfter
  <1>3. Exposed(buffer, runs)
    BY <1>1, <1>2 DEF Exposed, SamplesAfter
  <1> QED
    BY <1>1, <1>3 DEF BufferInv, CopiesInv, Init

\* The samples of the buffer and of its copies.
LEMMA ImagesInvariant == Spec => [](BufferInv /\ CopiesInv)
  <1>1. TypeOK /\ TypeOK' /\ RunInv /\ BufferInv /\ CopiesInv /\ [Next]_vars
          => BufferInv' /\ CopiesInv'
    BY BufferInvStep, CopiesInvStep
  <1> QED
    BY <1>1, ImagesInit, RunInvInvariant, RendererTypeCorrect, PTL DEF Spec

\* Whatever the goroutines do, every image that is copied, saved or returned shows the same
\* number of finished runs in all its pixels.
THEOREM ImagesWholeInvariant == Spec => []ImagesWhole
  <1>1. BufferInv /\ CopiesInv => ImagesWhole
    BY DEF BufferInv, CopiesInv, ImagesWhole
  <1> QED
    BY <1>1, ImagesInvariant, PTL

-----------------------------------------------------------------------------
(***************************************************************************)
(* The files of IterativeRender.                                           *)
(***************************************************************************)
\* Iterations whose image has been handed to writeImage.
Saved == IF mainPc = "ran" THEN runs - 1 ELSE runs

\* File n holds the image of iteration n.
FileWhole(n) == \E image \in Images : files[n] = {image} /\ Exposed(image, n)

\* The WaitGroup counts the goroutines that write, each has an iteration of its own, and an
\* iteration that was saved has its goroutine or its file.
FilesInv ==
    /\ runs <= MaxRuns /\ (mainPc = "run" => runs < MaxRuns)
    /\ operation = "IterativeRender" /\ ~panicked =>
          /\ mainPc = "ran" => runs > 0
          /\ mainPc \in {"wait", "returned"} => runs >= iterations
          /\ mainPc = "returned" => writers = {}
          /\ IsFiniteSet(writers) /\ wg = Cardinality(writers)
          /\ \A w \in writers : w.iteration \in 1 .. Saved
          /\ \A v, w \in writers : v.iteration = w.iteration => v = w
          /\ template =>
                /\ \A w \in writers : w.opened => files[w.iteration] = {}
                /\ \A n \in 1 .. Saved : (\E w \in writers : w.iteration = n) \/ FileWhole(n)
          /\ ~template /\ Saved > 0 => files[0] # {} \/ writers # {}

\* A step that saves nothing.
LEMMA FilesKept ==
    ASSUME FilesInv, UNCHANGED <<callVars, writers, wg, files>>, Saved' = Saved,
           panicked' = panicked, runs' <= MaxRuns, mainPc' = "run" => runs' < MaxRuns,
           mainPc' = "ran" => runs' > 0,
           operation = "IterativeRender" /\ mainPc' \in {"wait", "returned"} => runs' >= iterations,
           operation = "IterativeRender" /\ ~panicked /\ mainPc' = "returned" => writers = {}
    PROVE  FilesInv'
  BY DEF FilesInv, FileWhole, Exposed, callVars

\* A copy of the buffer joins the writers.
LEMMA SaveKeepsFiles ==
    ASSUME TypeOK, FilesInv, Running, IterationSaved
    PROVE  FilesInv'
  <1> DEFINE new == [iteration |-> runs, image |-> buffer, opened |-> FALSE]
  <1>1. /\ mainPc = "ran" /\ operation = "IterativeRender" /\ ~panicked
        /\ writers' = writers \cup {new} /\ wg' = wg + 1
        /\ mainPc' = (IF runs < iterations THEN "call" ELSE "wait")
        /\ UNCHANGED <<runs, files, panicked, callVars>>
    BY DEF IterationSaved, Save, Running
  <1>2. /\ runs \in Nat /\ runs > 0 /\ runs <= MaxRuns /\ iterations \in Nat /\ MaxRuns \in Nat
        /\ IsFiniteSet(writers) /\ wg = Cardinality(writers)
        /\ \A w \in writers : w.iteration \in 1 .. runs - 1
        /\ \A v, w \in writers : v.iteration = w.iteration => v = w
    BY <1>1, RendererAssumption DEF FilesInv, Saved, TypeOK
  <1>3. new \notin writers /\ new.iteration = runs /\ ~new.opened
    <2>1. new.iteration = runs
      OBVIOUS
    <2> HIDE DEF new
    <2>2. new \notin writers
      BY <1>2, <2>1
    <2> QED
      BY <2>1, <2>2 DEF new
  <1>4. Saved' = runs /\ Saved = runs - 1
    BY <1>1 DEF Saved
  <1> HIDE DEF new
  <1>5. IsFiniteSet(writers') /\ wg' = Cardinality(writers')
    BY <1>1, <1>2, <1>3, FS_AddElement
  <1>6. \A w \in writers' : w.iteration \in 1 .. Saved'
    BY <1>1, <1>2, <1>3, <1>4
  <1>7. \A v, w \in writers' : v.iteration = w.iteration => v = w
    BY <1>1, <1>2, <1>3
  <1>8. ASSUME template
        PROVE  /\ \A w \in writers' : w.opened => files'[w.iteration] = {}
               /\ \A n \in 1 .. Saved' : (\E w \in writers' : w.iteration = n) \/ FileWhole(n)'
    <2>1. \A w \in writers' : w.opened => files'[w.iteration] = {}
      BY <1>1, <1>3, <1>8 DEF FilesInv
    <2>2. ASSUME NEW n \in 1 .. runs
          PROVE  (\E w \in writers' : w.iteration = n) \/ FileWhole(n)'
      <3>1. CASE n = runs
        BY <1>1, <1>3, <3>1
      <3>2. CASE n # runs
        <4>1. n \in 1 .. Saved
          BY <1>2, <1>4, <3>2
        <4>2. (\E w \in writers : w.iteration = n) \/ FileWhole(n)
          BY <1>1, <1>8, <4>1 DEF FilesInv
        <4> QED
          BY <1>1, <4>2 DEF FileWhole, Exposed
      <3> QED
        BY <3>1, <3>2
    <2> QED
      BY <1>4, <2>1, <2>2
  <1>9. writers' # {}
    BY <1>1
  <1>10. mainPc' \notin {"ran", "run", "returned"} /\ (mainPc' = "wait" => runs' >= iterations)
    BY <1>1, <1>2
  <1> QED
    BY <1>1, <1>2, <1>5, <1>6, <1>7, <1>8, <1>9, <1>10 DEF FilesInv, callVars

\* os.Create empties the file of the writer's own iteration.
LEMMA CreateKeepsFiles ==
    ASSUME TypeOK, FilesInv, Running, NEW w \in writers, CreateFile(w)
    PROVE  FilesInv'
  <1> DEFINE new == [w EXCEPT !.opened = TRUE]
  <1>1. /\ ~panicked /\ ~w.opened /\ writers' = (writers \ {w}) \cup {new}
        /\ files' = [files EXCEPT ![Path(w.iteration)] = {}]
        /\ UNCHANGED <<mainPc, runs, wg, panicked, callVars>>
    BY DEF CreateFile, Running
  <1>2. new.iteration = w.iteration /\ new.opened
    BY DEF TypeOK
  <1> HIDE DEF new
  <1>3. CASE operation # "IterativeRender"
    BY <1>1, <1>3 DEF FilesInv, callVars
  <1>4. CASE operation = "IterativeRender"
    <2>1. /\ IsFiniteSet(writers) /\ wg = Cardinality(writers)
          /\ \A v \in writers : v.iteration \in 1 .. Saved
          /\ \A u, v \in writers : u.iteration = v.iteration => u = v
          /\ runs <= MaxRuns /\ runs \in Nat /\ MaxRuns \in Nat
          /\ mainPc = "ran" => runs > 0
      BY <1>1, <1>4, RendererAssumption DEF FilesInv, TypeOK
    <2>2. Saved' = Saved /\ Saved \in Nat /\ Saved <= MaxRuns
      BY <1>1, <2>1 DEF Saved
    <2>3. IsFiniteSet(writers') /\ wg' = Cardinality(writers')
      <3>1. new \notin writers \ {w}
        BY <1>2, <2>1
      <3>2. IsFiniteSet(writers \ {w}) /\ Cardinality(writers \ {w}) = Cardinality(writers) - 1
        BY <2>1, FS_RemoveElement
      <3>3. /\ IsFiniteSet((writers \ {w}) \cup {new})
            /\ Cardinality((writers \ {w}) \cup {new}) = Cardinality(writers \ {w}) + 1
        BY <3>1, <3>2, FS_AddElement
      <3>4. Cardinality(writers) \in Nat
        BY <2>1, FS_CardinalityType
      <3> QED
        BY <1>1, <2>1, <3>2, <3>3, <3>4
    <2>4. \A v \in writers' : v.iteration \in 1 .. Saved'
      BY <1>1, <1>2, <2>1, <2>2
    <2>5. \A u, v \in writers' : u.iteration = v.iteration => u = v
      BY <1>1, <1>2, <2>1
    <2>6. ASSUME template
          PROVE  /\ \A v \in writers' : v.opened => files'[v.iteration] = {}
                 /\ \A n \in 1 .. Saved' : (\E v \in writers' : v.iteration = n) \/ FileWhole(n)'
      <3>1. files' = [files EXCEPT ![w.iteration] = {}] /\ w.iteration \in 0 .. MaxRuns
        BY <1>1, <2>1, <2>2, <2>6 DEF Path
      <3>2. ASSUME NEW v \in writers', v.opened
            PROVE  files'[v.iteration] = {}
        <4>1. CASE v = new
          BY <1>2, <3>1, <4>1 DEF TypeOK
        <4>2. CASE v # new
          <5>1. v \in writers /\ v.iteration # w.iteration /\ files[v.iteration] = {}
            BY <1>1, <1>4, <2>1, <2>6, <3>2, <4>2 DEF FilesInv
          <5>2. v.iteration \in 0 .. MaxRuns
            BY <2>1, <2>2, <5>1
          <5> QED
            BY <3>1, <5>1, <5>2 DEF TypeOK
        <4> QED
          BY <4>1, <4>2
      <3>3. ASSUME NEW n \in 1 .. Saved
            PROVE  (\E v \in writers' : v.iteration = n) \/ FileWhole(n)'
        <4>1. CASE n = w.iteration
          BY <1>1, <1>2, <4>1
        <4>2. CASE n # w.iteration
          <5>1. files'[n] = files[n]
            BY <2>2, <3>1, <4>2 DEF TypeOK
          <5>2. (\E v \in writers : v.iteration = n) \/ FileWhole(n)
            BY <1>1, <1>4, <2>6 DEF FilesInv
          <5> QED
            BY <1>1, <4>2, <5>1, <5>2 DEF FileWhole, Exposed
        <4> QED
          BY <4>1, <4>2
      <3> QED
        BY <2>2, <3>2, <3>3
    <2>7. writers' # {} /\ mainPc # "returned"
      BY <1>1, <1>4 DEF FilesInv
    <2>8. mainPc \in {"wait", "returned"} => runs >= iterations
      BY <1>1, <1>4 DEF FilesInv
    <2>9. mainPc = "run" => runs < MaxRuns
      BY DEF FilesInv
    <2> QED
      BY <1>1, <2>1, <2>2, <2>3, <2>4, <2>5, <2>6, <2>7, <2>8, <2>9 DEF FilesInv, callVars
  <1> QED
    BY <1>3, <1>4

\* png.Encode fills it with the image of that iteration, and the goroutine is done.
LEMMA EncodeKeepsFiles ==
    ASSUME TypeOK, CopiesInv, FilesInv, Running, NEW w \in writers, EncodeFile(w)
    PROVE  FilesInv'
  <1>1. /\ ~panicked /\ w.opened /\ writers' = writers \ {w} /\ wg' = wg - 1
        /\ files' = [files EXCEPT ![Path(w.iteration)] = @ \cup {w.image}]
        /\ UNCHANGED <<mainPc, runs, panicked, callVars>>
    BY DEF EncodeFile, Running
  <1>2. CASE operation # "IterativeRender"
    BY <1>1, <1>2 DEF FilesInv, callVars
  <1>3. CASE operation = "IterativeRender"
    <2>1. /\ IsFiniteSet(writers) /\ wg = Cardinality(writers)
          /\ \A v \in writers : v.iteration \in 1 .. Saved
          /\ \A u, v \in writers : u.iteration = v.iteration => u = v
          /\ runs <= MaxRuns /\ runs \in Nat /\ MaxRuns \in Nat
          /\ mainPc = "ran" => runs > 0
      BY <1>1, <1>3, RendererAssumption DEF FilesInv, TypeOK
    <2>2. Saved' = Saved /\ Saved \in Nat /\ Saved <= MaxRuns
      BY <1>1, <2>1 DEF Saved
    <2>3. IsFiniteSet(writers') /\ wg' = Cardinality(writers')
      BY <1>1, <2>1, FS_RemoveElement
    <2>4. ASSUME template
          PROVE  /\ \A v \in writers' : v.opened => files'[v.iteration] = {}
                 /\ \A n \in 1 .. Saved' : (\E v \in writers' : v.iteration = n) \/ FileWhole(n)'
      <3>1. /\ files' = [files EXCEPT ![w.iteration] = files[w.iteration] \cup {w.image}]
            /\ w.iteration \in 0 .. MaxRuns
        BY <1>1, <2>1, <2>2, <2>4 DEF Path
      <3>2. /\ \A v \in writers : v.opened => files[v.iteration] = {}
            /\ \A n \in 1 .. Saved : (\E v \in writers : v.iteration = n) \/ FileWhole(n)
        BY <1>1, <1>3, <2>4 DEF FilesInv
      <3>3. ASSUME NEW v \in writers', v.opened
            PROVE  files'[v.iteration] = {}
        <4>1. v \in writers /\ v.iteration # w.iteration /\ files[v.iteration] = {}
          BY <1>1, <2>1, <3>2, <3>3
        <4>2. v.iteration \in 0 .. MaxRuns
          BY <2>1, <2>2, <4>1
        <4> QED
          BY <3>1, <4>1, <4>2 DEF TypeOK
      <3>4. FileWhole(w.iteration)'
        <4>1. files'[w.iteration] = {w.image}
          BY <1>1, <3>1, <3>2 DEF TypeOK
        <4>2. w.image \in Images /\ Exposed(w.image, w.iteration)
          BY DEF TypeOK, CopiesInv
        <4>3. \E image \in Images : files'[w.iteration] = {image} /\ Exposed(image, w.iteration)
          BY <4>1, <4>2
        <4> QED
          BY <4>3 DEF FileWhole, Exposed
      <3>5. ASSUME NEW n \in 1 .. Saved
            PROVE  (\E v \in writers' : v.iteration = n) \/ FileWhole(n)'
        <4>1. CASE n = w.iteration
          BY <3>4, <4>1 DEF FileWhole, Exposed
        <4>2. CASE n # w.iteration
          <5>1. files'[n] = files[n]
            BY <2>2, <3>1, <4>2 DEF TypeOK
          <5> QED
            BY <1>1, <3>2, <4>2, <5>1 DEF FileWhole, Exposed
        <4> QED
          BY <4>1, <4>2
      <3> QED
        BY <2>2, <3>3, <3>5
    <2>5. ASSUME ~template PROVE files'[0] # {}
      <3>1. files' = [files EXCEPT ![0] = files[0] \cup {w.image}] /\ 0 \in 0 .. MaxRuns
        BY <1>1, <2>1, <2>5 DEF Path
      <3> QED
        BY <3>1 DEF TypeOK
    <2>6. mainPc # "returned"
      BY <1>1, <1>3 DEF FilesInv
    <2> QED
      BY <1>1, <1>3, <2>1, <2>2, <2>3, <2>4, <2>5, <2>6 DEF FilesInv, callVars
  <1> QED
    BY <1>2, <1>3

\* FilesInv is inductive.
LEMMA FilesInvStep ==
    ASSUME TypeOK, CopiesInv, FilesInv, [Next]_vars
    PROVE  FilesInv'
  <1>0. runs \in Nat /\ MaxRuns \in Nat /\ iterations \in Nat
    BY RendererAssumption DEF TypeOK
  <1>1. CASE Running /\ IterationSaved
    BY <1>1, SaveKeepsFiles
  <1>2. CASE Running /\ WriteImage
    <2> PICK w \in writers : CreateFile(w) \/ EncodeFile(w) \/ SaveFails(w)
      BY <1>2 DEF WriteImage
    <2>1. CASE SaveFails(w)
      BY <2>1 DEF FilesInv, SaveFails
    <2> QED
      BY <1>2, <2>1, CreateKeepsFiles, EncodeKeepsFiles
  <1>3. CASE Running /\ (StartRun \/ EndRun)
    <2>1. /\ UNCHANGED <<callVars, writers, wg, files, panicked>> /\ Saved' = Saved
          /\ mainPc' \notin {"wait", "returned"} /\ (mainPc' = "ran" => runs' > 0)
          /\ runs' <= MaxRuns /\ (mainPc' = "run" => runs' < MaxRuns)
      BY <1>0, <1>3 DEF StartRun, EndRun, Running, fileVars, Saved, FilesInv
    <2> QED
      BY <2>1, FilesKept
  <1>4. CASE Running /\ IterativeRenderReturns
    <2>1. /\ UNCHANGED <<callVars, writers, wg, files, panicked, runs>> /\ Saved' = Saved
          /\ mainPc' = "returned" /\ mainPc = "wait" /\ wg = 0 /\ ~panicked
      BY <1>4 DEF IterativeRenderReturns, Return, Running, fileVars, Saved
    <2>2. operation = "IterativeRender" => writers = {}
      BY <2>1, FS_EmptySet DEF FilesInv
    <2> QED
      BY <1>0, <2>1, <2>2, FilesKept DEF FilesInv
  <1>5. CASE \/ Running /\ (Receive \/ CallerReceives)
             \/ (\E i \in CPUs : Running /\ Goroutine(i)) \/ UNCHANGED vars
    <2>1. /\ UNCHANGED <<callVars, writers, wg, files, panicked, runs>>
          /\ mainPc' = mainPc \/ (mainPc = "offer" /\ mainPc' = "call")
      BY <1>5 DEF Receive, CallerReceives, Goroutine, Sample, AddSample, AdaptiveSampling,
         FireflyReduction, NextPixel, SendRow, Running, fileVars, vars
    <2>2. Saved' = Saved
      BY <2>1 DEF Saved
    <2> QED
      BY <2>1, <2>2 DEF FilesInv, FileWhole, Exposed, callVars
  <1>6. CASE Running /\ \/ RenderReturns \/ FrameIterates \/ FrameRenderReturns
                        \/ TimedIterates \/ TimedRenderReturns \/ ChannelOffers
    <2>1. operation # "IterativeRender" /\ runs' = runs /\ mainPc' # "run" /\ UNCHANGED callVars
      BY <1>6 DEF RenderReturns, FrameIterates, FrameRenderReturns, TimedIterates,
         TimedRenderReturns, ChannelOffers, Return, Running
    <2> QED
      BY <2>1 DEF FilesInv, callVars
  <1> QED
    BY <1>1, <1>2, <1>3, <1>4, <1>5, <1>6 DEF Next, Main

\* IterativeRender does not return before its files are written, however the goroutines that
\* write them overlap; with a path per iteration each holds that iteration's image.
THEOREM FilesCompleteInvariant == Spec => []FilesComplete
  <1>1. Init => FilesInv
    <2> SUFFICES ASSUME Init PROVE FilesInv
      OBVIOUS
    <2>1. runs = 0 /\ writers = {} /\ wg = 0 /\ mainPc # "run" /\ mainPc # "returned"
            /\ (operation = "IterativeRender" => mainPc # "ran")
            /\ (operation = "IterativeRender" /\ mainPc = "wait" => iterations = 0)
      BY DEF Init
    <2>2. IsFiniteSet({}) /\ Cardinality({}) = 0
      BY FS_EmptySet
    <2> QED
      BY <2>1, <2>2, RendererAssumption DEF FilesInv, Saved
  <1>2. TypeOK /\ FilesInv => FilesComplete
    <2> SUFFICES ASSUME TypeOK, FilesInv, operation = "IterativeRender", mainPc = "returned",
                        ~panicked, NEW n \in 1 .. iterations
                 PROVE  /\ files[Path(n)] # {}
                        /\ template => \E image \in files[n] :
                                          files[n] = {image} /\ Exposed(image, n)
      BY DEF FilesComplete
    <2>1. n \in 1 .. Saved /\ Saved > 0 /\ writers = {}
      BY RendererAssumption DEF FilesInv, Saved, TypeOK
    <2>2. CASE template
      BY <2>1, <2>2 DEF FilesInv, FileWhole, Path
    <2>3. CASE ~template
      BY <2>1, <2>3 DEF FilesInv, Path
    <2> QED
      BY <2>2, <2>3
  <1>3. Spec => []CopiesInv
    BY ImagesInvariant, PTL
  <1>4. TypeOK /\ CopiesInv /\ FilesInv /\ [Next]_vars => FilesInv'
    BY FilesInvStep
  <1> QED
    BY <1>1, <1>2, <1>3, <1>4, RendererTypeCorrect, PTL DEF Spec
=============================================================================

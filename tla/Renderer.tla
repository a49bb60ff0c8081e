------------------------------- MODULE Renderer -------------------------------
(***************************************************************************)
(* The renderer of the Go path tracer, pt-go/renderer.go: run() spreads    *)
(* the rows of the image over NumCPU goroutines that add samples to one    *)
(* shared buffer; Render, IterativeRender, FrameRender, TimedRender and    *)
(* ChannelRender call run() and save or return what is in the buffer.      *)
(*                                                                         *)
(* A colour is abstracted: a pixel of the buffer is the number of samples  *)
(* it was given, which is what Pixel.Samples counts.  CPUs, rows, columns  *)
(* are numbered from 0, as in the source.                                  *)
(***************************************************************************)
EXTENDS Integers, FiniteSets

CONSTANTS
    NumCPU, Width, Height,
    SamplesPerPixel,
    sppRoot,            \* int(math.Sqrt(float64(SamplesPerPixel)))
    StratifiedSampling, AdaptiveSamples, FireflySamples,
    Operations,         \* the functions that may be called
    Iterations,         \* arguments of IterativeRender and FrameRender
    PathTemplates,      \* does pathTemplate contain a "%"?
    SavesFail,          \* may SavePNG return an error?
    MaxRuns             \* bound: TimedRender and ChannelRender run so often

ASSUME RendererAssumption ==
    /\ NumCPU \in Nat \ {0}
    /\ Width \in Nat \ {0}
    /\ Height \in Nat \ {0}
    /\ SamplesPerPixel \in Nat
    /\ sppRoot \in Nat
    /\ sppRoot * sppRoot <= SamplesPerPixel
    /\ SamplesPerPixel < (sppRoot + 1) * (sppRoot + 1)
    /\ StratifiedSampling \in BOOLEAN
    /\ AdaptiveSamples \in Nat
    /\ FireflySamples \in Nat
    /\ Operations \subseteq {"Render", "IterativeRender", "FrameRender",
                             "TimedRender", "ChannelRender"}
    /\ Iterations \subseteq Nat
    /\ PathTemplates \subseteq BOOLEAN
    /\ SavesFail \in BOOLEAN
    /\ MaxRuns \in Nat \ {0}
    /\ \A n \in Iterations : n <= MaxRuns

CPUs == 0 .. NumCPU - 1
Rows == 0 .. Height - 1
Cols == 0 .. Width - 1

\* Samples every pixel gets in a run; stratified sampling takes a square grid.
BaseSamples == IF StratifiedSampling THEN sppRoot * sppRoot ELSE SamplesPerPixel

VARIABLES
    operation, iterations, template,  \* the call and its arguments
    buffer,    \* buffer[y][x]: Samples of the pixel
    goPc,      \* goPc[i]: "sample", "store", "send" or "returned"
    y, x,      \* y[i], x[i]: the pixel goroutine i is at
    loop,      \* loop[i]: the sampling loop it is in
    left,      \* left[i]: samples this loop has still to take
    samples,   \* samples[i]: p.Samples as AddSample read it
    ch,        \* tokens in the channel
    received,  \* tokens run() has received
    mainPc,    \* where the calling goroutine is, see MainLabels
    runs,      \* runs completed
    writers,   \* goroutines in writeImage, with the copy they write
    wg,        \* the WaitGroup's counter
    files,     \* files[path]: the images that bytes of the file come from
    images,    \* what was returned, or sent to the caller's channel
    panicked

callVars == <<operation, iterations, template>>
runVars == <<goPc, y, x, loop, left, samples>>
chVars == <<ch, received>>
fileVars == <<writers, wg, files>>
vars == <<callVars, buffer, runVars, chVars, mainPc, runs, fileVars, images, panicked>>

GoLabels == {"sample", "store", "send", "returned"}
Loops == {"base", "adaptive", "firefly"}
MainLabels == {"call",      \* about to call run()
               "run",       \* in run(), receiving tokens
               "ran",       \* run() has returned
               "wait",      \* wg.Wait()
               "offer",     \* sending on ChannelRender's channel
               "returned"}

Images == [Rows -> [Cols -> Nat]]
Path(iteration) == IF template THEN iteration ELSE 0

TypeOK ==
    /\ operation \in Operations
    /\ iterations \in Iterations
    /\ template \in PathTemplates
    /\ buffer \in Images
    /\ goPc \in [CPUs -> GoLabels]
    /\ y \in [CPUs -> Nat]
    /\ x \in [CPUs -> Cols]
    /\ loop \in [CPUs -> Loops]
    /\ left \in [CPUs -> Nat]
    /\ samples \in [CPUs -> Nat]
    /\ ch \in 0 .. Height
    /\ received \in 0 .. Height
    /\ mainPc \in MainLabels
    /\ runs \in Nat
    /\ writers \subseteq [iteration : Nat, image : Images, opened : BOOLEAN]
    /\ wg \in Int
    /\ files \in [0 .. MaxRuns -> SUBSET Images]
    /\ images \subseteq Images
    /\ panicked \in BOOLEAN
    /\ \A i \in CPUs : goPc[i] # "returned" => y[i] \in Rows
    /\ \A i \in CPUs : goPc[i] = "store" => left[i] > 0

\* NewRenderer, and a function is called.  A call that asks for no iteration
\* does not run.
Init ==
    /\ operation \in Operations
    /\ iterations \in Iterations
    /\ template \in PathTemplates
    /\ buffer = [r \in Rows |-> [c \in Cols |-> 0]]
    /\ goPc = [i \in CPUs |-> "returned"]
    /\ y = [i \in CPUs |-> i]
    /\ x = [i \in CPUs |-> 0]
    /\ loop = [i \in CPUs |-> "base"]
    /\ left = [i \in CPUs |-> 0]
    /\ samples = [i \in CPUs |-> 0]
    /\ ch = 0
    /\ received = 0
    /\ mainPc = CASE operation = "IterativeRender" /\ iterations = 0 -> "wait"
                  [] operation = "FrameRender" /\ iterations = 0 -> "ran"
                  [] OTHER -> "call"
    /\ runs = 0
    /\ writers = {}
    /\ wg = 0
    /\ files = [p \in 0 .. MaxRuns |-> {}]
    /\ images = {}
    /\ panicked = FALSE

-----------------------------------------------------------------------------
(***************************************************************************)
(* run(): a channel for Height tokens, and the goroutines.  Those of an    *)
(* earlier run have returned by then: see SnapshotQuiescent.               *)
(***************************************************************************)
\* Mutant: goroutines are numbered from 1.
StartRunFromOne ==
    /\ mainPc = "call"
    /\ runs < MaxRuns
    /\ mainPc' = "run"
    /\ ch' = 0
    /\ received' = 0
    /\ y' = [i \in CPUs |-> i]
    /\ goPc' = [i \in CPUs |-> IF 0 < i /\ i < Height THEN "sample" ELSE "returned"]
    /\ x' = [i \in CPUs |-> 0]
    /\ loop' = [i \in CPUs |-> "base"]
    /\ left' = [i \in CPUs |-> BaseSamples]
    /\ UNCHANGED <<buffer, samples, runs, fileVars, images, panicked>>

StartRun ==
    /\ mainPc = "call"
    /\ runs < MaxRuns
    /\ mainPc' = "run"
    /\ ch' = 0
    /\ received' = 0
    /\ y' = [i \in CPUs |-> i]
    /\ goPc' = [i \in CPUs |-> IF i < Height THEN "sample" ELSE "returned"]
    /\ x' = [i \in CPUs |-> 0]
    /\ loop' = [i \in CPUs |-> "base"]
    /\ left' = [i \in CPUs |-> BaseSamples]
    /\ UNCHANGED <<buffer, samples, runs, fileVars, images, panicked>>

Receive ==
    /\ mainPc = "run"
    /\ received < Height
    /\ ch > 0
    /\ ch' = ch - 1
    /\ received' = received + 1
    /\ UNCHANGED <<buffer, runVars, mainPc, runs, fileVars, images, panicked>>

\* Mutant: run() returns one token early.
EndRunEarly ==
    /\ mainPc = "run"
    /\ received = Height - 1
    /\ mainPc' = "ran"
    /\ runs' = runs + 1
    /\ UNCHANGED <<buffer, runVars, chVars, fileVars, images, panicked>>

EndRun ==
    /\ mainPc = "run"
    /\ received = Height
    /\ mainPc' = "ran"
    /\ runs' = runs + 1
    /\ UNCHANGED <<buffer, runVars, chVars, fileVars, images, panicked>>

(***************************************************************************)
(* Goroutine i.  AddSample reads and then writes the pixel.                *)
(***************************************************************************)
Sample(i) ==
    /\ goPc[i] = "sample"
    /\ left[i] > 0
    /\ samples' = [samples EXCEPT ![i] = buffer[y[i]][x[i]]]
    /\ goPc' = [goPc EXCEPT ![i] = "store"]
    /\ UNCHANGED <<buffer, y, x, loop, left, chVars, mainPc, runs, fileVars,
                   images, panicked>>

AddSample(i) ==
    /\ goPc[i] = "store"
    /\ buffer' = [buffer EXCEPT ![y[i]][x[i]] = samples[i] + 1]
    /\ left' = [left EXCEPT ![i] = @ - 1]
    /\ goPc' = [goPc EXCEPT ![i] = "sample"]
    /\ UNCHANGED <<y, x, loop, samples, chVars, mainPc, runs, fileVars, images,
                   panicked>>

\* Mutant: the variance of a single sample.
MayDeviateAtOnce(i) == buffer[y[i]][x[i]] >= 1

\* A pixel with fewer than two samples has no variance.
MayDeviate(i) == buffer[y[i]][x[i]] >= 2

\* The adaptive loop takes up to AdaptiveSamples, by the standard deviation.
AdaptiveSampling(i) ==
    /\ goPc[i] = "sample" /\ loop[i] = "base" /\ left[i] = 0
    /\ loop' = [loop EXCEPT ![i] = "adaptive"]
    /\ \E n \in 0 .. (IF MayDeviate(i) THEN AdaptiveSamples ELSE 0) :
          left' = [left EXCEPT ![i] = n]
    /\ UNCHANGED <<buffer, goPc, y, x, samples, chVars, mainPc, runs, fileVars,
                   images, panicked>>

\* FireflyThreshold is not negative.
FireflyReduction(i) ==
    /\ goPc[i] = "sample" /\ loop[i] = "adaptive" /\ left[i] = 0
    /\ loop' = [loop EXCEPT ![i] = "firefly"]
    /\ \E n \in {0} \cup (IF MayDeviate(i) THEN {FireflySamples} ELSE {}) :
          left' = [left EXCEPT ![i] = n]
    /\ UNCHANGED <<buffer, goPc, y, x, samples, chVars, mainPc, runs, fileVars,
                   images, panicked>>

NextPixel(i) ==
    /\ goPc[i] = "sample" /\ loop[i] = "firefly" /\ left[i] = 0
    /\ \/ /\ x[i] + 1 \in Cols
          /\ x' = [x EXCEPT ![i] = @ + 1]
          /\ loop' = [loop EXCEPT ![i] = "base"]
          /\ left' = [left EXCEPT ![i] = BaseSamples]
          /\ UNCHANGED goPc
       \/ /\ x[i] + 1 \notin Cols
          /\ goPc' = [goPc EXCEPT ![i] = "send"]
          /\ UNCHANGED <<x, loop, left>>
    /\ UNCHANGED <<buffer, y, samples, chVars, mainPc, runs, fileVars, images,
                   panicked>>

\* Mutant: the row after the last.
SendRowBeyond(i) ==
    /\ goPc[i] = "send"
    /\ ch < Height
    /\ ch' = ch + 1
    /\ y' = [y EXCEPT ![i] = @ + NumCPU]
    /\ goPc' = [goPc EXCEPT ![i] = IF y'[i] <= Height THEN "sample" ELSE "returned"]
    /\ x' = [x EXCEPT ![i] = 0]
    /\ loop' = [loop EXCEPT ![i] = "base"]
    /\ left' = [left EXCEPT ![i] = BaseSamples]
    /\ UNCHANGED <<buffer, samples, received, mainPc, runs, fileVars, images,
                   panicked>>

\* Mutant: rows are not striped.
SendRowUnstriped(i) ==
    /\ goPc[i] = "send"
    /\ ch < Height
    /\ ch' = ch + 1
    /\ y' = [y EXCEPT ![i] = @ + 1]
    /\ goPc' = [goPc EXCEPT ![i] = IF y'[i] < Height THEN "sample" ELSE "returned"]
    /\ x' = [x EXCEPT ![i] = 0]
    /\ loop' = [loop EXCEPT ![i] = "base"]
    /\ left' = [left EXCEPT ![i] = BaseSamples]
    /\ UNCHANGED <<buffer, samples, received, mainPc, runs, fileVars, images,
                   panicked>>

\* Mutant: no token for a goroutine's last row.
SendRowSilent(i) ==
    /\ goPc[i] = "send"
    /\ ch < Height
    /\ y' = [y EXCEPT ![i] = @ + NumCPU]
    /\ ch' = IF y'[i] < Height THEN ch + 1 ELSE ch
    /\ goPc' = [goPc EXCEPT ![i] = IF y'[i] < Height THEN "sample" ELSE "returned"]
    /\ x' = [x EXCEPT ![i] = 0]
    /\ loop' = [loop EXCEPT ![i] = "base"]
    /\ left' = [left EXCEPT ![i] = BaseSamples]
    /\ UNCHANGED <<buffer, samples, received, mainPc, runs, fileVars, images,
                   panicked>>

\* The row is finished; the goroutine's next row is NumCPU further down.
SendRow(i) ==
    /\ goPc[i] = "send"
    /\ ch < Height
    /\ ch' = ch + 1
    /\ y' = [y EXCEPT ![i] = @ + NumCPU]
    /\ goPc' = [goPc EXCEPT ![i] = IF y'[i] < Height THEN "sample" ELSE "returned"]
    /\ x' = [x EXCEPT ![i] = 0]
    /\ loop' = [loop EXCEPT ![i] = "base"]
    /\ left' = [left EXCEPT ![i] = BaseSamples]
    /\ UNCHANGED <<buffer, samples, received, mainPc, runs, fileVars, images,
                   panicked>>

Goroutine(i) ==
    \/ Sample(i) \/ AddSample(i) \/ AdaptiveSampling(i) \/ FireflyReduction(i)
    \/ NextPixel(i) \/ SendRow(i)

-----------------------------------------------------------------------------
(***************************************************************************)
(* The functions that call run().                                          *)
(***************************************************************************)
\* Return the image of the buffer, or nothing for FrameRender.
Return(result) ==
    /\ mainPc' = "returned"
    /\ images' = images \cup result

\* Mutant: the deviation image is counted, as in the lines commented out, and
\* not written.
SaveCountsTwo ==
    /\ writers' = writers \cup {[iteration |-> runs, image |-> buffer,
                                 opened |-> FALSE]}
    /\ wg' = wg + 2

\* Buffer.Copy reads every pixel; SnapshotQuiescent says that nobody writes.
Save ==
    /\ writers' = writers \cup {[iteration |-> runs, image |-> buffer,
                                 opened |-> FALSE]}
    /\ wg' = wg + 1

RenderReturns ==
    /\ mainPc = "ran" /\ operation = "Render"
    /\ Return({buffer})
    /\ UNCHANGED <<buffer, runVars, chVars, runs, fileVars, panicked>>

IterationSaved ==
    /\ mainPc = "ran" /\ operation = "IterativeRender"
    /\ Save
    /\ mainPc' = IF runs < iterations THEN "call" ELSE "wait"
    /\ UNCHANGED <<buffer, runVars, chVars, runs, files, images, panicked>>

\* Mutant: IterativeRender does not wait.
IterativeRenderHurries ==
    /\ mainPc = "wait"
    /\ Return({buffer})
    /\ UNCHANGED <<buffer, runVars, chVars, runs, fileVars, panicked>>

IterativeRenderReturns ==
    /\ mainPc = "wait"
    /\ wg = 0
    /\ Return({buffer})
    /\ UNCHANGED <<buffer, runVars, chVars, runs, fileVars, panicked>>

FrameIterates ==
    /\ mainPc = "ran" /\ operation = "FrameRender"
    /\ runs < iterations
    /\ mainPc' = "call"
    /\ UNCHANGED <<buffer, runVars, chVars, runs, fileVars, images, panicked>>

FrameRenderReturns ==
    /\ mainPc = "ran" /\ operation = "FrameRender"
    /\ runs >= iterations
    /\ Save
    /\ Return({})
    /\ UNCHANGED <<buffer, runVars, chVars, runs, files, panicked>>

\* The clock decides.
TimedIterates ==
    /\ mainPc = "ran" /\ operation = "TimedRender"
    /\ runs < MaxRuns
    /\ mainPc' = "call"
    /\ UNCHANGED <<buffer, runVars, chVars, runs, fileVars, images, panicked>>

TimedRenderReturns ==
    /\ mainPc = "ran" /\ operation = "TimedRender"
    /\ Return({buffer})
    /\ UNCHANGED <<buffer, runVars, chVars, runs, fileVars, panicked>>

\* The channel of ChannelRender has no buffer: the image made when run()
\* returned is handed over when the caller receives it.
ChannelOffers ==
    /\ mainPc = "ran" /\ operation = "ChannelRender"
    /\ mainPc' = "offer"
    /\ UNCHANGED <<buffer, runVars, chVars, runs, fileVars, images, panicked>>

CallerReceives ==
    /\ mainPc = "offer"
    /\ images' = images \cup {buffer}
    /\ mainPc' = "call"
    /\ UNCHANGED <<buffer, runVars, chVars, runs, fileVars, panicked>>

Main ==
    \/ StartRun \/ Receive \/ EndRun
    \/ RenderReturns \/ IterationSaved \/ IterativeRenderReturns
    \/ FrameIterates \/ FrameRenderReturns
    \/ TimedIterates \/ TimedRenderReturns \/ ChannelOffers

(***************************************************************************)
(* writeImage: os.Create empties the file, png.Encode fills it.  An error  *)
(* panics, which ends the program.                                         *)
(***************************************************************************)
CreateFile(w) ==
    /\ ~w.opened
    /\ files' = [files EXCEPT ![Path(w.iteration)] = {}]
    /\ writers' = (writers \ {w}) \cup {[w EXCEPT !.opened = TRUE]}
    /\ UNCHANGED <<buffer, runVars, chVars, mainPc, runs, wg, images, panicked>>

EncodeFile(w) ==
    /\ w.opened
    /\ files' = [files EXCEPT ![Path(w.iteration)] = @ \cup {w.image}]
    /\ writers' = writers \ {w}
    /\ wg' = wg - 1
    /\ UNCHANGED <<buffer, runVars, chVars, mainPc, runs, images, panicked>>

SaveFails(w) ==
    /\ SavesFail
    /\ panicked' = TRUE
    /\ writers' = writers \ {w}
    /\ wg' = wg - 1
    /\ UNCHANGED <<buffer, runVars, chVars, mainPc, runs, files, images>>

WriteImage == \E w \in writers : CreateFile(w) \/ EncodeFile(w) \/ SaveFails(w)

Running == ~panicked /\ UNCHANGED callVars

Next ==
    \/ Running /\ Main
    \/ Running /\ CallerReceives
    \/ \E i \in CPUs : Running /\ Goroutine(i)
    \/ Running /\ WriteImage

Spec == Init /\ [][Next]_vars

\* Go schedules every goroutine; the caller of ChannelRender may stop receiving.
Fairness ==
    /\ WF_vars(Running /\ Main)
    /\ \A i \in CPUs : WF_vars(Running /\ Goroutine(i))
    /\ WF_vars(Running /\ WriteImage)

FairSpec == Spec /\ Fairness

-----------------------------------------------------------------------------
\* No two goroutines are ever in one row, so AddSample's read and write of a
\* pixel are not interleaved with another goroutine's, without a lock.
RowsExclusive ==
    \A i, j \in CPUs :
        i # j /\ goPc[i] # "returned" /\ goPc[j] # "returned" => y[i] # y[j]

\* Row r is the work of goroutine r % NumCPU.
Finished(r) ==
    LET i == r % NumCPU IN goPc[i] = "returned" \/ r < y[i]

\* An inductive invariant: a goroutine stays in its own rows, runs only while
\* run() receives, returns only below the last row, and every row that is
\* finished has its token, in the channel or received.
RunInv ==
    /\ \A i \in CPUs : y[i] % NumCPU = i
    /\ mainPc # "run" => ch = 0 /\ \A i \in CPUs : goPc[i] = "returned"
    /\ mainPc = "run" =>
          /\ \A i \in CPUs : goPc[i] = "returned" => y[i] >= Height
          /\ ch + received = Cardinality({r \in Rows : Finished(r)})

\* The channel has room for every row of a run: no goroutine waits for run()
\* to receive.
SendNeverBlocks == \A i \in CPUs : goPc[i] = "send" => ch < Height

\* When run() has returned every goroutine it started has added its last
\* sample: Buffer.Copy and Buffer.Image read a buffer nobody writes.
SnapshotQuiescent ==
    mainPc # "run" => ch = 0 /\ \A i \in CPUs : goPc[i] = "returned"

\* Samples of a pixel after n runs.  No sample is lost, and none is added on
\* account of a variance before there are two samples to have one.
Extra == AdaptiveSamples + FireflySamples
MostSamples(n) ==
    CASE BaseSamples = 0 \/ n = 0 -> 0
      [] BaseSamples = 1 /\ n > 0 -> n + (n - 1) * Extra
      [] OTHER -> n * (BaseSamples + Extra)
Exposed(image, n) ==
    \A r \in Rows, c \in Cols : image[r][c] \in n * BaseSamples .. MostSamples(n)

\* Between runs, in every copy that waits to be written and in every image the
\* caller got, every pixel has been through the same number of runs.
ImagesWhole ==
    /\ mainPc # "run" => Exposed(buffer, runs)
    /\ \A w \in writers : Exposed(w.image, w.iteration)
    /\ \A image \in images : \E n \in 0 .. runs : Exposed(image, n)

\* When IterativeRender returns each of its files is there, and with a path
\* per iteration holds the image of that iteration and no other.
FilesComplete ==
    (operation = "IterativeRender" /\ mainPc = "returned" /\ ~panicked) =>
        \A n \in 1 .. iterations :
            /\ files[Path(n)] # {}
            /\ template =>
                  \E image \in files[n] :
                      files[n] = {image} /\ Exposed(image, n)

\* run() returns, whatever the number of goroutines and rows.
RunReturns == mainPc = "run" ~> (mainPc # "run" \/ panicked)

\* A call for a number of iterations returns and its files are written.
CallCompletes ==
    operation \in {"Render", "IterativeRender", "FrameRender"}
        ~> (panicked \/ (mainPc = "returned" /\ writers = {}))

\* What the goroutines of run() promise together is what the workers of the
\* page promise: every run finishes every row once, and only then is over.
\* A row has been finished in every run that was begun, but perhaps the last.
Begun == runs + (IF mainPc = "run" THEN 1 ELSE 0)

Render == INSTANCE ProgressiveRender WITH
    Buckets <- Rows,
    rounds  <- [r \in Rows |-> IF Finished(r) THEN Begun ELSE Begun - 1],
    pending <- {r \in Rows : ~Finished(r)}

RowsInRounds == Render!RenderSpec
=============================================================================

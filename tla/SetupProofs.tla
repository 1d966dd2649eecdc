---------------------------- MODULE SetupProofs ----------------------------
(***************************************************************************)
(* What is proved of Setup, for any numbers of setups, bundles and files.  *)
(***************************************************************************)
EXTENDS Setup, TLAPS

\* What is open for writing exists.
OpenInv ==
  \A s \in Setups :
    /\ pc[s] = "fetch" => None \notin bundler.of
    /\ pc[s] = "write" => None \notin file[dest[s]].of

\* A setup that has met nobody works alone: what it has unpacked is whole,
\* and what it writes has nobody else's bytes.
AloneInv ==
  \A s \in Active :
    met[s] = {} =>
      /\ Active = {s}
      /\ pc[s] \in Unpacking => \A f \in Files \ todo[s] : file[f] = Whole(bundle[s])
      /\ pc[s] = "open" => file[dest[s]] # Whole(bundle[s])
      /\ pc[s] = "write" => file[dest[s]].of \subseteq {bundle[s]}

\* While all bundlers that unpack or have unpacked are of bundle b.
AllOf(b) == \A s \in Setups : pc[s] # "failed" /\ (pc[s] \in Unpacking \cup {"done"} => bundle[s] = b)

Handled(f) == \E s \in Setups : pc[s] \in Unpacking \cup {"done"} /\ f \in Files \ todo[s]

BeingWritten(f) == \E s \in Setups : pc[s] = "write" /\ dest[s] = f

\* Then a file that one of them has unpacked is whole or about to be again.
OverlapInv ==
  \A b \in Bundles :
    AllOf(b) =>
      \A f \in Files :
        /\ BeingWritten(f) => file[f].of \subseteq {b}
        /\ Handled(f) => file[f] = Whole(b) \/ BeingWritten(f)

SetupInv ==
  /\ TypeOK
  /\ OpenInv
  /\ AloneInv
  /\ OverlapInv
  /\ \A s \in Setups : pc[s] = "done" => todo[s] = {}

(***************************************************************************)
(* The contents of files.                                                  *)
(***************************************************************************)
LEMMA ContentFacts ==
  /\ Absent \in Content /\ Absent.of = {None} /\ Absent.whole = FALSE
  /\ Torn({}) \in Content /\ Torn({}).of = {} /\ Torn({}).whole = FALSE
  /\ \A b \in Bundles :
       /\ Whole(b) \in Content /\ Whole(b).of = {b} /\ Whole(b).whole = TRUE
       /\ None \notin Whole(b).of
       /\ \A c \in Bundles : Whole(b) = Whole(c) => b = c
  /\ \A content \in Content : None \notin content.of => content.of \subseteq Bundles
<1>1. Absent \in Content /\ Absent.of = {None} /\ Absent.whole = FALSE
  BY DEF Content, Absent, Torn
<1>2. Torn({}) \in Content /\ Torn({}).of = {} /\ Torn({}).whole = FALSE
  BY DEF Content, Torn
<1>3. ASSUME NEW b \in Bundles
      PROVE  /\ Whole(b) \in Content /\ Whole(b).of = {b} /\ Whole(b).whole = TRUE
             /\ None \notin Whole(b).of
  BY SetupAssumption DEF Content, Whole
<1>4. ASSUME NEW b \in Bundles, NEW c \in Bundles, Whole(b) = Whole(c) PROVE b = c
  BY <1>3, <1>4
<1>5. ASSUME NEW content \in Content, None \notin content.of PROVE content.of \subseteq Bundles
  BY <1>5 DEF Content, Absent, Torn, Whole
<1> QED BY <1>1, <1>2, <1>3, <1>4, <1>5

LEMMA WrittenFacts ==
  ASSUME NEW content \in Content, None \notin content.of, NEW b \in Bundles,
         NEW new \in Written(content, b)
  PROVE  /\ new \in Content
         /\ None \notin new.of
         /\ content.of \subseteq {b} => new = Whole(b)
<1>1. content.of \subseteq Bundles
  BY ContentFacts
<1>2. new = Whole(b) \/ (~(content.of \subseteq {b}) /\ new = Torn(content.of \cup {b}))
  BY DEF Written
<1>3. CASE new = Whole(b)
  BY <1>3, ContentFacts
<1>4. CASE ~(content.of \subseteq {b}) /\ new = Torn(content.of \cup {b})
  BY <1>1, <1>4, SetupAssumption DEF Content, Torn
<1> QED BY <1>2, <1>3, <1>4

LEMMA HalfWrittenFacts ==
  ASSUME NEW content \in Content, None \notin content.of, NEW b \in Bundles
  PROVE  /\ HalfWritten(content, b) \in Content
         /\ None \notin HalfWritten(content, b).of
         /\ content.of \subseteq {b} => HalfWritten(content, b).of \subseteq {b}
         /\ content = Whole(b) => HalfWritten(content, b) = Whole(b)
<1>1. content.of \subseteq Bundles
  BY ContentFacts
<1>2. CASE content = Whole(b)
  BY <1>2, ContentFacts DEF HalfWritten
<1>3. CASE content # Whole(b)
  BY <1>1, <1>3, SetupAssumption DEF Content, Torn, HalfWritten
<1> QED BY <1>2, <1>3

(***************************************************************************)
(* The invariant.                                                          *)
(***************************************************************************)
LEMMA SetupInit == Init => SetupInv
<1> SUFFICES ASSUME Init PROVE SetupInv
  OBVIOUS
<1>1. TypeOK
  BY ContentFacts DEF Init, TypeOK, Unpacking
<1>2. Active = {}
  BY DEF Init, Active, Working, Fetching, Unpacking
<1>3. OpenInv /\ OverlapInv /\ \A s \in Setups : pc[s] # "done"
  BY DEF Init, OpenInv, OverlapInv, Handled, BeingWritten, Unpacking
<1> QED BY <1>1, <1>2, <1>3 DEF SetupInv, AloneInv

\* A setup that begins is met by all that are at work.
LEMMA BeginStep ==
  ASSUME SetupInv, NEW s \in Setups, Begin(s)
  PROVE  SetupInv'
<1> USE DEF SetupInv, Begin, Goto
<1>1. TypeOK'
  BY DEF TypeOK, Working, Fetching, Unpacking, Active
<1>2. OpenInv'
  BY DEF TypeOK, OpenInv
<1>3. Active' = Active \cup {s} /\ s \notin Active
  BY DEF TypeOK, Active, Working, Fetching, Unpacking
<1>4. AloneInv'
  <2> SUFFICES ASSUME NEW t \in Active', met'[t] = {}
               PROVE  /\ Active' = {t}
                      /\ pc'[t] \notin Unpacking
    BY DEF AloneInv, Unpacking
  <2>1. t = s /\ Active = {}
    BY <1>3 DEF TypeOK, Active
  <2> QED BY <2>1, <1>3 DEF TypeOK, Unpacking
<1>5. OverlapInv'
  BY DEF TypeOK, OverlapInv, AllOf, Handled, BeingWritten, Unpacking
<1>6. (\A t \in Setups : pc[t] = "done" => todo[t] = {})'
  BY DEF TypeOK
<1> QED BY <1>1, <1>2, <1>4, <1>5, <1>6

\* Up to the launch, the unpacked files are nobody's business.
LEMMA CommandStep ==
  ASSUME SetupInv, NEW s \in Setups,
         GetLatestBundle(s) \/ BundleExists(s) \/ DownloadOpen(s) \/ Download(s) \/ Launch(s)
  PROVE  SetupInv'
<1> USE DEF SetupInv, Goto
<1>1. TypeOK' /\ OpenInv'
  <2>1. CASE GetLatestBundle(s) \/ BundleExists(s)
    BY <2>1 DEF GetLatestBundle, BundleExists, TypeOK, OpenInv, Working, Fetching, Unpacking
  <2>2. CASE DownloadOpen(s)
    <3>1. bundler' \in Content /\ (pc'[s] = "fetch" => None \notin bundler'.of)
      BY <2>2, ContentFacts, SetupAssumption DEF DownloadOpen, TypeOK, Content, Absent, Torn, Whole
    <3>2. None \notin bundler.of => None \notin bundler'.of
      BY <2>2, ContentFacts DEF DownloadOpen
    <3> QED BY <2>2, <3>1, <3>2, SetupAssumption DEF DownloadOpen, TypeOK, OpenInv, Working, Fetching, Unpacking
  <2>3. CASE Download(s)
    <3>1. None \notin bundler.of /\ bundle[s] \in Bundles
      BY <2>3 DEF Download, OpenInv, TypeOK
    <3>2. bundler' \in Content /\ None \notin bundler'.of
      BY <2>3, <3>1, WrittenFacts, HalfWrittenFacts DEF Download, TypeOK
    <3> QED BY <2>3, <3>2 DEF Download, TypeOK, OpenInv, Working, Fetching, Unpacking
  <2>4. CASE Launch(s)
    BY <2>4, SetupAssumption DEF Launch, TypeOK, OpenInv, Working, Fetching, Unpacking
  <2> QED BY <2>1, <2>2, <2>3, <2>4
<1>2. /\ file' = file /\ met' = met /\ dest' = dest
      /\ pc[s] \in Working \ Unpacking
      /\ \A t \in Setups \ {s} : pc'[t] = pc[t] /\ bundle'[t] = bundle[t] /\ todo'[t] = todo[t]
      /\ pc'[s] \in Working \cup {"failed"}
      /\ pc'[s] \in Unpacking => pc'[s] = "unbundle" /\ todo'[s] = Files
  BY DEF TypeOK, GetLatestBundle, BundleExists, DownloadOpen, Download, Launch, Working, Fetching, Unpacking
<1>3. AloneInv'
  <2>1. Active' \subseteq Active /\ s \in Active
    BY <1>2 DEF Active
  <2> SUFFICES ASSUME NEW t \in Active', met[t] = {}
               PROVE  /\ Active' = {t}
                      /\ pc'[t] \in Unpacking => \A f \in Files \ todo'[t] : file[f] = Whole(bundle'[t])
                      /\ pc'[t] = "open" => file[dest[t]] # Whole(bundle'[t])
                      /\ pc'[t] = "write" => file[dest[t]].of \subseteq {bundle'[t]}
    BY <1>2 DEF AloneInv
  <2>2. t = s /\ Active' = {t}
    BY <2>1 DEF AloneInv
  <2> QED BY <1>2, <2>2 DEF Unpacking
<1>4. OverlapInv'
  <2> SUFFICES ASSUME NEW b \in Bundles, AllOf(b)', NEW f \in Files
               PROVE  /\ BeingWritten(f)' => file[f].of \subseteq {b}
                      /\ Handled(f)' => file[f] = Whole(b) \/ BeingWritten(f)'
    BY <1>2 DEF OverlapInv
  <2>1. AllOf(b)
    BY <1>2 DEF AllOf, Working, Fetching, Unpacking
  <2>2. BeingWritten(f)' <=> BeingWritten(f)
    BY <1>2 DEF BeingWritten, Unpacking
  <2>3. Handled(f)' => Handled(f)
    BY <1>2 DEF Handled, Working, Fetching, Unpacking
  <2> QED BY <2>1, <2>2, <2>3 DEF OverlapInv
<1>5. (\A t \in Setups : pc[t] = "done" => todo[t] = {})'
  BY <1>2 DEF Working, Fetching, Unpacking
<1> QED BY <1>1, <1>3, <1>4, <1>5

\* A file whose checksum is right is unpacked; another one is written.
LEMMA WriteFileStep ==
  ASSUME SetupInv, NEW s \in Setups, NEW f \in Files, WriteFile(s, f)
  PROVE  SetupInv'
<1> USE DEF SetupInv, WriteFile, Matches, Goto, Unpacked
<1>1. f \in todo[s] /\ pc[s] = "unbundle" /\ pc'[s] \in {"unbundle", "open"}
  BY DEF NextFiles, TypeOK
<1>2. TypeOK' /\ OpenInv'
  BY <1>1 DEF TypeOK, OpenInv, Working, Fetching, Unpacking
<1>3. Active' = Active /\ s \in Active
  BY <1>1 DEF Active, TypeOK, Working, Fetching, Unpacking
<1>4. AloneInv'
  BY <1>1, <1>3 DEF AloneInv, TypeOK, Active, Unpacking
<1>5. OverlapInv'
  <2> SUFFICES ASSUME NEW b \in Bundles, AllOf(b)', NEW g \in Files
               PROVE  /\ BeingWritten(g)' => file[g].of \subseteq {b}
                      /\ Handled(g)' => file[g] = Whole(b) \/ BeingWritten(g)'
    BY DEF OverlapInv
  <2>1. AllOf(b) /\ bundle[s] = b
    BY <1>1 DEF AllOf, TypeOK, Unpacking
  <2>2. BeingWritten(g)' <=> BeingWritten(g)
    BY <1>1 DEF BeingWritten, TypeOK
  <2>3. Handled(g)' => Handled(g) \/ file[g] = Whole(b)
    BY <1>1, <2>1 DEF Handled, TypeOK, Unpacking
  <2> QED BY <2>1, <2>2, <2>3 DEF OverlapInv
<1>6. (\A t \in Setups : pc[t] = "done" => todo[t] = {})'
  BY <1>1 DEF TypeOK
<1> QED BY <1>2, <1>4, <1>5, <1>6

\* Truncation: the file has no bytes, and s is about to write its own.
LEMMA OpenStep ==
  ASSUME SetupInv, NEW s \in Setups, Open(s)
  PROVE  SetupInv'
<1> USE DEF SetupInv, Open, Opened, Goto
<1>1. /\ pc[s] = "open" /\ pc'[s] = "write" /\ dest[s] \in Files /\ dest[s] \in todo[s]
      /\ \A g \in Files : file'[g] = IF g = dest[s] THEN Torn({}) ELSE file[g]
  BY DEF TypeOK
<1>2. TypeOK'
  BY <1>1, ContentFacts DEF TypeOK, Working, Fetching, Unpacking
<1>3. OpenInv'
  BY <1>1, ContentFacts DEF TypeOK, OpenInv
<1>4. Active' = Active /\ s \in Active
  BY <1>1 DEF Active, TypeOK, Working, Fetching, Unpacking
<1>5. AloneInv'
  <2> SUFFICES ASSUME NEW t \in Active, met[t] = {}
               PROVE  /\ Active = {t}
                      /\ pc'[t] \in Unpacking => \A f \in Files \ todo[t] : file'[f] = Whole(bundle[t])
                      /\ pc'[t] = "open" => file'[dest[t]] # Whole(bundle[t])
                      /\ pc'[t] = "write" => file'[dest[t]].of \subseteq {bundle[t]}
    BY <1>4 DEF AloneInv
  <2>1. t = s /\ Active = {s}
    BY <1>4 DEF AloneInv
  <2> QED BY <1>1, <2>1, ContentFacts DEF AloneInv, Unpacking
<1>6. OverlapInv'
  <2> SUFFICES ASSUME NEW b \in Bundles, AllOf(b)', NEW g \in Files
               PROVE  /\ BeingWritten(g)' => file'[g].of \subseteq {b}
                      /\ Handled(g)' => file'[g] = Whole(b) \/ BeingWritten(g)'
    BY DEF OverlapInv
  <2>1. AllOf(b)
    BY <1>1 DEF AllOf, TypeOK, Unpacking
  <2>2. CASE g = dest[s]
    BY <1>1, <2>2, ContentFacts DEF BeingWritten, TypeOK
  <2>3. CASE g # dest[s]
    <3>1. BeingWritten(g)' <=> BeingWritten(g)
      BY <1>1, <2>3 DEF BeingWritten, TypeOK
    <3>2. Handled(g)' <=> Handled(g)
      BY <1>1 DEF Handled, TypeOK, Unpacking
    <3> QED BY <1>1, <2>1, <2>3, <3>1, <3>2 DEF OverlapInv
  <2> QED BY <2>2, <2>3
<1>7. (\A t \in Setups : pc[t] = "done" => todo[t] = {})'
  BY <1>1 DEF TypeOK
<1> QED BY <1>2, <1>3, <1>5, <1>6, <1>7

\* A write to a file with no bytes of another bundle makes it whole.
LEMMA WriteStep ==
  ASSUME SetupInv, NEW s \in Setups, Write(s)
  PROVE  SetupInv'
<1> USE DEF SetupInv, Write, Goto, Unpacked
<1> DEFINE d == dest[s]
           new == file'[d]
<1>1. /\ pc[s] = "write" /\ d \in Files /\ d \in todo[s] /\ bundle[s] \in Bundles
      /\ file[d] \in Content /\ None \notin file[d].of
      /\ \A g \in Files \ {d} : file'[g] = file[g]
  BY DEF TypeOK, OpenInv, Unpacking
<1>2. \/ /\ new = HalfWritten(file[d], bundle[s])
         /\ pc' = pc /\ todo' = todo
      \/ /\ new \in Written(file[d], bundle[s])
         /\ pc' = [pc EXCEPT ![s] = "unbundle"]
         /\ todo' = [todo EXCEPT ![s] = @ \ {d}]
  BY <1>1 DEF TypeOK
<1>3. /\ new \in Content /\ None \notin new.of
      /\ file[d].of \subseteq {bundle[s]} =>
           /\ new.of \subseteq {bundle[s]}
           /\ pc' # pc => new = Whole(bundle[s])
      /\ pc' = pc /\ file[d] = Whole(bundle[s]) => new = Whole(bundle[s])
  <2>1. CASE new = HalfWritten(file[d], bundle[s]) /\ pc' = pc
    BY <1>1, <2>1, HalfWrittenFacts
  <2>2. CASE new \in Written(file[d], bundle[s]) /\ pc' # pc
    BY <1>1, <2>2, WrittenFacts, ContentFacts
  <2>3. pc[s] # "unbundle"
    BY <1>1
  <2>4. [pc EXCEPT ![s] = "unbundle"] # pc
    BY <2>3 DEF TypeOK
  <2> QED BY <1>2, <2>1, <2>2, <2>4
<1>4. file' \in [Files -> Content]
  BY <1>1, <1>3 DEF TypeOK
<1>5. TypeOK'
  BY <1>1, <1>2, <1>4 DEF TypeOK, Working, Fetching, Unpacking
<1>6. OpenInv'
  BY <1>1, <1>2, <1>3 DEF TypeOK, OpenInv
<1>7. Active' = Active /\ s \in Active
  BY <1>1, <1>2 DEF Active, TypeOK, Working, Fetching, Unpacking
<1>8. AloneInv'
  <2> SUFFICES ASSUME NEW t \in Active, met[t] = {}
               PROVE  /\ Active = {t}
                      /\ pc'[t] \in Unpacking => \A f \in Files \ todo'[t] : file'[f] = Whole(bundle[t])
                      /\ pc'[t] = "open" => file'[dest[t]] # Whole(bundle[t])
                      /\ pc'[t] = "write" => file'[dest[t]].of \subseteq {bundle[t]}
    BY <1>7 DEF AloneInv
  <2>1. t = s /\ Active = {s} /\ file[d].of \subseteq {bundle[s]}
    BY <1>1, <1>7 DEF AloneInv
  <2>2. \A f \in Files \ todo[s] : f # d /\ file'[f] = Whole(bundle[s])
    BY <1>1, <1>7, <2>1 DEF AloneInv, Unpacking
  <2>3. CASE pc' = pc /\ todo' = todo
    BY <1>1, <1>3, <2>1, <2>2, <2>3
  <2>4. CASE pc' # pc /\ pc' = [pc EXCEPT ![s] = "unbundle"] /\ todo' = [todo EXCEPT ![s] = @ \ {d}]
    BY <1>1, <1>3, <2>1, <2>2, <2>4 DEF TypeOK
  <2>5. [pc EXCEPT ![s] = "unbundle"] # pc
    BY <1>1 DEF TypeOK
  <2> QED BY <1>2, <2>3, <2>4, <2>5
<1>9. OverlapInv'
  <2> SUFFICES ASSUME NEW b \in Bundles, AllOf(b)', NEW g \in Files
               PROVE  /\ BeingWritten(g)' => file'[g].of \subseteq {b}
                      /\ Handled(g)' => file'[g] = Whole(b) \/ BeingWritten(g)'
    BY DEF OverlapInv
  <2>1. AllOf(b) /\ bundle[s] = b
    BY <1>1, <1>2 DEF AllOf, TypeOK, Unpacking
  <2>2. CASE g = d
    <3>1. file[d].of \subseteq {b}
      BY <1>1, <2>1 DEF OverlapInv, BeingWritten
    <3>2. CASE pc' = pc
      BY <1>1, <1>3, <2>1, <2>2, <3>1, <3>2 DEF BeingWritten
    <3>3. CASE pc' # pc
      BY <1>3, <2>1, <2>2, <3>1, <3>3
    <3> QED BY <3>2, <3>3
  <2>3. CASE g # d
    <3>1. BeingWritten(g)' <=> BeingWritten(g)
      BY <1>1, <1>2, <2>3 DEF BeingWritten, TypeOK
    <3>2. Handled(g)' => Handled(g)
      BY <1>1, <1>2, <2>3 DEF Handled, TypeOK, Unpacking
    <3> QED BY <1>1, <2>1, <2>3, <3>1, <3>2 DEF OverlapInv
  <2> QED BY <2>2, <2>3
<1>10. (\A t \in Setups : pc[t] = "done" => todo[t] = {})'
  BY <1>1, <1>2 DEF TypeOK
<1> QED BY <1>5, <1>6, <1>8, <1>9, <1>10

\* A setup that ends, well or not.
LEMMA EndStep ==
  ASSUME SetupInv, NEW s \in Setups, Unbundled(s) \/ Fail(s)
  PROVE  SetupInv'
<1> USE DEF SetupInv, Unbundled, Fail, Goto
<1>1. /\ pc[s] \in Working
      /\ \/ pc[s] = "unbundle" /\ todo[s] = {} /\ pc' = [pc EXCEPT ![s] = "done"]
         \/ pc' = [pc EXCEPT ![s] = "failed"]
      /\ UNCHANGED <<bundle, todo, dest, file, bundler, bundlesDir, met>>
  BY DEF Active, Working, Unpacking
<1>2. TypeOK' /\ OpenInv'
  BY <1>1 DEF TypeOK, OpenInv, Working, Fetching, Unpacking
<1>3. Active' = Active \ {s}
  BY <1>1 DEF Active, TypeOK, Working, Fetching, Unpacking
<1>4. AloneInv'
  BY <1>1, <1>3 DEF AloneInv, TypeOK, Active
<1>5. OverlapInv'
  <2> SUFFICES ASSUME NEW b \in Bundles, AllOf(b)', NEW g \in Files
               PROVE  /\ BeingWritten(g)' => file[g].of \subseteq {b}
                      /\ Handled(g)' => file[g] = Whole(b) \/ BeingWritten(g)'
    BY <1>1 DEF OverlapInv
  <2>1. pc' = [pc EXCEPT ![s] = "done"] /\ pc[s] = "unbundle"
    BY <1>1 DEF AllOf, TypeOK
  <2>2. AllOf(b)
    BY <1>1, <2>1 DEF AllOf, TypeOK, Unpacking
  <2>3. (BeingWritten(g)' <=> BeingWritten(g)) /\ (Handled(g)' <=> Handled(g))
    BY <1>1, <2>1 DEF BeingWritten, Handled, TypeOK, Unpacking
  <2> QED BY <2>2, <2>3 DEF OverlapInv
<1>6. (\A t \in Setups : pc[t] = "done" => todo[t] = {})'
  BY <1>1 DEF TypeOK
<1> QED BY <1>2, <1>4, <1>5, <1>6

LEMMA MakeInstallStep ==
  ASSUME SetupInv, MakeInstall
  PROVE  SetupInv'
<1>1. bundler' \in Content /\ None \notin bundler'.of
  BY ContentFacts DEF MakeInstall
<1> QED BY <1>1 DEF SetupInv, MakeInstall, TypeOK, OpenInv, AloneInv, Active,
       OverlapInv, AllOf, Handled, BeingWritten

LEMMA SetupNext ==
  ASSUME SetupInv, [Next]_vars
  PROVE  SetupInv'
<1>1. ASSUME NEW s \in Setups, Step(s) PROVE SetupInv'
  BY <1>1, BeginStep, CommandStep, WriteFileStep, OpenStep, WriteStep, EndStep DEF Step
<1>2. CASE UNCHANGED vars
  BY <1>2 DEF vars, SetupInv, TypeOK, OpenInv, AloneInv, Active,
     OverlapInv, AllOf, Handled, BeingWritten
<1> QED BY <1>1, <1>2, MakeInstallStep DEF Next

LEMMA SetupInvariance == Spec => []SetupInv
  BY SetupInit, SetupNext, PTL DEF Spec

(***************************************************************************)
(* The theorems.                                                           *)
(***************************************************************************)
\* The state is well-typed, and a setup writes only files it has yet to unpack.
THEOREM TypeCorrect == Spec => []TypeOK
  BY SetupInvariance, PTL DEF SetupInv

\* If no setup of a bundle is broken off, the files are whole in the end,
\* however the setups have overlapped.
THEOREM Overlap == Spec => []OverlapIsWhole
<1>1. SetupInv => OverlapIsWhole
  <2> SUFFICES ASSUME SetupInv, NEW b \in Bundles,
                      \A s \in Setups : pc[s] \in {"idle", "done"},
                      NEW r \in Setups, pc[r] = "done",
                      \A s \in Setups : pc[s] = "done" => bundle[s] = b,
                      NEW f \in Files
               PROVE  file[f] = Whole(b)
    BY DEF OverlapIsWhole
  <2>1. AllOf(b) /\ Handled(f) /\ ~BeingWritten(f)
    BY DEF AllOf, Handled, BeingWritten, SetupInv, Unpacking
  <2> QED BY <2>1 DEF SetupInv, OverlapInv
<1> QED BY <1>1, SetupInvariance, PTL

\* A setup that has met no other leaves every file as its bundle holds it.
THEOREM Heals == Spec => DoneIsWhole
<1>1. SetupInv /\ [Next]_vars =>
        [\A s \in Setups :
           pc[s] # "done" /\ pc'[s] = "done" /\ met[s] = {} =>
             \A f \in Files : file'[f] = Whole(bundle[s])]_vars
  <2> SUFFICES ASSUME SetupInv, Next, NEW s \in Setups,
                      pc[s] # "done", pc'[s] = "done", met[s] = {}, NEW f \in Files
               PROVE  file'[f] = Whole(bundle[s])
    OBVIOUS
  <2>1. Unbundled(s)
    BY DEF Next, Step, SetupInv, TypeOK, Goto, Begin, GetLatestBundle, BundleExists, DownloadOpen,
       Download, Launch, WriteFile, Open, Write, Unbundled, Fail, MakeInstall
  <2>2. s \in Active /\ todo[s] = {} /\ pc[s] \in Unpacking
    BY <2>1 DEF Unbundled, Active, Working, Unpacking
  <2> QED BY <2>1, <2>2 DEF Unbundled, SetupInv, AloneInv
<1> QED BY <1>1, SetupInvariance, PTL DEF Spec, DoneIsWhole

\* A setup that has met no other leaves a file alone that is its bundle's.
THEOREM LeavesAlone == Spec => KeepsWhole
<1>1. SetupInv /\ [Next]_vars =>
        [\A s \in Active, f \in Files :
           met[s] = {} /\ bundle[s] # None /\ file[f] = Whole(bundle[s]) =>
             file'[f] = file[f]]_vars
  <2> SUFFICES ASSUME SetupInv, Next, NEW s \in Active, NEW f \in Files,
                      met[s] = {}, bundle[s] # None, file[f] = Whole(bundle[s])
               PROVE  file'[f] = file[f]
    OBVIOUS
  <2>1. s \in Setups /\ Active = {s} /\ bundle[s] \in Bundles
    BY DEF SetupInv, AloneInv, TypeOK, Active
  <2>2. CASE Open(s)
    <3>1. dest[s] # f
      BY <2>1, <2>2 DEF Open, SetupInv, AloneInv
    <3> QED BY <2>2, <3>1 DEF Open, SetupInv, TypeOK
  <2>3. CASE Write(s)
    <3>1. /\ pc[s] = "write" /\ dest[s] \in Files
          /\ file[dest[s]] \in Content /\ None \notin file[dest[s]].of
          /\ file[dest[s]].of \subseteq {bundle[s]}
      BY <2>1, <2>3 DEF Write, SetupInv, AloneInv, OpenInv, TypeOK
    <3>2. f = dest[s] => file'[f] = Whole(bundle[s])
      BY <2>1, <2>3, <3>1, WrittenFacts, HalfWrittenFacts DEF Write, SetupInv, TypeOK
    <3> QED BY <2>3, <3>1, <3>2 DEF Write, SetupInv, TypeOK
  <2>4. ASSUME NEW t \in Setups, Open(t) \/ Write(t) PROVE t = s
    BY <2>1, <2>4 DEF Open, Write, Active, Working, Unpacking
  <2> QED BY <2>2, <2>3, <2>4 DEF Next, Step, Begin, GetLatestBundle, BundleExists, DownloadOpen,
         Download, Launch, WriteFile, Unbundled, Fail, MakeInstall
<1> QED BY <1>1, SetupInvariance, PTL DEF Spec, KeepsWhole

=============================================================================

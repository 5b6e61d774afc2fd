------------------------------ MODULE Releases ------------------------------
(***************************************************************************)
(* utils/updater.rs: which release WinMedic offers as an update, and what  *)
(* of it may be installed in place. GitHub tells the newest release by     *)
(* date, which is not always the highest version; a newer one can appear   *)
(* between the check and the installation. How a verified file replaces    *)
(* the program is SelfUpdate.                                              *)
(***************************************************************************)
EXTENDS Integers, FiniteSets, Sequences, TLC

CONSTANTS
  Slips,         \* "marked": a pre-release that is not marked as one
  MaxReleases,   \* bound
  MaxChecks      \* bound

ReleasesAssumption == {MaxReleases, MaxChecks} \subseteq Nat

Final == "final"

(* Pre-release tags, by where they stand: in the order of SemVer, and in   *)
(* the order of the text, by which rc.10 comes before rc.9.                *)
Precedence == ("rc.9" :> 1) @@ ("rc.10" :> 2)
InText == ("rc.10" :> 1) @@ ("rc.9" :> 2)
PreReleases == DOMAIN Precedence

(* What a tag holds between its prefix and its build metadata: numbers, or *)
(* something else, and the pre-release.                                    *)
Text == 99
Tags == [numbers : {<<>>, <<1>>, <<1, 1>>, <<1, 1, 1>>, <<1, Text>>, <<Text>>, <<2, 0>>},
         pre : {Final} \cup PreReleases]
Highest == [numbers |-> <<2, 0>>, pre |-> Final]
Versions == [numbers : {<<1, 0, 0>>, <<1, 1, 0>>, <<1, 1, 1>>, <<2, 0, 0>>},
             pre : {Final} \cup PreReleases]

(* Assets in the order GitHub lists them. A program is described by its    *)
(* checksum file: whose digest it holds, and which file it names.          *)
Program == [name |-> "exe", from |-> "releases", size |-> "right"]
Sum == [name |-> "exe.sha256", from |-> "releases", size |-> "right"]
Assets == {<<Program, Sum>>, <<Sum, Program>>, <<Program>>, <<Sum>>, <<>>,
           <<[Program EXCEPT !.from = "elsewhere"], Sum>>,
           <<Program, [Sum EXCEPT !.from = "elsewhere"]>>,
           <<[Program EXCEPT !.size = "too large"], Sum>>,
           <<[Program EXCEPT !.name = "other.exe"], Sum>>}
Manifests == [digest : {"its own", "another's", "none"}, name : {"exe", "another", "none"}]
Fine == [digest |-> "its own", name |-> "exe"]

NoRelease == [tag |-> [numbers |-> <<>>, pre |-> Final], kind |-> "none", page |-> "none",
              assets |-> <<>>, manifest |-> Fine]

VARIABLES
  current,     \* the version that runs
  latest,      \* the release GitHub tells, or NoRelease
  releases,    \* how many there were
  offer,       \* UpdateInfo: the release offered, or NoRelease
  checks       \* how often WinMedic asked

vars == <<current, latest, releases, offer, checks>>

Init ==
  /\ current \in Versions
  /\ latest = NoRelease /\ releases = 0 /\ offer = NoRelease /\ checks = 0

---------------------------------------------------------------------------
(* SemVer::parse: the first number has to be one, others count as 0.       *)
Parses(tag) == tag.numbers # <<>> /\ tag.numbers[1] # Text
Number(tag, i) ==
  IF i <= Len(tag.numbers) /\ tag.numbers[i] # Text THEN tag.numbers[i] ELSE 0
Parsed(tag) == [numbers |-> [i \in 1..3 |-> Number(tag, i)], pre |-> tag.pre]

(* The numbers of a are less than b's.                                     *)
Less(a, b) ==
  \E i \in 1..3 : a.numbers[i] < b.numbers[i] /\ \A j \in 1..(i - 1) : a.numbers[j] = b.numbers[j]

(* Ord for SemVer. Mutant: without the pre-release.                        *)
NewerByNumbers(a, b) == Less(b, a)

Newer(a, b) ==
  \/ Less(b, a)
  \/ /\ a.numbers = b.numbers /\ b.pre # Final
     /\ a.pre = Final \/ InText[a.pre] > InText[b.pre]

IsUpdateAvailable(version, tag) == Parses(tag) /\ Newer(Parsed(tag), version)

(* is_safe_release_url, for the page that the notice opens.                *)
IsSafePage(release) == release.page = "github.com"

(* pick_update_download: the first program and the checksum of its name,   *)
(* both from the releases and of a size that can be right.                 *)
Installable(assets) ==
  LET programs == {i \in DOMAIN assets : assets[i].name \in {"exe", "other.exe"}}
  IN  programs # {} /\
      LET i == CHOOSE i \in programs : \A j \in programs : i <= j
      IN  \E j \in DOMAIN assets :
            /\ assets[i].name = "exe" /\ assets[j].name = "exe.sha256"
            /\ assets[i].from = "releases" /\ assets[j].from = "releases"
            /\ assets[i].size = "right"

(* parse_sha256_manifest, and the digest of the file it is compared with.  *)
Verified(manifest) == manifest.digest = "its own" /\ manifest.name \in {"exe", "none"}

---------------------------------------------------------------------------
(* The project publishes; a pre-release is marked as one. One thing may be *)
(* wrong with a version that everybody would be offered.                   *)
Publish ==
  /\ releases < MaxReleases /\ releases' = releases + 1
  /\ \E tag \in Tags, kind \in {"final", "draft", "pre-release"} :
       LET release == [tag |-> tag, kind |-> kind, page |-> "github.com",
                       assets |-> <<Program, Sum>>, manifest |-> Fine]
       IN  /\ kind = "final" /\ "marked" \notin Slips => tag.pre = Final
           /\ \/ latest' = release
              \/ /\ tag = Highest /\ kind = "final"
                 /\ \/ latest' = [release EXCEPT !.page = "elsewhere"]
                    \/ \E assets \in Assets : latest' = [release EXCEPT !.assets = assets]
                    \/ \E m \in Manifests : latest' = [release EXCEPT !.manifest = m]
  /\ UNCHANGED <<current, offer, checks>>

(* check_for_update; a query that fails offers nothing.                    *)
Check ==
  /\ checks < MaxChecks /\ checks' = checks + 1
  /\ \/ offer' = NoRelease
     \/ /\ latest # NoRelease
        /\ offer' = IF /\ latest.kind = "final" /\ IsSafePage(latest)
                       /\ IsUpdateAvailable(current, latest.tag)
                    THEN latest ELSE NoRelease
  /\ UNCHANGED <<current, latest, releases>>

(* What was offered is installed, and WinMedic starts as that version.     *)
Install ==
  /\ offer # NoRelease /\ Installable(offer.assets) /\ Verified(offer.manifest)
  /\ current' = Parsed(offer.tag)
  /\ offer' = NoRelease
  /\ UNCHANGED <<latest, releases, checks>>

Next == Publish \/ Check \/ Install

Spec == Init /\ [][Next]_vars

---------------------------------------------------------------------------
(* SemVer's own order.                                                     *)
After(a, b) ==
  \/ Less(b, a)
  \/ /\ a.numbers = b.numbers /\ b.pre # Final
     /\ a.pre = Final \/ Precedence[a.pre] > Precedence[b.pre]

(* Nothing newer is kept from anybody: a final release counts as newer     *)
(* exactly if SemVer says so, also than a pre-release of itself.           *)
FinalIsNewer ==
  Parses(latest.tag) /\ latest.tag.pre = Final =>
    (IsUpdateAvailable(current, latest.tag) <=> After(Parsed(latest.tag), current))

(* An update never goes back nor stays where it is, by SemVer, and what is *)
(* installed was vouched for by name, also when another release appears in *)
(* between. And no check keeps back a final release that is newer.         *)
UpdatesGoForward ==
  [][/\ current' # current => /\ After(current', current)
                              /\ offer.kind = "final" /\ offer.page = "github.com"
                              /\ offer.manifest.digest = "its own"
                              /\ offer.manifest.name # "another"
     /\ latest' # latest => FinalIsNewer']_vars
=============================================================================

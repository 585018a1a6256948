------------------------- MODULE LinuxTemperature --------------------------
(***************************************************************************)
(* cpu_temperature() of sweatmeter/readers/linux.py: a sensor is searched  *)
(* for in two trees of /sys, thermal zones before hwmon, and its path is   *)
(* kept until a read of it fails.  Files come and go, or become implausible*)
(* and plausible again, at any moment, also between two reads of a search. *)
(***************************************************************************)

CONSTANTS Thermal,      \* thermal-zone files
          Hwmon,        \* hwmon files of drivers that are not GPU or NVMe
          Preferred,    \* files of a known CPU driver, zone type or label
          None          \* no file

Files == Thermal \cup Hwmon

ASSUME LinuxTemperatureAssumption ==
    /\ Thermal \cap Hwmon = {}
    /\ Preferred \subseteq Files
    /\ None \notin Files

VARIABLES
    readable,   \* files that hold a plausible value
    cached,     \* self._temperature_file
    scan,      \* where the call is
    unread,     \* files of the tree being searched that are still to be read
    found,      \* its candidates so far
    answer,     \* the file the last call's value came from, or None
    steady,     \* files readable ever since the call began
    dropped     \* the call found its cached file unreadable

search == <<unread, found>>
sensorVars == <<readable, cached, scan, search, answer, steady, dropped>>

SensorInit ==
    /\ readable \in SUBSET Files
    /\ cached = None
    /\ scan = "idle"
    /\ unread = {}
    /\ found = {}
    /\ answer = None
    /\ steady = {}
    /\ dropped = FALSE

\* The kernel changes what one file holds.
Change(f) ==
    /\ readable' = IF f \in readable THEN readable \ {f} ELSE readable \cup {f}
    /\ steady' = steady \ {f}
    /\ UNCHANGED <<cached, scan, search, answer, dropped>>

Search(tree, F) == scan' = tree /\ unread' = F /\ found' = {}

\* (Variant: every call searches.)
CallAfresh ==
    /\ scan = "idle"
    /\ Search("thermal", Thermal)
    /\ steady' = readable
    /\ dropped' = FALSE
    /\ UNCHANGED <<readable, cached, answer>>

Call ==
    /\ scan = "idle"
    /\ IF cached = None THEN Search("thermal", Thermal)
       ELSE scan' = "cached" /\ UNCHANGED search
    /\ steady' = readable
    /\ dropped' = FALSE
    /\ UNCHANGED <<readable, cached, answer>>

Answer(f) ==
    /\ answer' = f
    /\ scan' = "idle"
    /\ unread' = {}
    /\ found' = {}
    /\ UNCHANGED <<readable, steady>>

\* The kept path is read; when that fails it is dropped and the search begins.
\* (Variant: the call that finds the failure answers UNSUPPORTED.)
ReadCachedOnly ==
    /\ scan = "cached"
    /\ UNCHANGED dropped
    /\ \/ cached \in readable /\ Answer(cached) /\ UNCHANGED cached
       \/ cached \notin readable /\ Answer(None) /\ cached' = None

ReadCached ==
    /\ scan = "cached"
    /\ \/ cached \in readable /\ Answer(cached) /\ UNCHANGED <<cached, dropped>>
       \/ /\ cached \notin readable
          /\ cached' = None
          /\ dropped' = TRUE
          /\ Search("thermal", Thermal)
          /\ UNCHANGED <<readable, answer, steady>>

\* The search reads one file of its tree.
Visit(f) ==
    /\ scan \in {"thermal", "hwmon"}
    /\ f \in unread
    /\ unread' = unread \ {f}
    /\ found' = IF f \in readable THEN found \cup {f} ELSE found
    /\ UNCHANGED <<readable, cached, scan, answer, steady, dropped>>

\* What sorting the candidates puts first: a preferred file if one was found.
\* (Variant: directory order alone.)
AnyOf(F) == F
Best(F) == IF F \cap Preferred # {} THEN F \cap Preferred ELSE F

EndThermal ==
    /\ scan = "thermal"
    /\ unread = {}
    /\ UNCHANGED dropped
    /\ IF found = {}
       THEN Search("hwmon", Hwmon) /\ UNCHANGED <<readable, cached, answer, steady>>
       ELSE \E f \in Best(found) : Answer(f) /\ cached' = f

EndHwmon ==
    /\ scan = "hwmon"
    /\ unread = {}
    /\ UNCHANGED dropped
    /\ IF found = {}
       THEN Answer(None) /\ UNCHANGED cached
       ELSE \E f \in Best(found) : Answer(f) /\ cached' = f

SensorNext ==
    \/ \E f \in Files : Change(f) \/ Visit(f)
    \/ Call \/ ReadCached \/ EndThermal \/ EndHwmon

SensorSpec == SensorInit /\ [][SensorNext]_sensorVars

----------------------------------------------------------------------------
(* Properties.                                                             *)

\* A call says there is no temperature only when no file was readable all
\* through it: the loss of the kept file is made up for in the same call.
AnswersWhenItCan ==
    [][(scan # "idle" /\ scan' = "idle" /\ answer' = None) => steady = {}]_sensorVars

\* Successive temperatures come from one sensor until a call finds that
\* sensor unreadable, though a preferred one may appear in between.
SourceIsSticky ==
    [][(scan # "idle" /\ scan' = "idle" /\ {answer, answer'} \subseteq Files)
          => answer' = answer \/ dropped']_sensorVars

\* A search ends at a preferred thermal zone if there is one all through the
\* call, at any thermal zone before any hwmon file otherwise.
SearchPrefersThermal ==
    [][(cached = None /\ cached' \in Files) =>
          /\ steady \cap Thermal # {} => cached' \in Thermal
          /\ steady \cap Thermal \cap Preferred # {} => cached' \in Preferred]_sensorVars
=============================================================================

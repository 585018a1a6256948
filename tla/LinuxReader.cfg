\* Two callers of cpu_percent() or of disk_throughput(); or two thermal zones
\* and two hwmon files, one of each preferred, that come and go at any moment.
SPECIFICATION ReaderSpec
CONSTANTS
    Callers = {a, b}
    NoCaller = NoCaller
    Meters = {"cpu", "disk"}
    MaxGrowth = 2
    MaxFalls = 1
    MaxTime = 2
    Thermal = {t1, t2}
    Hwmon = {h1, h2}
    Preferred = {t1, h1}
    None = None
INVARIANTS
    NeverOverstates
    NothingIsLost
PROPERTIES
    RatesAreSound
    AnswersWhenItCan
    SourceIsSticky
    SearchPrefersThermal
SYMMETRY Symmetry
CHECK_DEADLOCK FALSE

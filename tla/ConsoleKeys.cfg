SPECIFICATION MCSpec
CONSTANTS
    Letters = {"q", "enter", "backspace"}
    Layouts = {"de", "us"}
    Plain <- MCPlain
    Shifted <- MCShifted
    AltGr <- MCAltGr
    NoChar = "none"
    VGA_WIDTH = 5
    VGA_HEIGHT = 4
    PROMPT_LENGTH = 2
    CmdMax = 2
    LogoRows = 2
    FetchRows = 3
    FirstRow = 1
    LongName = 9
    MostRows = 5
    MaxLost = 1
    Minute = 2
    Minutes = 2
    Hours = 11
    Unsigned = 4096
    Undefined = {153}
    MaxTime = 64
INVARIANTS LineIsShown LineIsMeant UntornIsExact TornWithinHour

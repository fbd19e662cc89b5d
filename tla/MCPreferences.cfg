SPECIFICATION PreferencesSpec
CONSTANTS
  Procs = {p1, p2, p3}
  Domains = {d1, d2, d3}
  Video = Video
  NoKey = NoKey
SYMMETRY Symmetry
CONSTRAINT NotMet
PROPERTIES
  OneSettingAtATime

\* One caller: resetDefault against the configured default.
CONSTANTS
  s1 = s1
  s2 = s2
  dmx = dmx
  zll = zll
  NoValue = NoValue
  Senders = {s1}
  Clients = {dmx, zll}
  EraseWorks = FALSE
  Calls <- ResetOnly
  DefaultFlds <- SettingsDefault
SPECIFICATION Spec
PROPERTY ResetShowsConfiguredDefault

\* Two device threads with the calls ControlBox::notify makes, or one caller
\* with the whole interface of the class; clients come and go at will.
CONSTANTS
  s1 = s1
  s2 = s2
  dmx = dmx
  zll = zll
  NoValue = NoValue
  Senders = {s1, s2}
  Clients = {dmx, zll}
  EraseWorks = TRUE
  Calls <- ApiCalls
  DefaultFlds <- SettingsDefault
SPECIFICATION Spec
INVARIANTS TypeInv RangeInv QuiescentAgreement
CONSTRAINT NotifyOrAlone
SYMMETRY Symmetric

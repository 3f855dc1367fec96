SPECIFICATION Spec
SYMMETRY Symmetry
CONSTANTS
  EventId = {ev1, ev2, ev3, ev4}
  EventStatus = {active, upcoming}
  AnyStatus = AnyStatus
  Key = {1, 2, 3}
  Limit = {2}
INVARIANTS TypeOK NothingSkipped RepeatsArePushed QuietWalkIsTheList PagesInv
CHECK_DEADLOCK FALSE

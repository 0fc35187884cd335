CONSTANT Keys = {"down"}
SPECIFICATION JoySpec
PROPERTY EnabledLineServed
